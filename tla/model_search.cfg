\* Three models, a custom one, two fetched at a time, and a search that stops at one match; both kinds of search.
SPECIFICATION Spec
CONSTANTS
    Models = {a, b, c}
    Customs = {x}
    Target = 1
    MaxFetch = 2
INVARIANTS FetchesAreBounded NoSendAfterClose AnswerIsComplete
PROPERTIES SearchEnds
CHECK_DEADLOCK FALSE
