\* Every tool of the registry, called twice; godo repeats a request once.
SPECIFICATION Spec
CONSTANTS
    Offer <- MCOffer
    Public <- MCPublic
    RetryMax = 1
    MaxCalls = 2
    NotRepeatable <- MCNotRepeatable
    Misfits <- MCMisfits
INVARIANTS HintsHold AnswersAreHonest FitsItsSchema NoTokenNoRequest
CHECK_DEADLOCK FALSE
