\* Two calls of one tool, two agents, one request that goes wrong, a deadline of
\* one interval.
SPECIFICATION Spec
CONSTANTS
    Calls = {a, b}
    Agents = 2
    Timeout = 1
    Interval = 1
    MaxFaults = 1
INVARIANTS AnswerIsItsRun OneTestCase MadeIsAccountedFor AsShown
PROPERTIES WorkflowEnds
CHECK_DEADLOCK FALSE
