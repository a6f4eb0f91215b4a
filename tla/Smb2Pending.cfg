CONSTANTS
    MaxCalls = 4
    MaxId = 2
    Word = 1000
    Needs = {1, 3}
    Grants = {3}
    Chained = TRUE
    Async = TRUE
    Faulty = FALSE
SPECIFICATION Spec
INVARIANT AwaitedRequests
CHECK_DEADLOCK FALSE
