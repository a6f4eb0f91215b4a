CONSTANTS
    MaxCalls = 4
    MaxId = 2
    Word = 1000
    Needs = {1, 3}
    Grants = {3}
    Chained = TRUE
    Async = FALSE
    Faulty = FALSE
SPECIFICATION Spec
INVARIANTS OwnReply NoDanglingReply QueuesDrained MountedAfterConnect AwaitedRequests EveryIdPaidFor
PROPERTIES CallsReturn
CHECK_DEADLOCK FALSE
