CONSTANTS
    MaxCalls = 3
    MaxId = 1
    Word = 1000
    Needs = {2}
    Grants = {1}
    Chained = FALSE
    Async = TRUE
    Faulty = TRUE
SPECIFICATION Spec
INVARIANTS WithinWindow UniqueIds
CHECK_DEADLOCK FALSE
CONSTRAINT FirstConnection
VIEW EngineView
