CONSTANTS
    NShares = 2
    Hdr = 2
    Small = 2
    Entry1 = 3
    Entry2 = 4
    Req = 4
    Limits <- MCLimits
    Partial = TRUE
    Faulty = TRUE
    ReuseSid = FALSE
    MaxCalls = 2
SPECIFICATION FairSpec
INVARIANTS AllListed ReadableInFirstRound CleanedUp SidUsable
PROPERTIES CallReturns
CHECK_DEADLOCK FALSE
