SPECIFICATION Spec

CONSTANTS
    Labels = {0, 1, 2, 3}
    Files <- MCFiles
    EaLists <- MCSetLists
    Names <- MCNames
    Times = {0, 2}
    Sizes = {0, 6}
    Leftovers = {0, 8}
    FirstBuffer = 32
    MaxEntries = 2
    MaxCalls = 2

INVARIANTS
    QueryTellsAll
    SetIsApplied
    DescriptorRead
    DescriptorKept
    BufferRespected

CHECK_DEADLOCK FALSE
