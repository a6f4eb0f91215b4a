SPECIFICATION Spec
CONSTANTS
    a = a
    b = b
    c = c
    track = track
    watch = watch
    None = None
    Slots = {a, b, c}
    Signals = {first, second}
    Threads = {t, u}
    Payloads <- MCPayloads
    Group <- MCGroup
    Kind <- MCKind
    Callable <- MCCallable
    Object <- MCObject
    first = first
    second = second
    Main = first
    Opening <- MCOpening
    FirstIndex <- MCFirstIndex
    MaxOperations = 3
INVARIANTS IndexInv CountInv DisconnectedRemoved
PROPERTIES SnapshotStable Promise WalksEnd
CHECK_DEADLOCK FALSE
