CONSTANTS
    SplSize = 2
    HeaderSize = 2
    Word = 32
    Messages <- SmallMessages
    Extra = 1
SPECIFICATION Spec
INVARIANTS InsideBuffer Framed
PROPERTIES ReceiveReturns
CHECK_DEADLOCK FALSE
