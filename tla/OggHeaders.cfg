CONSTANTS
    Size = 3
    MAX_READERS = 1
    Garbage = {}
    a = a
    b = b
    Serial = {a, b}
    NumHeaders <- TwoCodecs
    MaxLinks = 2
    MaxEmpty = 1
    MaxData = 2
    MaxPiece = 1
    MaxSignals = 1
    Client = {c1}
SPECIFICATION Spec
CHECK_DEADLOCK FALSE
INVARIANTS TypeOK HeadersTracked HeadlessHasCause
