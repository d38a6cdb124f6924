CONSTANTS
    Size = 3
    MAX_READERS = 1
    Garbage <- StackGarbage
    a = a
    b = b
    Serial = {a}
    NumHeaders <- OneCodec
    MaxLinks = 1
    MaxEmpty = 0
    MaxData = 1
    MaxPiece = 2
    MaxSignals = 1
    Client = {c1, c2}
SPECIFICATION Spec
SYMMETRY ClientSymmetry
CHECK_DEADLOCK FALSE
INVARIANTS DamageHasCause StopsAfterOnePage
