CONSTANTS
    Size = 4
    MAX_READERS = 2
    MaxBytes = 6
    Garbage = {}
    Client = {c1, c2}
    ShortReads = TRUE
    ReadErrors = TRUE
SPECIFICATION Spec
SYMMETRY ClientSymmetry
INVARIANTS TypeOK LossHasCause WriterKeepsClear
