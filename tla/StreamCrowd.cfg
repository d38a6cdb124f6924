CONSTANTS
    Size = 2
    MAX_READERS = 1
    MaxBytes = 3
    Garbage <- StackGarbage
    Client = {c1, c2, c3}
    ShortReads = FALSE
    ReadErrors = FALSE
SPECIFICATION Spec
SYMMETRY ClientSymmetry
INVARIANT WriterKeepsClear
