CONSTANTS
    Size = 3
    MAX_READERS = 1
    MaxBytes = 6
    Garbage = {}
    Client = {c1}
    ShortReads = FALSE
    ReadErrors = FALSE
SPECIFICATION FairSpec
PROPERTY FirstByteArrives
