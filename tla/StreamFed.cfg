CONSTANTS
    Size = 3
    MAX_READERS = 2
    MaxBytes = 4
    Garbage = {}
    Client = {c1, c2}
    ShortReads = FALSE
    ReadErrors = FALSE
SPECIFICATION FairSpec
PROPERTY FedToTheEnd
