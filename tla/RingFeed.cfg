CONSTANTS
    Size = 4
    MAX_READERS = 3
    MaxBytes = 9
    Garbage = {}
SPECIFICATION Spec
INVARIANTS TypeOK HighestReaderSafe ShieldedIntact
PROPERTY ImplementsFeed
