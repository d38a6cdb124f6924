SPECIFICATION Spec
CONSTANTS
    Method = {"GET", "HEAD", "POST"}
    Path <- Paths
    Headers <- AllHeaders
    Resource <- Streams
    Garbage <- MinusOne
INVARIANT TypeOK
INVARIANT WellCutServed
INVARIANT LossHasItsCut
CHECK_DEADLOCK FALSE
