CONSTANTS
    NULL = NULL
    Node = {n1, n2, n3}
    Key <- MCKey
    Value <- MCValue
    Fold <- MCFold
    Query <- MCQuery
    MaxValue = 5
    MaxBuffer = 12
    SizeMod = 65536
SPECIFICATION Spec
CHECK_DEADLOCK FALSE
SYMMETRY Nodes
INVARIANTS ListsSound RoundTrip PrintFits ParseMeans 
