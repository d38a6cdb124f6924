CONSTANTS
    NULL = NULL
    BUFFER_SIZE = 3
    MAX_ENCODERS = 1
    Name <- MCName
    Value <- MCName
    Fold <- MCFold
    Hash <- MCHash
    Rank <- MCRank
    Address <- MCAddress
    Kind <- MCKind
    On <- MCOn
    Off <- MCOff
    Resolves <- MCResolves
    Listen <- ListenName
    Path <- PathName
    Type <- TypeName
    Text <- TextName
    CtlFile <- CtlFileName
    Preview <- PreviewName
    DefaultType <- DefaultText
    Texts <- MCTexts
    Args <- MCArgs
SPECIFICATION Spec
CHECK_DEADLOCK FALSE
INVARIANTS TypeOK  RefillsUnseen LookupNeverStale LookupFindsAlone TreesShaped ServedAsConfigured PortAsConfigured
PROPERTIES FoundStaysFound
