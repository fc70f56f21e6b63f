SPECIFICATION FairSpec
CONSTANTS
    NumFiles = 3
    NumCpus = 2
    Paths <- MCPaths
    Pipelined = TRUE
    FifoMayFail = TRUE
    Spurious = TRUE
    CommandLines <- MCLines
INVARIANTS
    TypeOK
    ScanFinds
    ParsedOnce
    MainSleepsForCause
    WorkNotStranded
    ErrorNotLost
PROPERTIES
    Implements
    Ends
CHECK_DEADLOCK FALSE
