SPECIFICATION Spec
CONSTANTS
    NumFiles = 3
    NumCpus = 3
    Paths <- MCPaths
    Pipelined = FALSE
    FifoMayFail = FALSE
    Spurious = FALSE
    CommandLines <- MCOneBadLine
INVARIANTS
    OthersFinishedAtExit
