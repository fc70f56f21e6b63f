SPECIFICATION FairSpec
CONSTANTS
    Files <- MCFiles
    Paths <- MCPaths
    Symbols <- MCSymbols
    NoFile <- MCNoFile
    DylibInputs <- MCTwins
INVARIANTS
    ProvidersHaveOrdinals
