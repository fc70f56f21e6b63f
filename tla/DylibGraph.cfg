SPECIFICATION FairSpec
CONSTANTS
    Files <- MCFiles
    Paths <- MCPaths
    Symbols <- MCSymbols
    NoFile <- MCNoFile
    DylibInputs <- MCInputs
INVARIANTS
    CyclesAreRefused
    ShownIsFound
    ProvidersHaveOrdinalsOrTwins
PROPERTIES
    LinkEnds
