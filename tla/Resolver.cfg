SPECIFICATION FairResolverSpec
CONSTANTS
    Atoms <- MCAtoms
    NoAtom = NoAtom
    Names <- MCNames
    Contents = {"c"}
    Attributes <- MCAttributes
    CommonsMode = "overriddenByDylibs"
    DeadCodeStrip = FALSE
    AllowDeadDuplicates = FALSE
    Files = {"main", "m1", "m2", "m3"}
    Libraries = {"A", "B", "D", "E"}
    NoSearch = NoSearch
    Links <- MCLinks
INVARIANTS
    HandedOutOnce
    NothingMissed
    CommonsOverridden
    NoDanglingEdges
PROPERTIES
    ImplementsTable
    LoadedOnDemand
    Resolves
CHECK_DEADLOCK FALSE
