SPECIFICATION ResolverSpec
CONSTANTS
    Atoms <- MCAtoms
    NoAtom = NoAtom
    Names <- MCNames
    Contents = {"c"}
    Attributes <- MCAttributes
    CommonsMode = "ignoreDylibs"
    DeadCodeStrip = FALSE
    AllowDeadDuplicates = FALSE
    Files = {"main", "m1", "m2", "m3"}
    Libraries = {"A", "B", "D", "E"}
    NoSearch = NoSearch
    Links <- MCAutolinkChain
INVARIANT NothingMissedAutolinking
CHECK_DEADLOCK FALSE
