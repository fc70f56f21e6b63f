SPECIFICATION DeadStripSpec
CONSTANTS
    Atoms <- MCAtoms
    NoAtom = NoAtom
    Names <- MCNames
    Contents = {"c"}
    Attributes <- MCAllAttributes
    CommonsMode = "ignoreDylibs"
    DeadCodeStrip = TRUE
    AllowDeadDuplicates = FALSE
    Files = {"main", "m1", "m2", "m3"}
    Libraries = {"A", "B", "D", "E"}
    NoVisit = NoVisit
    NoSearch = NoSearch
    Links <- MCLiveIfChain
INVARIANT LiveIfComplete
CHECK_DEADLOCK FALSE
