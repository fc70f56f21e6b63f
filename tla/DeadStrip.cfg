SPECIFICATION FairDeadStripSpec
CONSTANTS
    Atoms <- MCAtoms
    NoAtom = NoAtom
    Names <- MCNames
    Contents = {"c"}
    Attributes <- MCAllAttributes
    CommonsMode = "ignoreDylibs"
    DeadCodeStrip = TRUE
    AllowDeadDuplicates = FALSE
    Files = {"main", "m1", "m2", "m3"}
    Libraries = {"A", "B", "D", "E"}
    NoVisit = NoVisit
    NoSearch = NoSearch
    Links <- MCPassLinks
INVARIANTS
    LiveClosed
    OnlyReachableLive
PROPERTY StripEnds
CHECK_DEADLOCK FALSE
