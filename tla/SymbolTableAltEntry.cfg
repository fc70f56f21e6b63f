SPECIFICATION TableSpec
CONSTANTS
    Atoms <- MCFour
    NoAtom = NoAtom
    Names = {"x", "y"}
    Contents = {"c"}
    Attributes <- MCAltEntries
    CommonsMode = "ignoreDylibs"
    DeadCodeStrip = FALSE
    AllowDeadDuplicates = FALSE
INVARIANT SlotAtomKept
CHECK_DEADLOCK FALSE
