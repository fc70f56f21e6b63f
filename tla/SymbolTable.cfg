SPECIFICATION TableSpec
CONSTANTS
    Atoms <- MCAtomsWithUnwind
    NoAtom = NoAtom
    Names = {"x", "y"}
    Contents = {"c", "d"}
    Attributes <- MCAll
    CommonsMode = "ignoreDylibs"
    DeadCodeStrip = TRUE
    AllowDeadDuplicates = FALSE
INVARIANTS
    TableTypeOK
    KeptIffSlotted
    ContentAligned
    WinnerIsBest
    DuplicatesReported
CHECK_DEADLOCK FALSE
