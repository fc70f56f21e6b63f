SPECIFICATION TableSpec
CONSTANTS
    Atoms <- MCAtoms
    NoAtom = NoAtom
    Names = {"x"}
    Contents = {"c"}
    Attributes <- MCThreeDefinitions
    CommonsMode = "ignoreDylibs"
    DeadCodeStrip = FALSE
    AllowDeadDuplicates = FALSE
INVARIANT ChosenAssigned
CHECK_DEADLOCK FALSE
