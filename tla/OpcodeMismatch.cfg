SPECIFICATION StreamSpec
CONSTANTS
    Inputs <- MCMixed
    PtrSize = 2
    ImmLimit = 3
    UlebUnit = 8
    Space = 64
INVARIANT
    MismatchIsNonWeak
CHECK_DEADLOCK FALSE
