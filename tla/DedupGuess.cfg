SPECIFICATION DedupSpec
CONSTANTS
    Data <- MCData
    DedupInputs <- MCCrossed
INVARIANTS
    MergedAreTheSame
