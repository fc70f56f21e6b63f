SPECIFICATION ReferencesSpec
CONSTANTS
    Programs <- MCStoresElsewhere
    CodePage = 32
    OneMeg = 64
INVARIANTS
    CodeMeansTheSame
CHECK_DEADLOCK FALSE
