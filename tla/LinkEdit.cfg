SPECIFICATION LinkEditSpec
CONSTANTS
    Images <- MCImages
    PageSlots = 7
    Reach = 2
    FirmwareReach = 3
    MaxTarget = 16
    InlineMax <- MCInlineMax
    ColumnFree = 3
    StartsPerPage = 3
    SharedStartsPerPage = 8
    Inputs <- MCInputs
    PtrSize = 2
    ImmLimit = 3
    Space = 64
    Exports <- MCExports
    UlebUnit = 8
INVARIANTS
    ImageLoads
    StreamMeansFixups
PROPERTIES
    NeverGrows
    ReaderFindsExports
CHECK_DEADLOCK FALSE
