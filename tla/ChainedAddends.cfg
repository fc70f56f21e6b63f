SPECIFICATION ChainsSpec
CONSTANTS
    Images <- MCBetween
    PageSlots = 7
    Reach = 2
    FirmwareReach = 3
    MaxTarget = 16
    InlineMax <- MCInlineMax
    ColumnFree = 3
    StartsPerPage = 3
    SharedStartsPerPage = 8
INVARIANTS
    PointersArrive
CHECK_DEADLOCK FALSE
