SPECIFICATION PassesSpec
CONSTANTS
    OrderInputs <- MCOrderInputs
    Data <- MCData
    DedupInputs <- MCDedupInputs
    BranchInputs <- MCTexts
    MightNeed = 18
    Between = 20
    EndRoom = 4
    Reach = 26
    StubSize = 1
    IslandSize = 1
    UnwindInputs <- MCPrograms
    PageWords = 10
    MinLastPage = 6
    MaxCommon = 2
    MaxIndex = 3
    MaxDelta = 12
    DeltaSpan = 20
    MaxPersonalities = 3
    LayoutJobs <- MCLayoutJobs
    Page = 16
    LastOrder = 10000
    ZeroFillOrders = 256
    Programs <- MCReferencePrograms
    CodePage = 32
    OneMeg = 64
INVARIANTS
    LaidOutAsAsked
    OrdersStrictly
    MergedIfAlike
    BranchesReach
    UnwoundRight
    ImageIsMapped
    EdgesEnclose
    ReferencesArrive
