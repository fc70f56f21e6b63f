SPECIFICATION LayoutSpec
CONSTANTS
    LayoutJobs <- MCEdgesMoved
    Page = 16
    LastOrder = 10000
    ZeroFillOrders = 256
INVARIANT
    ImageIsMapped
