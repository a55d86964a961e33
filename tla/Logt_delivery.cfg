SPECIFICATION FairSpec
CONSTANTS
    t1 = t1
    t2 = t2
    Threads = {t1, t2}
    LOGT_MAX_CHANNEL = 2
    Levels <- JustInfo
    Filters <- NoFilters
    Calls <- DeliveryCalls
    OpenFails = FALSE
    MaxMessages = 2
INVARIANT TypeOK
INVARIANT FifoPerChannel
INVARIANT ShutdownDrains
PROPERTY ClosingIsFinal
PROPERTY ShutdownReturns
PROPERTY ImplementsDelivery
