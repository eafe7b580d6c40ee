CONSTANTS
    Keys = {k1, k2}
    Route <- MCRoute
    Transports = {"zmq", "redis"}
    gMaxBulkSize = 2
    MaxWire = 2
    MaxAsks = 3
SPECIFICATION FairSpec
INVARIANTS Consistent DatabaseExact
PROPERTIES ImplementsRegister EventuallyShown
CHECK_DEADLOCK FALSE
