SPECIFICATION Spec
CONSTANTS
    Batches <- MCBatches
    Ports = {"p"}
    MaxRefusals = 1
    kMaxWatchportGroupBulkSize = 1
    gMaxBulkSize = 2
CONSTRAINTS SecondMacEarly SecondGroupAlone TornWithoutTunnels SecondMetaLast
INVARIANTS Consistent ObjectsAsBelieved StopsAtFailure DatabaseRestores WatchPortsFollowed
