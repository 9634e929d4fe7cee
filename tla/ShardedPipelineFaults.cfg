SPECIFICATION Spec
CONSTANTS
    r1 = r1
    f1 = f1
    f2 = f2
    f3 = f3
    Flows = {f1}
    WorkerCount = 2
    OffloadCount = 1
    Shard <- MCShard
    OffloadShard <- MCOffloadShard
    Policies = {"Block", "Inline", "Drop"}
    WorkerDepth = 1
    OffloadDepth = 1
    EventDepth = 1
    BatchCapacity = 2
    PlacementCapacity = 2
    ChunksPerPacket = {1}
    Slices = {}
    Faults = {"sink", "source", "offload"}
    MaxPackets = 3
    MaxSnapshots = 0
    MaxFaults = 1
INVARIANTS
    SuccessMeansClean
PROPERTIES
    CoordinatorNeverWedges
    LiveEventsAreWritten
CHECK_DEADLOCK FALSE
