SPECIFICATION Spec
CONSTANTS
    r1 = r1
    f1 = f1
    f2 = f2
    f3 = f3
    Flows = {f1, f3}
    WorkerCount = 2
    OffloadCount = 0
    Shard <- MCShard
    OffloadShard <- MCOffloadShard
    Policies = {"Block"}
    WorkerDepth = 1
    OffloadDepth = 1
    EventDepth = 1
    BatchCapacity = 2
    PlacementCapacity = 2
    ChunksPerPacket = {1}
    Slices = {r1}
    Faults = {"sink", "source", "worker"}
    MaxPackets = 2
    MaxSnapshots = 1
    MaxFaults = 2
INVARIANTS
    PendingSliceIsQueued
PROPERTIES
    DeadWorkerEndsRun
CHECK_DEADLOCK FALSE
