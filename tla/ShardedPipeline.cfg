SPECIFICATION Spec
CONSTANTS
    r1 = r1
    f1 = f1
    f2 = f2
    f3 = f3
    Flows = {f1, f3}
    WorkerCount = 2
    OffloadCount = 1
    Shard <- MCShard
    OffloadShard <- MCOffloadShard
    Policies = {"Block", "Inline", "Drop"}
    WorkerDepth = 1
    OffloadDepth = 1
    EventDepth = 1
    BatchCapacity = 2
    PlacementCapacity = 2
    ChunksPerPacket = {0, 2}
    Slices = {}
    Faults = {}
    MaxPackets = 2
    MaxSnapshots = 1
    MaxFaults = 0
INVARIANTS
    TypeOK
    ChunksParsedInOrder
    OneParserPerFlow
    NoChunkSkipped
    EventsReachSinksInOrder
    CompletedRunAddsUp
    OffloadStopsLast
PROPERTIES
    StatsNeverGoBack
