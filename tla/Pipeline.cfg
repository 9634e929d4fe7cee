SPECIFICATION Spec
CONSTANTS
    t1 = t1
    t2 = t2
    u1 = u1
    Flows = {t1, t2, u1}
    UdpFlows = {u1}
    Directions = {"AToB", "BToA"}
    Modulus = 16
    MaxSegments = 2
    MaxBytes = 4
    MaxFlows = 2
    FlowTimeout = 1
    SweepEvery = 3
    PortGuess <- MCPortGuess
    Passes <- MCPasses
    FromServer <- MCFromServer
    MaxStreams = 2
    StreamTimeout = 2
    PacketInterval = 2
    ByteInterval = 3
    SampleLimit = 3
    Looks <- MCLooks
    MaxContentStreams = 2
    ContentTimeout = 2
    MaxTotalBytes = 6
    MaxStreamBytes = 4
    MaxSegmentBytes = 3
    Patterns <- MCPatterns
    Letter <- Text
    RegexWindow = 0
    MaxMatches = 7
    MaxStreamMatches = 5
    MaxViewStreams = 2
    MaxViewMatches = 3
    MaxQueryLimit = 1
    Protocol <- MCProtocol
    Ports <- MCPorts
    MaxSliceBytes = 2
    MaxHighlights = 2
    Packets <- MCPackets
    MessagesIn <- MCMessagesIn
    Modes = {"Dump", "Analyze"}
    BatchSize = 2
    Starts = {0, 1, 3}
    Sizes = {2, 3}
    MaxPackets = 4
INVARIANTS
    TypeOK
    RowsShowTheStream
    ContentFollowsSender
    SlicesShowTheStream
    MatchesFoundAndShown
CHECK_DEADLOCK FALSE
