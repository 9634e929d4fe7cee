SPECIFICATION Spec
CONSTANTS
    t1 = t1
    t2 = t2
    u1 = u1
    Flows = {t1, t2, u1}
    UdpFlows = {u1}
    ShardCounts = {1, 2, 3}
    Modes = {"Dump", "Analyze"}
    RouteHash <- MCRouteHash
    SecondaryHash <- MCSecondaryHash
    StripeHash <- MCStripeHash
    RoundRobin = TRUE
    Elephants = TRUE
    MinPackets = 2
    MinBytes = 3
    MaxStripes = 2
    MaxOwners = 2
    MaxTrackedFlows = 2
    Sizes = {1, 3}
    MaxPackets = 5
INVARIANTS
    WellFormed
    TrackedFlowHasOneShard
    StripingIsConfined
    MetricsBalance
PROPERTY
    OwnerPinned
CHECK_DEADLOCK FALSE
