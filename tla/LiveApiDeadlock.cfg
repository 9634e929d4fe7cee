SPECIFICATION Spec
CONSTANTS
    p = p
    c1 = c1
    c2 = c2
    u1 = u1
    u2 = u2
    s1 = s1
    s2 = s2
    Pipeline = p
    Clients = {c1, c2}
    Users = {}
    Streams = {s1}
    Capacity = 2
    Limit = 1
    MaxBatches = 1
    MaxCalls = 1
    MaxEdits = 0
PROPERTIES
    PublishingReturns
CHECK_DEADLOCK FALSE
