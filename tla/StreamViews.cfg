SPECIFICATION Spec
CONSTANTS
    f1 = f1
    f2 = f2
    f3 = f3
    f4 = f4
    MaxViewStreams = 3
    MaxViewMatches = 1
    MaxQueryLimit = 2
    Protocol <- MCProtocol
    Ports <- MCPorts
    Batches <- MCBatches
    Patches <- MCPatches
    ProfileFiles <- MCProfileFiles
    Rules <- MCRules
    Queries <- MCQueries
    MaxSteps = 4
INVARIANTS
    TypeOK
    PagingIsFair
    ProfilesCountTheirRows
