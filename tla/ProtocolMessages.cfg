SPECIFICATION Spec
CONSTANTS
    f1 = f1
    f2 = f2
    f3 = f3
    Scenarios <- MCScenarios
    DnsSamples <- MCDnsSamples
    MaxHttp1States = 2
    MaxWebSocketStates = 1
    MaxTlsStates = 1
    MaxDnsStates = 1
    MaxHeaderBytes = 17
    MaxBufferBytes = 18
    MaxMessagesPerChunk = 2
    MaxStreams = 2
    MaxMessagesPerStream = 2
    MaxDatagrams = 3
    MaxJumps = 2
INVARIANTS
    MessagesAddUp
    CutIndependent
    DnsNamesEnd
CHECK_DEADLOCK FALSE
