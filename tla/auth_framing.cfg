SPECIFICATION Spec
CONSTANTS
    Responses <- FramingResponses
    Auths = {"Ntlm"}
    MAX_AUTH_ROUNDS = 2
    ReadSize = 2
    LineReadSize = 4
    LineLimit = 5
    ChunkUnits = 2
    MaxHeaderBytes = 3
INVARIANT NothingUnreadAtSend
INVARIANT PrefetchIsTunnelData
INVARIANT PrefetchBelowRead
INVARIANT HeaderLimitExact
INVARIANT BufferBounded
PROPERTY ExchangeEnds
