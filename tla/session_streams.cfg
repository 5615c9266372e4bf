SPECIFICATION Spec
CONSTANTS
    Requests <- AllRequests
    RoutingModes <- BothModes
    Answers <- AllAnswers
    DirectAddresses <- Direct
    MaxHeaderBytes = 8
    ReadSize = 3
    RemoteSends = 2
    IdleTimeout = 1
INVARIANT StreamsIntact
INVARIANT TunnelCarriesOnlyData
INVARIANT PrefetchBelowRead
INVARIANT ReplyMatchesRequest
INVARIANT DirectOnlyToDirect
PROPERTY RouteIsFinal
PROPERTY ImplementsOutline
PROPERTY PatientClientAnswered
PROPERTY RequestedSessionEnds
