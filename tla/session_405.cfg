SPECIFICATION Spec
CONSTANTS
    Requests <- WithBody
    RoutingModes <- ProxyOnly
    Answers <- MixedAnswer
    DirectAddresses <- Direct
    MaxHeaderBytes = 8
    ReadSize = 3
    RemoteSends = 0
    IdleTimeout = 0
PROPERTY OrdinaryRequestReceives405
