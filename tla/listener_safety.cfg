SPECIFICATION Spec
CONSTANTS
    Clients = {c1, c2, c3}
    MaxConnections = 2
INVARIANT TypeOK
INVARIANT PermitsConserved
INVARIANT AtMostOneLateAccept
PROPERTY ShutdownEndsLoop
PROPERTY BacklogIsServed
