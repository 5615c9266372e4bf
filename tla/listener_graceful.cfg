SPECIFICATION Spec
CONSTANTS
    Clients = {c1, c2, c3}
    MaxConnections = 2
INVARIANT NoTaskAborted
