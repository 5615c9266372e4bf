SPECIFICATION Spec
CONSTANTS
    MaxSent <- ClientSends
    BufferSize = 3
    SendBuffer = 1
    IdleTimeout = 2
INVARIANT IdleMeansStill
