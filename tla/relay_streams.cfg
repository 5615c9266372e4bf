SPECIFICATION Spec
CONSTANTS
    MaxSent <- BothSend
    BufferSize = 2
    SendBuffer = 2
    IdleTimeout = 2
INVARIANT StreamIntact
INVARIANT EofAfterLastByte
INVARIANT IdleMeansQuiet
PROPERTY EofIsForwarded
PROPERTY SilentTunnelEnds
PROPERTY ImplementsTunnel
