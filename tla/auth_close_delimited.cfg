SPECIFICATION Spec
CONSTANTS
    Responses <- CloseDelimitedResponses
    Auths = {"Ntlm"}
    MAX_AUTH_ROUNDS = 2
    ReadSize = 2
    LineReadSize = 2
    LineLimit = 3
    ChunkUnits = 2
    MaxHeaderBytes = 3
INVARIANT CloseDelimitedNotReused
