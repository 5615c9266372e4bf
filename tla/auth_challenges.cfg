SPECIFICATION Spec
CONSTANTS
    Responses <- ChallengeResponses
    Auths = {"Auto", "None"}
    MAX_AUTH_ROUNDS = 4
    ReadSize = 2
    LineReadSize = 2
    LineLimit = 3
    ChunkUnits = 2
    MaxHeaderBytes = 3
INVARIANT TypeOK
INVARIANT ChallengeAnsweredOnItsSocket
INVARIANT HandlesReleased
INVARIANT FinishedIsNeverStepped
 
PROPERTY TokensStayOnOneSocket
