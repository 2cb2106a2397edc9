CONSTANTS
    MaxReconnectAttempts = 3
    MaxMissedHeartbeats = 5
    LateExits = FALSE
    Shutdowns = TRUE
    ForcedAttempts <- SimulateTimeout
SPECIFICATION FairSpec
INVARIANTS
    TypeOK
    NoStaleWatch
    CountsAgree
    DisconnectedOnce
    GivesUpAfterMax
PROPERTIES
    OneReconnectAtATime
    FollowsConnectionLife
    OutageEnds
\* A client that is shut down, or has given up, stays where it is.
CHECK_DEADLOCK FALSE
