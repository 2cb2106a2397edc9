CONSTANTS
    MaxReconnectAttempts = 3
    MaxMissedHeartbeats = 5
    LateExits = TRUE
    Shutdowns = FALSE
    ForcedAttempts <- NoDebugActions
SPECIFICATION FairSpec
PROPERTIES
    ExitNoticed
\* A client that is shut down, or has given up, stays where it is.
CHECK_DEADLOCK FALSE
