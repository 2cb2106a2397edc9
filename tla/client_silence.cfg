CONSTANTS
    MaxReconnectAttempts = 3
    MaxMissedHeartbeats = 5
    LateExits = FALSE
    Shutdowns = FALSE
    ForcedAttempts <- NoDebugActions
SPECIFICATION FairSpec
PROPERTIES
    SilenceNoticed
\* A client that is shut down, or has given up, stays where it is.
CHECK_DEADLOCK FALSE
