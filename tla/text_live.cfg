CONSTANTS
    Replicas <- OneGuest
    BaseLength = 0
    MaxInsertion = 1
    MaxEdits = 2
    MaxUndos = 1
    MaxBatch = 2
    MaxRepeats = 1
    MaxRequests = 1
    RequestKinds <- AllRequests
SPECIFICATION FairSpec
PROPERTIES
    Converges
    RequestsProceed
\* Replicas that have observed everything, and may edit no more, stay as they are.
CHECK_DEADLOCK FALSE
