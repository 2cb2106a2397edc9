CONSTANTS
    Replicas <- OneGuest
    BaseLength = 1
    MaxInsertion = 1
    MaxEdits = 1
    MaxUndos = 1
    MaxBatch = 1
    MaxRepeats = 0
    MaxRequests = 1
    RequestKinds <- Formatting
SPECIFICATION Spec
INVARIANTS
    SameVersionSameText
\* Replicas that have observed everything, and may edit no more, stay as they are.
CHECK_DEADLOCK FALSE
