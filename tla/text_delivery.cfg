CONSTANTS
    Replicas <- TwoGuests
    BaseLength = 0
    MaxInsertion = 1
    MaxEdits = 3
    MaxUndos = 0
    MaxBatch = 1
    MaxRepeats = 1
    MaxRequests = 0
    RequestKinds <- NoRequests
SPECIFICATION Spec
INVARIANTS
    OneOrder
    NoOperationLost
    NothingReadyIsDeferred
PROPERTIES
    DeliversCausally
\* Replicas that have observed everything, and may edit no more, stay as they are.
CHECK_DEADLOCK FALSE
