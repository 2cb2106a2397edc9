CONSTANTS
    Replicas <- OneGuest
    BaseLength = 1
    MaxInsertion = 1
    MaxEdits = 2
    MaxUndos = 2
    MaxBatch = 1
    MaxRepeats = 0
    MaxRequests = 1
    RequestKinds <- Renames
SPECIFICATION Spec
INVARIANTS
    TypeOK
    SameVersionSameText
    VisibleIsCurrent
    WaitersWait
    UndoHistoryIsCurrent
    OneHistoryPerEdit
\* Replicas that have observed everything, and may edit no more, stay as they are.
CHECK_DEADLOCK FALSE
