CONSTANTS
    Background <- NoBackground
    MaxSends <- OneEach
    MaxReconnects = 1
SPECIFICATION FairSpec
INVARIANTS
    TypeOK
    NoLoss
    RepeatedOncePerReconnect
PROPERTIES
    KeepsPromiseInTheEnd
    EventuallyResolved
\* The senders stop at their bounds, and then nothing is left to do.
CHECK_DEADLOCK FALSE
