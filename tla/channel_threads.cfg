CONSTANTS
    Background <- ClientBackground
    MaxSends <- TwoFromClient
    MaxReconnects = 0
SPECIFICATION Spec
INVARIANTS
    AtMostOnce
    NoFalseAnswer
    ResolvedByPeer
PROPERTIES
    KeepsPromise
\* The senders stop at their bounds, and then nothing is left to do.
CHECK_DEADLOCK FALSE
