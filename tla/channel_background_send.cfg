CONSTANTS
    Background <- ClientBackground
    MaxSends <- TwoFromClientOnly
    MaxReconnects = 1
SPECIFICATION Spec
INVARIANTS
    NoLoss
\* The senders stop at their bounds, and then nothing is left to do.
CHECK_DEADLOCK FALSE
