CONSTANTS
    Background <- NoBackground
    MaxSends <- TwoFromClientOnly
    MaxReconnects = 2
SPECIFICATION Spec
INVARIANTS
    NoLoss
\* The senders stop at their bounds, and then nothing is left to do.
CHECK_DEADLOCK FALSE
