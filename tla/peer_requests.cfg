CONSTANTS
    client = client
    server = server
    ask1 = ask1
    ask2 = ask2
    note = note
    None = None
    Ends <- TwoEnds
    Other <- Opposite
    Requests <- TwoRequests
    Notices <- OneNotice
    From <- Senders
    Buffer = 2
SPECIFICATION FairSpec
INVARIANTS
    TypeOK
PROPERTIES
    InOrder
    ServesRequests
    EventuallyResolved
\* The connection ends, and then nothing is left to do.
CHECK_DEADLOCK FALSE
