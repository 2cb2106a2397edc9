CONSTANTS
    anna = anna
    ben = ben
    cleo = cleo
    a1 = a1
    a2 = a2
    b1 = b1
    room1 = room1
    None = None
    Starter = Starter
    Users <- TwoUsers
    Rooms <- OneRoom
    Connections <- ThreeConnections
    Owner <- AnnaTwice
    Builds <- TestBuild
    MaxRestarts = 1
    LateAnswers = FALSE
    EarlyInvites = FALSE
SPECIFICATION FairSpec
INVARIANTS
    TypeOK
    PendingHasCaller
    RoomsInhabited
    ViewIsCurrent
PROPERTIES
    LostResolved
\* Connections are used up, and then nothing is left to do.
CHECK_DEADLOCK FALSE
