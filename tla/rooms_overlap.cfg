CONSTANTS
    anna = anna
    ben = ben
    cleo = cleo
    a1 = a1
    a2 = a2
    b1 = b1
    room1 = room1
    None = None
    Starter = Starter
    Users <- TwoUsers
    Rooms <- OneRoom
    Connections <- ThreeConnections
    Owner <- AnnaTwice
    Builds <- BothBuilds
    MaxRestarts = 1
    LateAnswers = TRUE
    EarlyInvites = TRUE
SPECIFICATION Spec
CONSTRAINTS
    BenCalls
    RestartsWithoutBen
VIEW WithoutView
PROPERTIES
    StaysUntilItLeaves
    SeatNotMarked
\* Connections are used up, and in production handlers can wait for each other.
CHECK_DEADLOCK FALSE
