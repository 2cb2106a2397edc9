CONSTANTS
    anna = anna
    ben = ben
    cleo = cleo
    a1 = a1
    a2 = a2
    b1 = b1
    room1 = room1
    None = None
    Starter = Starter
    Users <- TwoUsers
    Rooms <- OneRoom
    Connections <- ThreeConnections
    Owner <- AnnaTwice
    Builds <- ProductionBuild
    MaxRestarts = 0
    LateAnswers = FALSE
    EarlyInvites = FALSE
SPECIFICATION Spec
INVARIANTS
    UpdatesSerialized
\* Connections are used up, and in production handlers can wait for each other.
CHECK_DEADLOCK FALSE
