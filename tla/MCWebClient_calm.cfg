SPECIFICATION Spec
CONSTANTS
    s1 = s1
    s2 = s2
    NoSocket = NoSocket
    Socket <- TwoSockets
    MaxCmd = 5
    Patient = TRUE
INVARIANTS
    TypeOK
    RightCallback
    Watched
    LoggedInIsCurrent
    ListsAreOfTheSession
PROPERTIES
    AttemptEnds
    DismissedCloses
CHECK_DEADLOCK FALSE
