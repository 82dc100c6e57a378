SPECIFICATION AskedSpec
INVARIANT OneProcess
CHECK_DEADLOCK FALSE
CONSTANTS
    Units <- mcUnits
    Kind <- mcKind
    Policy <- mcPolicy
    Order <- mcOrder
    After <- mcNone
    Requires <- mcNone
    Conflicts <- mcNone
    Activates <- mcActivates
    Outcomes <- mcOutcomes
    HasCgroup = {"svc"}
    Watched = {}
    MayFail = {}
    Forks = {}
    Roams = {}
    Stuck = {}
    Requests = {"start"}
    Actions = {}
    MayOverrun = FALSE
    MaxMoves = 3
