SPECIFICATION Spec
INVARIANT OneProcess
CHECK_DEADLOCK FALSE
CONSTANTS
    Units <- mcUnits
    Kind <- mcKind
    Policy <- mcPolicy
    Order <- mcOrder
    After <- mcAfter
    Requires <- mcNone
    Conflicts <- mcNone
    Activates <- mcActivates
    Outcomes <- mcOutcomes
    HasCgroup = {"db", "web"}
    Watched = {}
    MayFail = {}
    Forks = {}
    Roams = {}
    Stuck = {}
    Requests = {}
    Actions = {}
    MayOverrun = FALSE
    MaxMoves = 3
