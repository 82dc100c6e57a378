SPECIFICATION Spec
INVARIANTS
    NeverStranded
    Exclusive
    Tracking
    OneProcess
    RestartPending
PROPERTIES
    StopOverridesPolicy
CHECK_DEADLOCK FALSE
CONSTANTS
    Units <- mcUnits
    Kind <- mcKind
    Policy <- mcPolicy
    Order <- mcOrder
    After <- mcNone
    Requires <- mcNone
    Conflicts <- mcConflicts
    Activates <- mcActivates
    Outcomes <- mcOutcomes
    HasCgroup = {"web", "old"}
    Watched = {}
    MayFail = {"old"}
    Forks = {"web"}
    Roams = {}
    Stuck = {}
    Requests = {"stop", "restart"}
    Actions = {"PowerOff"}
    MayOverrun = FALSE
    MaxMoves = 4
