SPECIFICATION Spec
INVARIANT RequiredFirst
CHECK_DEADLOCK FALSE
CONSTANTS
    Units <- mcUnits
    Kind <- mcKind
    Policy <- mcPolicy
    Order <- mcQueueOnly
    After <- mcAfter
    Requires <- mcRequires
    Conflicts <- mcConflicts
    Activates <- mcActivates
    Outcomes <- mcOutcomes
    HasCgroup = {"db"}
    Watched = {}
    MayFail = {}
    Forks = {}
    Roams = {}
    Stuck = {}
    Requests = {}
    Actions = {}
    MayOverrun = FALSE
    MaxMoves = 3
