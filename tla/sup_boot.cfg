SPECIFICATION Spec
INVARIANTS
    TypeOK
    NeverStranded
    WatchdogCovered
    GoingDown
CHECK_DEADLOCK FALSE
CONSTANTS
    Units <- mcUnits
    Kind <- mcKind
    Policy <- mcPolicy
    Order <- mcOrder
    After <- mcAfter
    Requires <- mcRequires
    Conflicts <- mcConflicts
    Activates <- mcActivates
    Outcomes <- mcOutcomes
    HasCgroup = {"db"}
    Watched = {"db"}
    MayFail = {"app"}
    Forks = {}
    Roams = {}
    Stuck = {}
    Requests = {"start"}
    Actions = {"PowerOff"}
    MayOverrun = FALSE
    MaxMoves = 3
