SPECIFICATION FairSpec
PROPERTIES
    ShutdownEnds
    BootDrains
    StopEnds
    RestartHonoured
    ConnectionActivates
CHECK_DEADLOCK FALSE
CONSTANTS
    Units <- mcUnits
    Kind <- mcKind
    Policy <- mcPolicy
    Order <- mcOrder
    After <- mcAfter
    Requires <- mcNone
    Conflicts <- mcNone
    Activates <- mcActivates
    Outcomes <- mcOutcomes
    HasCgroup = {"db", "web"}
    Watched = {}
    MayFail = {}
    Forks = {}
    Roams = {"db"}
    Stuck = {"db"}
    Requests = {"restart"}
    Actions = {"PowerOff"}
    MayOverrun = TRUE
    MaxMoves = 2
