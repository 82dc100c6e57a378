SPECIFICATION Spec
CONSTANTS
    Dirs <- MCDirs
    UserScope = FALSE
    Names = {"a", "b", "c"}
    FirstDisk <- MCFirstDisk
    Files <- MCFiles
    Edits <- MCEdits
    Peers = {"p", "q", "r"}
    Requests <- MCRequests
    Early = {"q", "r"}
    MaxClients = 2
    MaxEdits = 1
    MaxTurns = 1
INVARIANTS
    Accounted
    StrandedOnlyByReload
PROPERTIES
    ReloadApplied
    Answered
CHECK_DEADLOCK FALSE
