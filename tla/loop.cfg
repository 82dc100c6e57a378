SPECIFICATION MCSpec
INVARIANTS
    MainTypeOK
    Covered
    OneAlarmPerStart
    NoUnwantedReset
    ShutdownBounded
    FirstNamed
PROPERTIES
    PromiseKept
    StarvedForGood
    NeverPunished
    NoSpin
CHECK_DEADLOCK FALSE
CONSTANTS
    Hour = 2
    Day = 4
    Timers <- mcTimers
    Schedule <- mcSchedule
    Jobs <- mcJobs
    JobDelay <- mcJobDelay
    MaxStarts = 1
    MaxSteps = 1
    WallStart = 42
    Horizon = 6
    MaxTimeout = 8
    UnknownInterval = 2
    EtcFiles <- mcEtcFiles
    VendorFiles <- mcVendorFiles
    CommandLines <- mcCommandLines
    Replies <- mcReplies
    LeftRunning <- mcLeftRunning
    Actions <- mcActions
    ShutdownLimit = 2
    Slack = 1
    MayHang = TRUE
