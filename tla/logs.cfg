SPECIFICATION MCSpec
CONSTANTS
    Units = {"web"}
    Writers = {"oxlogd", "byhand"}
    Oxlogd = "oxlogd"
    Conns = {"c1", "c2", "c3"}
    MaxLine = 2
    MaxSize = 4
    Found = 2
    Ends = {2, 3, 6}
    Keep = 2
    ReadSize = 2
    PipeSize = 3
    QueueMax = 1
    MaxPieces = 6
    OddPieces = 2
    BesidePieces = 4
    MaxGens = 2
    MaxCrashes = 1
INVARIANTS LogTypeOK LossBounded CopyKept StartsInOrder FilesKept
PROPERTY Shipped
CHECK_DEADLOCK FALSE
