SPECIFICATION Spec
INVARIANTS
    TypeOK
    OrderSound
    PlanIsWhatIsWanted
    RefusedOnlyIfCyclic
    WalkEnds
CHECK_DEADLOCK FALSE
CONSTANTS
    Names <- mcNames
    Root = 2
    UnitSets <- mcUnitSets
