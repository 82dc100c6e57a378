SPECIFICATION Spec
INVARIANT ReportsTheCycle
CHECK_DEADLOCK FALSE
CONSTANTS
    Names <- mcNames
    Root = 2
    UnitSets <- mcUnitSets
