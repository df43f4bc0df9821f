SPECIFICATION FairSpec
CONSTANTS
    Budget = 45
    HelperLimit = 37
    Grace = 7
    GestureTime = 4
    SlowTime = 124
    ErrorShown = 3
    Signals = {130, 143}
INVARIANTS
    FinishIsLast
    KilledOnlyWhenDelayed
    ZeroMeansNothingOwned
PROPERTIES
    EndDrawsNearer
    LauncherEnds
CHECK_DEADLOCK FALSE
