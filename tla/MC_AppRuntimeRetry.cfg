SPECIFICATION Spec
CONSTANTS
    SegmentFrames = 1
    MaxMovePx = 3
    MaxIntervalSec = 1
    Settings <- MC_OneSettings
    InitialSettings <- MC_Line
    LeftBehind = {"none"}
    WaitTargets = {}
    RollbackIsReliable = TRUE
INVARIANT
    RetryCanClean
