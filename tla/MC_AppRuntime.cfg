SPECIFICATION FairSpec
CONSTANTS
    SegmentFrames = 2
    MaxMovePx = 3
    MaxIntervalSec = 2
    Settings <- MC_Settings
    InitialSettings <- MC_Line
    LeftBehind = {"none", "partial", "ready"}
    WaitTargets = {"READY", "EXITING"}
    RollbackIsReliable = FALSE
INVARIANTS
    DeviceIsOurs
    SetupStartsClean
    GestureHasDevice
    StopEndsThisGesture
    NoOrphanedPreparation
    NoLostWakeup
    ExitTellsTheTruth
PROPERTIES
    OwnershipOutlivesResidue
    CleanupNotInterrupted
    GestureReturns
    WorkerProgresses
    ShutdownCompletes
    StopTakesEffect
    TimerFires
    ImplementsLifecycle
    ImplementsFairLifecycle
