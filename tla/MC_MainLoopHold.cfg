SPECIFICATION Spec
CONSTANTS
    Sources <- MC_Sources
    Tracked <- MC_Tracked
    ActionOf <- MC_ActionOf
    Lowest <- MC_Lowest
    Highest <- MC_Highest
    FastStep <- MC_FastStep
    FasterStep <- MC_FastStep
    MinShown <- MC_MinShown
    MaxBatch = 1
    Dedupe = 1
    RepeatDelay = 1
    RepeatRate = 1
    HeldLimit = 1
    Fast = 1
    Faster = 1
PROPERTY
    AdjustmentEndsWithHold
CHECK_DEADLOCK FALSE
