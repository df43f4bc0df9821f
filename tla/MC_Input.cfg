SPECIFICATION Spec
CONSTANTS
    Sources <- MC_Sources
    Tracked <- MC_Tracked
    Controls <- MC_Controls
    ActionOf <- MC_ActionOf
    Feeds <- MC_Feeds
    Axes <- MC_Axes
    MaxQueue = 2
    Dedupe = 2
    RepeatDelay = 2
    RepeatRate = 1
    HeldLimit = 0
    Skew = 1
INVARIANTS
    HeldIsPressed
    SolePressFiresOnce
