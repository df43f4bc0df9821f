SPECIFICATION Spec
CONSTANT
    Modes <- AllModes
INVARIANTS
    OwnedIsRecorded
    RollbackRestores
    CleanupRemovesRecorded
PROPERTIES
    SetupTouchesOnlyItsOwn
    ScriptsAsRuntimeAssumes
