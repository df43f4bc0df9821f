SPECIFICATION Spec
CONSTANT
    Modes <- Interrupted
INVARIANT
    CleanupCompleteIsTrue
