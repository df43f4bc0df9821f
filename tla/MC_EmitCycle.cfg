SPECIFICATION Spec
CONSTANTS
    SegmentFrames = 30
    MaxMovePx = 2000
    Settings <- MC_Settings
INVARIANTS
    OnPath
    ReturnsHome
    StepFitsReport
