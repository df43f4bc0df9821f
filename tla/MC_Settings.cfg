SPECIFICATION Spec
CONSTANTS
    Lowest <- MC_Lowest
    Highest <- MC_Highest
    Default <- MC_Default
    Choices <- MC_Choices
    Edits <- MC_Edits
    Pids = {1, 2}
INVARIANTS
    TypeOK
    StoredIsPlayed
PROPERTY
    ImplementsRegister
