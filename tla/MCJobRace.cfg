SPECIFICATION Spec
CONSTANTS
    Classes <- PlainRespawner
    SetupFails = {"main"}
    ReapFirst = TRUE
INVARIANTS
    WaitsForSomething
    NobodyLeftWaiting
