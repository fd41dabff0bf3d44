SPECIFICATION FairSpec
CONSTANTS
    Classes <- MCClasses
    SetupFails = {"main", "pre_start", "post_start", "pre_stop", "post_stop", "security"}
    ReapFirst = FALSE
INVARIANTS
    EventInv
    KnownFaults
    WaitsForSomething
    KillsRightProcess
    NobodyLeftWaiting
PROPERTIES
    KeepsEventOrder
    ResultsMatch
    NoRespawnAfterQuiesce
    StopCompletes
    CallersAnswered
