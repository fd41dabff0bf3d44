SPECIFICATION Spec
CONSTANTS
    Class <- MCClass
    StartOn <- MCStartOn
    KillTimeout <- MCKillTimeout
    Respawns = {"daemon", "saver"}
    Abstract = {"target"}
    PostStart = {"target"}
    PreStop = {"daemon"}
    Held = {"daemon"}
    Runtime = 2
    DefaultTimeout = 1
    MaxRequests = 3
    LastRequest = 3
    MaxTime = 10
INVARIANTS
    EndsWell
PROPERTIES
    SessionEnds
