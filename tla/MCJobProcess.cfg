SPECIFICATION FairSpec
CONSTANTS
    Situations <- MCSituations
    MaxFd = 20
    MaxRetries = 2
    MaxProc = 4
INVARIANTS
    SetUpSound
    FollowsForks
PROPERTY NobodyStuck
CHECK_DEADLOCK FALSE
