SPECIFICATION Spec
CONSTANTS
    NoEvent = NoEvent
    ArgumentOf <- MCArgumentOf
    Words <- MCWords
    Unquoted <- MCUnquoted
    MaxWords = 9
    MaxLeaves = 3
    Event <- MCEvent
    JobEnv <- MCJobEnv
INVARIANTS
    ReadsConditions
    HoldsEvents
    ValueFollowsEvents
    MatchesDocumented
CHECK_DEADLOCK FALSE
