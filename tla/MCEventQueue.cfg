SPECIFICATION FairSpec
CONSTANTS
    NoEvent = 0
    ArgumentOf <- MCArgumentOf
    ClassOrder <- MCOrder
    ClassOf <- MCClassOf
    FailedName <- MCFailedName
    Stimuli <- MCStimuli
    Commanded = {"srv"}
    MaxStimuli = 2
INVARIANTS
    Consistent
PROPERTIES
    Settles
    FailureAnnounced
CHECK_DEADLOCK FALSE
