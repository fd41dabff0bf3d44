SPECIFICATION RSpec
CONSTANTS
    NoEvent = 0
    ArgumentOf <- MCArgumentOf
    ClassOrder <- MCReexecOrder
    ClassOf <- MCReexecClassOf
    FailedName <- MCFailedName
    Stimuli <- MCStimuli
    Commanded = {"srv"}
    MaxStimuli = 2
    LogLevel <- MCLogLevel
    MaxReexec = 2
INVARIANTS
    Restored
PROPERTIES
    NothingLost
CHECK_DEADLOCK FALSE
