SPECIFICATION Spec
CONSTANTS
    Letter <- MCLetter
    Getenv <- MCGetenv
    Class <- MCClass
    ClassEnv <- MCClassEnv
    Instance <- MCInstance
    HasPreStop = {"each"}
    Templates <- MCTemplates
    Given <- MCGiven
    Assignments <- MCAssignments
    Names <- MCNames
    Defaults <- MCDefaults
    MaxCalls = 3
INVARIANTS
    TablesSound
PROPERTIES
    TableKept
    InstancesFollow
CHECK_DEADLOCK FALSE
