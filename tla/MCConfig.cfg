SPECIFICATION Spec
CONSTANTS
  NSources = 2
  Versions = {"a", "b"}
  MaxClasses = 5
  MaxChanges = 2
  MaxInstances = 1
INVARIANTS
    ClassesSound
    UpToDate
PROPERTIES
    EventsTakenOver
CHECK_DEADLOCK FALSE
