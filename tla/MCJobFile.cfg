SPECIFICATION Spec
CONSTANTS
  Stanzas <- MCStanzas
  Resources <- MCResources
  Signals <- MCSignals
  InitEnv = {"B"}
  MaxConf = 2
  MaxOverride = 1
INVARIANTS
    ClassSound
    ReadsAsWritten
    SurvivesReexec
CHECK_DEADLOCK FALSE
