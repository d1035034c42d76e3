SPECIFICATION Spec
CONSTANTS
  SeqMod = 3
  TimeoutTicks = 1
  MaxRetries = 1
  Blocking = {1}
  Talking = {2}
  MaxBytes = 1
  MaxSessions = 1
  MaxAborts = 1
  FaultBudget = 1
  PatientTimeout = TRUE
INVARIANT SwallowedIsReported
INVARIANT EndTold
PROPERTY SendAllDrains
CHECK_DEADLOCK FALSE
