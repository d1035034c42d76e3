SPECIFICATION Spec
CONSTANTS
  SeqMod = 6
  WindowLen = 2
  TimeoutTicks = 1
  MaxRetries = 1
  MaxBytes = 7
  RestartBytes = 2
  MaxSessions = 1
  FaultBudget = 2
  TornLens = {2}
  Limits = {1}
  DrainedRestart = TRUE
  PatientTimeout = FALSE
INVARIANT TypeOK
INVARIANT InOrder
INVARIANT CloseIsComplete
INVARIANT AckedIsHeld
PROPERTY ImplementsByteStream
PROPERTY SlotResolves
CHECK_DEADLOCK FALSE
