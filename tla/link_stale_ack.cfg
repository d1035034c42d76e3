SPECIFICATION Spec
CONSTANTS
  SeqMod = 3
  TimeoutTicks = 1
  MaxRetries = 1
  MaxBytes = 2
  MaxSessions = 1
  MaxAborts = 0
  FaultBudget = 2
  DrainedRestart = FALSE
  PatientTimeout = FALSE
INVARIANT DoneMeansDelivered
CHECK_DEADLOCK FALSE
