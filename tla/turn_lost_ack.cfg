SPECIFICATION Spec
CONSTANTS
  SeqMod = 3
  TimeoutTicks = 1
  MaxRetries = 1
  QueueLen = 1
  MaxPush = 1
  MaxAborts = 0
  EarlyAborts = TRUE
  Hits = {"Ack"}
  FaultBudget = 1
  PatientTimeout = TRUE
INVARIANT SomeoneSpeaks
CHECK_DEADLOCK FALSE
