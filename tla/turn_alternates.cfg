SPECIFICATION Spec
CONSTANTS
  SeqMod = 3
  TimeoutTicks = 1
  MaxRetries = 2
  QueueLen = 2
  MaxPush = 3
  MaxAborts = 1
  EarlyAborts = TRUE
  Hits = {"Data", "Start", "Finish"}
  FaultBudget = 2
  PatientTimeout = TRUE
INVARIANT NoTalkOver
INVARIANT SomeoneSpeaks
INVARIANT YieldedIsReceived
PROPERTY YieldsForOwnFinish
PROPERTY TurnIsPassed
CHECK_DEADLOCK FALSE
