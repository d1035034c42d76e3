SPECIFICATION Spec
CONSTANTS
  SeqMod = 6
  WindowLen = 2
  TimeoutTicks = 1
  MaxRetries = 2
  PageLen = 3
  MaxPages = 3
  FaultBudget = 2
  PatientTimeout = TRUE
INVARIANT NoTalkOver
INVARIANT PagesMatch
PROPERTY PageIsAnswered
CHECK_DEADLOCK FALSE
