SPECIFICATION Spec
CONSTANTS
  SeqMod = 6
  WindowLen = 2
  TimeoutTicks = 1
  MaxRetries = 1
  MaxWindow = 2
  TableLen = 1
  Configs <- ConfigBytes
  Offers = {2, 3}
  MaxBytes = 1
  FaultBudget = 1
  PatientTimeout = TRUE
INVARIANT Agree
INVARIANT WindowFits
INVARIANT PayloadIsPayload
PROPERTY HellosCross
CHECK_DEADLOCK FALSE
