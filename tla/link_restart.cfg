SPECIFICATION Spec
CONSTANTS
  SeqMod = 3
  TimeoutTicks = 2
  MaxRetries = 1
  MaxBytes = 4
  MaxSessions = 2
  MaxAborts = 1
  FaultBudget = 2
  DrainedRestart = TRUE
  PatientTimeout = FALSE
INVARIANT TypeOK
INVARIANT InOrder
INVARIANT CloseIsComplete
INVARIANT AckedLead
INVARIANT IInv
PROPERTY ClosedIsQuiet
PROPERTY ImplementsByteStream
PROPERTY FlightResolves
CHECK_DEADLOCK FALSE
