SPECIFICATION Spec
CONSTANTS
  SeqMod = 3
  TimeoutTicks = 1
  MaxRetries = 1
  Links = {1, 2}
  Capacity = 3
  MaxBytes = 2
  SinkLens = {1, 2}
  IdleLimit = 2
  FaultBudget = 1
INVARIANT EndToEnd
INVARIANT GivesUpOnlyIf
INVARIANT NoActorStarves
PROPERTY EveryCallReturns
CHECK_DEADLOCK FALSE
