SPECIFICATION Spec
CONSTANTS
  SeqMod = 3
  WireLen = 6
  RingLen = 4
  Shapes = {{}, {2}}
  MaxFrames = 3
  FaultBudget = 1
INVARIANT OwnFramesInOrder
INVARIANT LossIsLocal
PROPERTY EveryFrameIsRead
CHECK_DEADLOCK FALSE
