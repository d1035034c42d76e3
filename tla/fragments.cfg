SPECIFICATION Spec
CONSTANTS
  Radix = 3
  BufLen = 10
  Streams = {1}
  Ids = {0, 1}
  Lengths = {0, 2, 10, 11}
  Chunks = {0, 2}
  MaxSends = 2
INVARIANT Rebuilt
INVARIANT NeverMixed
CHECK_DEADLOCK FALSE
