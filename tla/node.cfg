SPECIFICATION Spec
CONSTANTS
  SeqMod = 6
  WindowLen = 2
  TimeoutTicks = 1
  MaxRetries = 1
  MaxWindow = 2
  TableLen = 2
  Configs <- ConfigBytes
  Wires = {w1, w2}
  Neighbour <- NeighbourIds
  Offers = {1, 2}
  OwnId = 1
  OwnConfig = 1
  MaxOpens = 3
  MaxRestarts = 1
SYMMETRY WireSymmetry
INVARIANT OneSlotPerPeer
INVARIANT SlotMirrorsLink
CHECK_DEADLOCK FALSE
