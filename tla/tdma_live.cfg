SPECIFICATION FairSpec
CONSTANTS
  a = a
  b = b
  c = c
  d = d
  t = t
  Node = {a, b, t}
  Anchor = {a, b}
  NoAddr = NoAddr
  NSlots = 5
  BcnSlotMax = 2
  SvcSlot = 3
  MasterSlot = 1
  SlotReqtTimeout = 1
  AnchorTimeout = 2
  MaxUpsets = 0
  Near <- FullMesh
  Far <- NoPairs
INVARIANT SlotRegion
PROPERTY EveryoneJoins
PROPERTY ClaimsSpec
