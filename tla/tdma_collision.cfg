SPECIFICATION Spec
CONSTANTS
  a = a
  b = b
  c = c
  d = d
  t = t
  Node = {a, b, c, d}
  Anchor = {a, b, c, d}
  NoAddr = NoAddr
  NSlots = 7
  BcnSlotMax = 4
  SvcSlot = 5
  MasterSlot = 1
  SlotReqtTimeout = 1
  AnchorTimeout = 2
  MaxUpsets = 0
  Near <- FullMesh
  Far <- NoPairs
INVARIANT NoCollision
SYMMETRY Symmetry
