SPECIFICATION Spec
CONSTANTS
  a = a
  b = b
  c = c
  d = d
  t = t
  Node = {a, b, c, t}
  Anchor = {a, b, c}
  NoAddr = NoAddr
  NSlots = 6
  BcnSlotMax = 3
  SvcSlot = 4
  MasterSlot = 1
  SlotReqtTimeout = 1
  AnchorTimeout = 1
  MaxUpsets = 0
  Near <- FullMesh
  Far <- NoPairs
INVARIANT ConsentMeansSlot
SYMMETRY Symmetry
