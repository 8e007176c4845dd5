SPECIFICATION Spec
CONSTANTS
  a = a
  b = b
  c = c
  d = d
  t = t
  Node = {a, b, c}
  Anchor = {a, b, c}
  NoAddr = NoAddr
  NSlots = 5
  BcnSlotMax = 3
  SvcSlot = 4
  MasterSlot = 1
  SlotReqtTimeout = 1
  AnchorTimeout = 1
  MaxUpsets = 1
  Near <- FullMesh
  Far <- NoPairs
INVARIANT TypeOK
INVARIANT NewcomersInformed
INVARIANT JoinedAnchorsAccepted
PROPERTY JoinsUnderGrant
SYMMETRY Symmetry
