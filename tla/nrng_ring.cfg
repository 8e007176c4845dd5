SPECIFICATION Spec
CONSTANTS
  a = a
  b = b
  c = c
  Anchor = {a, b}
  BcnSlotMax = 4
  MaskBits = 5
  NFrames = 6
  SeqMod = 3
  Selected = 2
  Tof <- Fixed
  Reader = {}
  StartSlot <- TwoInOrder
  MaxRounds = 4
  MaxMoves = 1
INVARIANT RangesCurrent
INVARIANT FreshUntilWrap
CHECK_DEADLOCK FALSE
