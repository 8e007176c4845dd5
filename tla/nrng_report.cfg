SPECIFICATION FairSpec
CONSTANTS
  a = a
  b = b
  c = c
  Anchor = {a, b, c}
  BcnSlotMax = 3
  MaskBits = 4
  NFrames = 6
  SeqMod = 2
  Selected = 2
  Tof <- Near2
  Reader = {ble}
  StartSlot <- InOrder
  MaxRounds = 3
  MaxMoves = 0
INVARIANT TypeOK
INVARIANT LastReported
PROPERTY NearestChosen
PROPERTY LocationReported
CHECK_DEADLOCK FALSE
