CONSTANTS
  NSlots = 4
  Wrap = 78
  SlotTicks = 4
  Latency = 1
  MaxDelay = 1
  IrqDelay = 1
  MaxBusy = 2
SPECIFICATION Spec
INVARIANT TypeOK
INVARIANT RunOnce
PROPERTY ScheduleSpec
