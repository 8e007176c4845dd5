CONSTANTS
  a = a
  b = b
  Node <- TwoNodes
  Candidate <- TwoNodes
  Relay <- OneRelays
  MaxRpt = 1
  Threshold <- Patience
  Rounds = 1
  MaxFaults = 1
SPECIFICATION FairSpec
INVARIANT TypeOK
INVARIANT TakenWhileWaiting
INVARIANT CycleAlive
INVARIANT HandlerFollowsRole
PROPERTY OneWayToBlock
PROPERTY TakesOver
PROPERTY MasterYields
CHECK_DEADLOCK FALSE
