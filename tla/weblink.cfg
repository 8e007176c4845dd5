CONSTANTS
  MaxUpdates = 3
  MaxFaults = 4
  MaxFlight = 2
SPECIFICATION FairSpec
CHECK_DEADLOCK FALSE
INVARIANT TypeOK
INVARIANT SubscribedOnce
INVARIANT RoleAfterLocation
PROPERTY DeadLinkNoticed
PROPERTY AttemptEnds
PROPERTY GivesUpLast
