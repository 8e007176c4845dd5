CONSTANTS
  a = a
  b = b
  Node <- TwoNodes
  Candidate <- TwoNodes
  Relay <- OneRelays
  MaxRpt = 1
  Threshold <- Patience
  Rounds = 1
  MaxFaults = 1
SPECIFICATION Spec
PROPERTY YieldsAtOnce
