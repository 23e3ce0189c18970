CONSTANTS
  Node = {1, 2, 3, 4, 5}
  Witness = {1, 2, 3, 4}
  MaxGeneration = 6
  Scripts <- Histories
SPECIFICATION MCSpec
INVARIANTS RunTypeOK ViewIndependence FindsConsensusInView HelpfulIsPriority
PROPERTY RunTerminates
CHECK_DEADLOCK FALSE
