CONSTANTS
  Peer = {p}
  MaxEvents = 4
  MaxMerges = 2
  MaxRegular = 1
  MaxConfigs = 1
  MaxPeerEvents = 0
  MaxCuts = 0
SPECIFICATION Spec
INVARIANT SiblingsOfMerge
CHECK_DEADLOCK FALSE
