CONSTANTS
  Peer = {p}
  MaxEvents = 3
  MaxMerges = 2
  MaxRegular = 2
  MaxConfigs = 1
  MaxPeerEvents = 2
  MaxCuts = 1
SPECIFICATION Spec
INVARIANTS TypeOK InductiveInvariant CacheMatchesStorage RegularsAreSiblings ParentsFit
PROPERTIES NeverForks StoredIsMerged
CHECK_DEADLOCK FALSE
