CONSTANTS
  Peer = {"a", "w"}
  Priority = {"w"}
  MergeEvent <- MCMerge
  RegularEvent <- MCRegular
  Genesis = "genesis"
  CreatorOf <- MCCreatorOf
  TreeOf <- MCTreeOf
  ParentsOf <- MCParentsOf
  BasisOf <- MCBasisOf
  DecidedBy <- MCDecidedBy
  MaxDepth = 1
  Permits = 2
  NoPeer = "none"
  MaxFaults = 1
SPECIFICATION Spec
INVARIANTS TypeOK KnownIsClosed NoneUnrelated WithinHeight KnownIsValid StillAnnounced
PROPERTIES CatchesUp NotifiedIsPulled
CHECK_DEADLOCK FALSE
