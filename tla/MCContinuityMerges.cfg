CONSTANTS
  Node = {1, 2, 3, 4}
  Witness = {1, 2, 3, 4}
  MaxGeneration = 6
  Scripts <- StartingPoints
  MaxFree = 4
  MaxLag = 1
  MaxParents = 2
SPECIFICATION MCSpec
INVARIANTS TypeOK InductiveInvariant ProposalsNeedWitnesses SupportInAncestry ProposalHeld UnionOfStrongSupport
CHECK_DEADLOCK FALSE
