CONSTANTS
  MergeEvent <- MCMerge
  RegularEvent = {"r", "s"}
  EarlierEvent = {"genesis"}
  Decided <- MCDecided
  ParentHash <- MCParentHash
  TreeHash <- MCTreeHash
  CreatorOf <- MCCreatorOf
SPECIFICATION Spec
INVARIANT OperationsInOrder
CHECK_DEADLOCK FALSE
