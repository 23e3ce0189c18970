CONSTANTS
  Node = {1, 2, 3, 4}
  Witness = {1, 2, 3, 4}
  MaxGeneration = 6
  Scripts <- PairwiseOnly
  MaxFree = 6
  MaxLag = 0
  MaxParents = 1
SPECIFICATION MCSpec
INVARIANTS Agreement
CHECK_DEADLOCK FALSE
