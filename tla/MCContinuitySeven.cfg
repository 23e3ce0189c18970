CONSTANTS
  Node = {1, 2, 3, 4, 5, 6, 7}
  Witness = {1, 2, 3, 4, 5, 6, 7}
  MaxGeneration = 3
  Scripts <- FourAndThreeOnly
  MaxFree = 1
  MaxLag = 0
  MaxParents = 6
SPECIFICATION MCSpec
INVARIANTS UnionOfStrongSupport
CHECK_DEADLOCK FALSE
