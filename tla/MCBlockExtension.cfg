CONSTANTS
  MaxHeight = 4
  MergeEvent <- MCMerge
  RegularEvent <- MCRegular
  Config <- MCConfig
  HeightOf <- MCHeightOf
  ParentsOf <- MCParentsOf
  SequenceOf <- MCSequenceOf
  OtherMethod = {"other"}
  MaxCrashes = 4
SPECIFICATION Spec
INVARIANTS TypeOK InductiveInvariant MarkedAsListed CacheFollows ConfigurationsInEffect HandsOver
PROPERTIES BlocksAreDecided DecidedIsWritten
CHECK_DEADLOCK FALSE
