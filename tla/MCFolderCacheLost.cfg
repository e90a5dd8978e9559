\* An invalidation between the commit and the finally block.
CONSTANTS
  w1 = w1
  w2 = w2
  Paths <- PairPaths
  Subfolders <- PairSubfolders
  DirectTotal <- MCTotal
  SortRank <- MCRank
  DirectDiffs <- PairDiffs
  HasLocalRoot = TRUE
  Workers <- MCWorkers
  Pages <- MCPages
  None = None
  DepthCap = 1
  MaxPage = 1
  Mishaps = {"invalidate"}
  MaxMishaps = 1
SPECIFICATION Spec
INVARIANTS
  OwnedHasWork
CHECK_DEADLOCK FALSE
