\* A restarted folder hands its total up a second time.
CONSTANTS
  w1 = w1
  w2 = w2
  Paths <- ChainPaths
  Subfolders <- ChainSubfolders
  DirectTotal <- MCTotal
  SortRank <- MCRank
  DirectDiffs = {}
  HasLocalRoot = TRUE
  Workers <- MCWorkers
  Pages <- MCPages
  None = None
  DepthCap = 1
  MaxPage = 1
  Mishaps = {"invalidate"}
  MaxMishaps = 1
SPECIFICATION Spec
INVARIANTS
  NeverOver
CHECK_DEADLOCK FALSE
