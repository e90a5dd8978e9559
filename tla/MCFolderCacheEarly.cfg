\* A parent is recorded complete before its second child is known.
CONSTANTS
  w1 = w1
  w2 = w2
  Paths <- ForkPaths
  Subfolders <- ForkSubfolders
  DirectTotal <- MCTotal
  SortRank <- MCRank
  DirectDiffs = {}
  HasLocalRoot = TRUE
  Workers <- MCWorkers
  Pages <- MCPages
  None = None
  DepthCap = 1
  MaxPage = 1
  Mishaps = {}
  MaxMishaps = 0
SPECIFICATION Spec
INVARIANTS
  CompleteIsExact
CHECK_DEADLOCK FALSE
