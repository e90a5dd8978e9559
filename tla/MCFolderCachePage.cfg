\* One page over a tree of four folders, polled by its tab, nothing fails.
CONSTANTS
  w1 = w1
  w2 = w2
  Paths <- TreePaths
  Subfolders <- TreeSubfolders
  DirectTotal <- MCTotal
  SortRank <- MCRank
  DirectDiffs <- TreeDiffs
  HasLocalRoot = TRUE
  Workers <- MCWorkers
  Pages <- MCPages
  None = None
  DepthCap = 1
  MaxPage = 1
  Mishaps = {}
  MaxMishaps = 0
SPECIFICATION FairSpec
INVARIANTS
  RestIsExact
PROPERTIES
  PageSettles
CHECK_DEADLOCK FALSE
