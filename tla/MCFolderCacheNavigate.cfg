\* Two page epochs over two folders, with one invalidation or priming.  All
\* jobs have one depth: with two folders, path and depth give the same order.
CONSTANTS
  w1 = w1
  w2 = w2
  Paths <- PairPaths
  Subfolders <- PairSubfolders
  DirectTotal <- MCTotal
  SortRank <- MCRank
  DirectDiffs = {}
  HasLocalRoot = FALSE
  Workers <- MCWorkers
  Pages <- MCPages
  None = None
  DepthCap = 0
  MaxPage = 2
  Mishaps = {"invalidate", "prime"}
  MaxMishaps = 1
SPECIFICATION Spec
SYMMETRY Interchangeable
INVARIANTS
  TypeOK
  SingleFlight
  PendingLinked
  
CHECK_DEADLOCK FALSE
