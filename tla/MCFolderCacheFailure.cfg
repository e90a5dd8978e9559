\* One page over a chain of three folders, polled by its tab, one failure.
CONSTANTS
  w1 = w1
  w2 = w2
  Paths <- ChainPaths
  Subfolders <- ChainSubfolders
  DirectTotal <- MCTotal
  SortRank <- MCRank
  DirectDiffs <- ChainDiffs
  HasLocalRoot = TRUE
  Workers <- MCWorkers
  Pages <- MCPages
  None = None
  DepthCap = 1
  MaxPage = 1
  Mishaps = {"fail"}
  MaxMishaps = 1
SPECIFICATION FairSpec
INVARIANTS
  AddsUp
  OwnedHasWork
PROPERTIES
  PageSettles
CHECK_DEADLOCK FALSE
