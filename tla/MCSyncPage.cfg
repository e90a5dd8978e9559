\* The page waits for what it asked for, and the server's threads end it.
CONSTANTS
  w1 = w1
  w2 = w2
  Singles = {"single"}
  Batches = {"first"}
  Plans = {"plan"}
  Kind <- MCKind
  SingleItem <- MCSingleItem
  Finds <- MCFinds
  Workers <- MCWorkers
  None = None
  MaxAttempts = 2
  MaxChanges = 0
  MaxPosts = 2
SPECIFICATION PageFairSpec
INVARIANTS
  PageTypeOK
  RowsAreFresh
PROPERTIES
  AcceptedEnds
  BusyEnds
CHECK_DEADLOCK FALSE
