\* A batch is confirmed after the trees have changed.
CONSTANTS
  w1 = w1
  w2 = w2
  Singles = {}
  Batches = {"first"}
  Plans = {"plan"}
  Kind <- MCKind
  SingleItem <- MCSingleItem
  Finds <- MCUp
  Workers <- MCWorkers
  None = None
  MaxAttempts = 2
  MaxChanges = 1
SPECIFICATION Spec
PROPERTIES
  PlanIsCurrent
CHECK_DEADLOCK FALSE
