\* Two workers, a single operation and a batch, throttling, failures, shutdown.
CONSTANTS
  w1 = w1
  w2 = w2
  Singles = {"single"}
  Batches = {"first", "second"}
  Plans = {"plan"}
  Kind <- MCKind
  SingleItem <- MCSingleItem
  Finds <- MCUp
  Workers <- MCWorkers
  None = None
  MaxAttempts = 2
  MaxChanges = 1
SPECIFICATION Spec
SYMMETRY Interchangeable
INVARIANTS
  Accounted
  ReportedLast
  MadeOnceInOrder
  CompleteIsDone
  ReportedFresh
  PlanUsedOnce
CHECK_DEADLOCK FALSE
