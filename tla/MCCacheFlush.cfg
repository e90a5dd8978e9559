\* Safety of the write path: stale snapshots, invalidations, cleanup, restart.
CONSTANTS
  outside = outside
  inside = inside
  f1 = f1
  f2 = f2
  Paths <- MCPaths
  Flushers <- MCFlushers
  Tree <- MCTree
  Clearers <- MCClearers
  c1 = c1
  c2 = c2
  MaxVersion <- MCMaxVersion
  MaxEpoch <- MCMaxEpoch
  MaxRepair = 3
  MaxTime = 3
  MaxRestarts = 1
SPECIFICATION Spec
SYMMETRY Interchangeable
INVARIANTS
  TypeOK
  NoResurrection
  NoLostUpdate
PROPERTIES
  NeverBackwards
  ImplementsStore
CHECK_DEADLOCK FALSE
