CONSTANTS
  Requests = {r1, r2}
  AsyncUnits = {a1, a2}
  Closures = {c1, c2}
  Batches = {b1, b2, b3, b4}
  Concurrency = 2
  Capacity = 2
SPECIFICATION MCSpec
INVARIANTS CoordInv IngestInv PipeSafe
PROPERTIES MaintenanceIsTruthful KeepsContract TasksEnd
CHECK_DEADLOCK FALSE
