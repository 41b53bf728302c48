CONSTANTS
  Sources = {s1}
  Gens <- MCTwoGens
  Positions <- MCPositions
  Fingerprints = {fpA}
  Null = Null
  Retention = 0
  StaleAfter = 0
  MaxTime = 1
  Sessions = {c1, c2}
  Ops <- FailureOps
SPECIFICATION TxnSpec
SYMMETRY Symmetry
PROPERTIES SupersededFailureKeepsStatus
CHECK_DEADLOCK FALSE
