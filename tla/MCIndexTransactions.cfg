CONSTANTS
  Sources = {s1}
  Gens <- MCGens
  Positions <- MCPositions
  Fingerprints = {fpA}
  Null = Null
  Retention = 0
  StaleAfter = 0
  MaxTime = 1
  Sessions = {c1, c2}
  Ops <- EveryOp
SPECIFICATION TxnSpec
SYMMETRY Symmetry
CONSTRAINT Within
INVARIANTS TxnInv
PROPERTIES ImplementsAtomicCalls
CHECK_DEADLOCK FALSE
