CONSTANTS
  Sources = {s1, s2}
  Gens <- MCGens
  Positions <- MCPositions
  Fingerprints = {fpA, fpB}
  Texts = {x, y}
  BatchSize = 2
  Missing = Missing
  Null = Null
  Retention = 0
  StaleAfter = 0
  MaxTime = 2
  Requests = {a1, a2}
  Default = Default
  Focuses = {"tables", "vectors", "rows"}
SPECIFICATION MCSpec
SYMMETRY Symmetry
CONSTRAINT Within
INVARIANTS IndexInv TablesAgree VectorsInv OwnedInv
PROPERTIES HistoryIsKept
CHECK_DEADLOCK FALSE
