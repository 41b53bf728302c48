CONSTANTS
  Sources = {s1}
  Gens <- MCGens
  Positions <- MCPositions
  Fingerprints = {fpA}
  Null = Null
  Retention = 0
  StaleAfter = 2
  MaxTime = 7
  Workers = {w1, w2}
  RequestTimeout = 1
  ProcessingTimeout = 1
  Punctual = TRUE
  MaxRestarts = 1
  LastAdmission = 3
SPECIFICATION MCSpec
PROPERTIES EveryBuildEnds
CHECK_DEADLOCK FALSE
