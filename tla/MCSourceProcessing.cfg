CONSTANTS
  Sources = {s1}
  Gens <- MCGens
  Positions <- MCPositions
  Fingerprints = {fpA}
  Null = Null
  Retention = 0
  StaleAfter = 2
  MaxTime = 4
  Workers = {w1, w2}
  RequestTimeout = 1
  ProcessingTimeout = 1
  Punctual = TRUE
  MaxRestarts = 1
  LastAdmission = 4
  Uploads = {u1, u2}
  Documents <- MCDocuments
  OcrModels = {m1, m2}
  MaxPages = 1
  PageLength = 1
  MaxAttempts = 2
SPECIFICATION MCSpec
SYMMETRY WorkerSymmetry
INVARIANTS ProcTypeOK TimedBuildKeepsOwnership StatusTellsTruth ActiveIndexComplete CitationsOpenTheirPage PdfInv
CHECK_DEADLOCK FALSE
