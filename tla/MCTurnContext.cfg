CONSTANTS
  Window = 100
  Output = 10
  MinReserve = 4
  RequestOverhead = 1
  MessageOverhead = 1
  NativeEnvelope = 2
  RegionTags = 4
  Markup = 2
  MaxMessage = 6
  Turns <- MCTurns
  Contexts <- MCContexts
  Reading <- MCReading
  Corpora <- MCCorpora
  ParentOf <- MCParentOf
  SizeOf <- MCSizeOf
  Limit = 3
  Threshold = 3
  PoolSize = 4
  RerankMin = 2
  MaxChanges = 1
  Stores = {s1, s2}
  Extractions = {x1, x2}
  MaxSummaries = 3
  MemoryLimit = 1
  BatchSize = 2
  Full = 1
  StaleAge = 2
  MaxRows = 8
  Cited = {"s1", "s2"}
  Passages <- MCPassages
  Quotes <- MCQuotes
  Deltas <- MCDeltas
  Polarity = {"no"}
  LastGen = 2
  MaxDeltas = 3
  NoGen = NoGen
  ChatTurns = {q1, q2}
  SessionTimeout = 2
  LogRetention = 1
  PageLimit = 2
  LastTick = 2
  MaxClears = 1
  Focuses = {"context", "citations", "summaries", "limit", "fading", "sessions", "reader", "upkeep", "evaluation"}
  Fixtures <- MCFixtures
  Found <- MCFound
  Written <- MCWritten
  Recorded <- MCRecorded
  Approved <- MCApproved
  TopK = 2
SPECIFICATION MCSpec
INVARIANTS ContextInv CitationsInv MemoryInv ConversationInv EvalInv
PROPERTIES CorrectionNeverLoses DecayIsMild
CHECK_DEADLOCK FALSE
