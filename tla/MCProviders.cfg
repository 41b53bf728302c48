CONSTANTS
  Callers = {k1, k2}
  FailureThreshold = 2
  SuccessThreshold = 2
  OpenFor = 1
  Window = 1
  MaxStall = 1
  MaxRetries = 1
  Askers = {q1, q2}
  MaxRpm = 1
  MaxTpm = 1
  Minute = 2
  MaxWait = 2
  Estimates = {1, 2}
  Usages = {1}
  MaxLag = 1
  Lookups = {l1, l2}
  Questions = {x}
  Providers <- MCProviderOrder
  Catalog <- MCCatalog
  FallbackModel <- MCFallbackModel
  Native = {"anthropic"}
  Scripts <- MCScripts
  Documents = {0, 2}
  MaxResponse = 3
SPECIFICATION MCSpec
INVARIANTS BreakerInv LimiterInv QueryInv WireInv PricedModelIsSent
PROPERTIES CallersGetThrough
CHECK_DEADLOCK FALSE
