CONSTANTS
  Sources = {s1}
  Gens <- MCGens
  Positions = {0}
  Fingerprints = {fpA}
  Texts = {x}
  BatchSize = 2
  Missing = Missing
  Null = Null
  Retention = 1
  StaleAfter = 1
  MaxTime = 2
  Requests = {a1}
  Default = Default
  Focuses = {"tables"}
SPECIFICATION MCSpec
PROPERTIES ReplacedStaysForRetention
CHECK_DEADLOCK FALSE
