SPECIFICATION FairSpec
CONSTANTS
  Entities = {1, 2}
  MaxAssembly = 2
  MaxTotal = 4
  MaxPending = 2
  CounterSpan = 1000
  SizeSpan = 1000
  Scenarios <- MCScenarios
  StateFrags <- FirstSplit
  TextEntities = {2}
  StateRetries = 1
  MaxValue = 2
PROPERTIES
  MirrorSpec
  AckMeansDelivered
  MirrorCatchesUp
CHECK_DEADLOCK FALSE
