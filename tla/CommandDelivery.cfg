SPECIFICATION FairSpec
CONSTANTS
  Entities = {1, 2}
  MaxAssembly = 2
  MaxTotal = 4
  MaxPending = 1
  CounterSpan = 1000
  SizeSpan = 1000
  Scenarios <- MCScenarios
  Commands = {1, 2, 3}
  Target <- OddFirst
  Frags <- OddSplit
  Configs = {10, 11, 12, 13, 14, 16}
  Kind <- Kinds
  ConfigRetries = 1
  Known = {1}
  MaxBoots = 1
INVARIANTS
  PayloadsNotMixed
  AppliedInOrder
  AckedWasApplied
  ConfigAnsweredOnce
PROPERTIES
  CommandTakesEffect
  ConfigIsAnswered
CHECK_DEADLOCK FALSE
