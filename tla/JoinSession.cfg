SPECIFICATION FairSpec
CONSTANTS
  AllLeaves = {"l1", "l2"}
  Scenarios <- MCScenarios
  MaxRetries = 2
  QueueCap = 3
  MaxNonce = 20
  MaxTx = 60
INVARIANTS SyncCoversAll NoSyncNeeded SchemaWhole
 
CHECK_DEADLOCK FALSE
