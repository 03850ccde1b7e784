SPECIFICATION FairSpec
CONSTANTS
  Nodes = {"A", "B", "C"}
  Relays = {"A", "B"}
  Bridge = "br"
  NoNode = "none"
  Zero = "zero"
  MaxHops = 4
  MaxRetries = 1
  PendingCap = 1
  QueueCap = 1
  Scenarios <- MCScenarios
INVARIANTS
  DownBounded
  

  
CHECK_DEADLOCK FALSE
