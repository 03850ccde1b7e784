\* A remote without WiFi and one whose WiFi connects late or not at all.
SPECIFICATION FairSpec
CONSTANTS
  Channels = 5
  MaxPhase = 4
  MaxLoss = 2
  MaxMove = 2
  Wifis = {"none", "late"}
PROPERTIES
  RoundIsWhole
  
CHECK_DEADLOCK FALSE
