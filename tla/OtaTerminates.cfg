SPECIFICATION MCSpec
CONSTANTS
  Files = {a}
  NoFile = NoFile
  Size <- ThreeChunks
  ChunkSize = 512
  BufferKb = 1
  MaxIncrementKb = 8
  TxQueue = 2
  AckQueue = 3
  MaxLoss = 1
  Faults = {"early", "silence", "abort", "send", "reject", "flash"}
  FileMaxRetries = 2
  MaxBlastCompleteRetries = 2
  MaxRetransmitRounds = 1
  TxHistory = 2
  MaxTransfers = 1
  ReceiverRounds = 1
  CompleteAcks = 3
INVARIANTS
  IndInv
PROPERTIES
  BridgeTerminates
  ReceiverReleases
  OneLossRecovered
CHECK_DEADLOCK FALSE
