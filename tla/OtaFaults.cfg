SPECIFICATION Spec
CONSTANTS
  Files = {a}
  NoFile = NoFile
  Size <- ThreeChunks
  ChunkSize = 512
  BufferKb = 1
  MaxIncrementKb = 8
  TxQueue = 2
  AckQueue = 2
  MaxLoss = 2
  Faults = {"dup", "early", "silence", "session", "abort", "send", "reject", "flash", "crash"}
  FileMaxRetries = 2
  MaxBlastCompleteRetries = 2
  MaxRetransmitRounds = 1
  TxHistory = 2
  MaxTransfers = 1
  ReceiverRounds = 1
  CompleteAcks = 2
INVARIANTS
  ChunkAccounting
  NoFalseAdvance
  FlashIsPrefix
PROPERTIES
  SuccessMeansVerified
  RestartBootsVerified
CHECK_DEADLOCK FALSE
