SPECIFICATION Spec
CONSTANTS
  Files = {a, b}
  NoFile = NoFile
  Size <- OneChunk
  ChunkSize = 512
  BufferKb = 1
  MaxIncrementKb = 8
  TxQueue = 2
  AckQueue = 2
  MaxLoss = 0
  Faults = {"early"}
  FileMaxRetries = 2
  MaxBlastCompleteRetries = 2
  MaxRetransmitRounds = 1
  TxHistory = 2
  MaxTransfers = 2
  ReceiverRounds = 1
  CompleteAcks = 2
PROPERTIES
  SuccessMeansVerified
CHECK_DEADLOCK FALSE
