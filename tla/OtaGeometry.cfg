SPECIFICATION Spec
CONSTANTS
  MaxIncrementKb = 8
  Sizes = {1, 299, 300, 301, 1023, 1024, 1025, 2048, 3000, 8192, 9000, 20000}
  ChunkSizes = {217, 300, 512, 1024, 1437}
  BufferKbs = {1, 2, 8, 9}
INVARIANTS
  IncrementsAreConsecutive
  IncrementsCoverFile
  GeometriesAgree
CHECK_DEADLOCK FALSE
