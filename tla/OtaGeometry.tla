---------------------------- MODULE OtaGeometry ----------------------------
(***************************************************************************)
(* How a file is cut into chunks and increments.  The bridge computes its  *)
(* geometry from the ACCEPT ack (bridge_ota_manager.cpp, handle_accept_),  *)
(* the receiver from the ANNOUNCE (remote_file_receiver.cpp,               *)
(* compute_increment_geometry_); neither sends the result to the other, so *)
(* the two computations have to agree.  Increment counters are uint16_t on *)
(* both sides and in BLAST_COMPLETE; sequences and sizes are uint32_t.     *)
(***************************************************************************)
EXTENDS Integers

CONSTANT MaxIncrementKb      \* ESPNOW_MAX_INCREMENT_KB

ASSUME MaxIncrementKbAssumption == MaxIncrementKb \in Nat \ {0}

U16 == 2^16

Least(a, b) == IF a < b THEN a ELSE b

\* Mutant: the remainder is dropped.
FloorDiv(a, b) == a \div b

CeilDiv(a, b) == (a \div b) + (IF a % b # 0 THEN 1 ELSE 0)

OneIfZero(n, default) == IF n = 0 THEN default ELSE n

(***************************************************************************)
(* A geometry is the record [chunk, cpi, chunks, incs, last]: payload      *)
(* bytes per chunk, chunks per increment, chunks in the file, increments   *)
(* in the file, chunks in the last increment.                              *)
(***************************************************************************)
ChunksPerIncrement(chunk, kb) ==
  OneIfZero(((Least(kb, MaxIncrementKb) * 1024) \div chunk) % U16, 1)

\* The increments of a file before they are stored in a uint16_t.
IncrementCount(size, chunk, kb) ==
  CeilDiv(CeilDiv(size, chunk), ChunksPerIncrement(chunk, kb))

ReceiverGeometry(size, chunk, kb) ==
  LET cpi    == ChunksPerIncrement(chunk, kb)
      chunks == CeilDiv(size, chunk)
      incs   == OneIfZero(CeilDiv(chunks, cpi) % U16, 1)
      last   == OneIfZero((chunks - (incs - 1) * cpi) % U16, cpi)
  IN  [chunk |-> chunk, cpi |-> cpi, chunks |-> chunks, incs |-> incs, last |-> last]

\* Mutant: the last increment is counted as a full one.
GeometryFullLast(size, chunk, kb) ==
  [ReceiverGeometry(size, chunk, kb) EXCEPT !.last = ChunksPerIncrement(chunk, kb)]

BridgeGeometry(size, chunk, kb) ==
  LET perInc    == ChunksPerIncrement(chunk, kb)
      total     == CeilDiv(size, chunk)
      totalIncs == OneIfZero(CeilDiv(total, perInc) % U16, 1)
  IN  [chunk  |-> chunk,
       cpi    |-> perInc,
       chunks |-> total,
       incs   |-> totalIncs,
       last   |-> OneIfZero((total - (totalIncs - 1) * perInc) % U16, perInc)]

ChunksIn(g, inc) == IF inc + 1 >= g.incs THEN g.last ELSE g.cpi

StartSeq(g, inc) == inc * g.cpi

\* Mutant: the last sequence instead of the one after it.
EndSeqInclusive(g, inc) == Least(StartSeq(g, inc) + ChunksIn(g, inc) - 1, g.chunks)

EndSeq(g, inc) == Least(StartSeq(g, inc) + ChunksIn(g, inc), g.chunks)

\* The sequences of one increment.
Window(g, inc) == StartSeq(g, inc) .. (EndSeq(g, inc) - 1)

\* Payload bytes of chunk seq; 0 beyond the end of the file.
ExpectedChunkLen(g, size, seq) ==
  IF seq >= g.chunks \/ seq * g.chunk >= size
  THEN 0
  ELSE Least(size - seq * g.chunk, g.chunk)
=============================================================================
