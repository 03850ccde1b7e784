--------------------------- MODULE MCOtaTransfer ---------------------------
(***************************************************************************)
(* Small instances of OtaTransfer.  With 512-byte chunks and a 1 KB buffer *)
(* an increment holds two chunks.                                          *)
(***************************************************************************)
EXTENDS OtaTransferInv, TLC

\* 1100 bytes: three chunks, two increments, the last one of a single chunk.
ThreeChunks == [f \in Files |-> 1100]

\* 500 bytes: one chunk.
OneChunk == [f \in Files |-> 500]
=============================================================================
