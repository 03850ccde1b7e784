--------------------------- MODULE MCOtaGeometry ---------------------------
(***************************************************************************)
(* Checks OtaGeometry against what it is for: walking a file increment by  *)
(* increment, as the bridge does, visits every chunk once and every byte   *)
(* once, and the receiver expects the same increments.                     *)
(***************************************************************************)
EXTENDS OtaGeometry, FiniteSetsExt

CONSTANTS Sizes, ChunkSizes, BufferKbs

VARIABLES
  size, chunk, kb,   \* the transfer
  inc,               \* increments visited
  covered,           \* chunks visited
  bytes              \* payload bytes visited

vars == <<size, chunk, kb, inc, covered, bytes>>

Geo == BridgeGeometry(size, chunk, kb)

Init ==
  /\ size \in Sizes /\ chunk \in ChunkSizes /\ kb \in BufferKbs
  /\ inc = 0 /\ covered = 0 /\ bytes = 0

Visit ==
  /\ inc < Geo.incs
  /\ inc' = inc + 1
  /\ covered' = covered + EndSeq(Geo, inc) - StartSeq(Geo, inc)
  /\ bytes' = bytes + MapThenSumSet(LAMBDA seq : ExpectedChunkLen(Geo, size, seq), Window(Geo, inc))
  /\ UNCHANGED <<size, chunk, kb>>

Spec == Init /\ [][Visit]_vars

\* Each increment starts at the chunk after the previous one's last, is not
\* empty and fits the receiver's buffer (increment_start_seq, increment_end_seq).
IncrementsAreConsecutive ==
  inc < Geo.incs =>
    /\ StartSeq(Geo, inc) = covered
    /\ Window(Geo, inc) # {}
    /\ ChunksIn(Geo, inc) <= Geo.cpi
    /\ Geo.cpi > 1 => Geo.cpi * chunk <= kb * 1024

\* The increments hold the whole file: no chunk and no byte is left out or
\* visited twice (total_increments, chunks_in_last_increment).
IncrementsCoverFile ==
  inc = Geo.incs => covered = Geo.chunks /\ bytes = size

\* handle_accept_ and compute_increment_geometry_ agree: the bitmap of a GAPS
\* ack means the same chunks on both sides.
GeometriesAgree ==
  ReceiverGeometry(size, chunk, kb) = Geo
=============================================================================
