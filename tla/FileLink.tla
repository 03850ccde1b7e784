------------------------------ MODULE FileLink ------------------------------
(***************************************************************************)
(* The radio path between the bridge's OTA manager and one remote's file   *)
(* receiver, as the two ends see it.                                       *)
(*                                                                         *)
(*  - toRemote carries PKT_FILE_TRANSFER and PKT_FILE_DATA frames.  The    *)
(*    remote checks the session tag but not the frame counter              *)
(*    (remote_protocol.cpp, handle_file_transfer_ / handle_file_data_), so *)
(*    a frame the radio repeats is handled again.                          *)
(*  - toBridge carries PKT_ACK frames.  The bridge drops an ack whose      *)
(*    counter is not newer than the last one seen (bridge_protocol.cpp,    *)
(*    handle_ack_), so acks arrive in order and at most once.              *)
(*                                                                         *)
(* Each hop is FIFO.  A frame may be lost; on a FIFO path losing it when   *)
(* it reaches the head is the same as losing it earlier.  TxQueue and      *)
(* AckQueue are the buffers of the two radios: a send into a full buffer   *)
(* fails with ESP_ERR_ESPNOW_NO_MEM.  A failed send whose result the       *)
(* sender ignores is a lost frame.                                         *)
(***************************************************************************)
EXTENDS OtaGeometry, Sequences, FiniteSets

CONSTANTS
  Files,      \* firmware images: file id, size and MD5 taken together
  NoFile,
  Size,       \* Size[f]: bytes in image f
  ChunkSize,  \* negotiated payload bytes: min(announced, max_chunk_size_)
  BufferKb,   \* buffer_size_kb of the ACCEPT ack
  TxQueue,    \* frames the bridge's radio can hold
  AckQueue,   \* acks the remote's radio can hold
  MaxLoss,    \* bound: frames and acks the environment may lose
  Faults      \* environment faults that may happen, a subset of AllFaults

AllFaults == {"dup", "early", "silence", "session", "abort", "send", "reject", "flash", "crash"}

ASSUME LinkAssumption ==
  /\ NoFile \notin Files
  /\ Size \in [Files -> Nat \ {0}]
  /\ ChunkSize \in Nat \ {0}
  /\ BufferKb \in Nat \ {0}
  /\ TxQueue \in Nat \ {0}
  /\ AckQueue \in Nat \ {0}
  /\ MaxLoss \in Nat
  /\ Faults \subseteq AllFaults

\* The increments of every image can be counted in 16 bits.
ASSUME IncrementsFit ==
  \A f \in Files : IncrementCount(Size[f], ChunkSize, BufferKb) < U16

VARIABLES
  toRemote,   \* frames in flight to the remote, oldest first
  toBridge,   \* acks in flight to the bridge, oldest first
  txCounter,  \* session tx_counter, counted on the frames that acks refer to
  losses      \* frames lost so far, for the bound MaxLoss

linkVars == <<toRemote, toBridge, txCounter, losses>>

FileOrNone == Files \cup {NoFile}

Frame == [kind : {"ANNOUNCE", "DATA", "BLAST_COMPLETE", "END", "ABORT"},
          file : FileOrNone, num : Nat, tx : Nat]

Ack == [kind : {"ACCEPT", "REJECT", "GAPS", "COMPLETE", "ABORT"},
        ref : Nat, ok : BOOLEAN, got : SUBSET Nat]

Announce(f, tx)        == [kind |-> "ANNOUNCE", file |-> f, num |-> 0, tx |-> tx]
Data(f, seq)           == [kind |-> "DATA", file |-> f, num |-> seq, tx |-> 0]
BlastComplete(inc, tx) == [kind |-> "BLAST_COMPLETE", file |-> NoFile, num |-> inc, tx |-> tx]
End                    == [kind |-> "END", file |-> NoFile, num |-> 0, tx |-> 0]
Abort                  == [kind |-> "ABORT", file |-> NoFile, num |-> 0, tx |-> 0]

\* ok: all-clear (bitmap_len = 0) for GAPS, ESPNOW_FILE_COMPLETE_SUCCESS for
\* COMPLETE.  got: the bits set in a GAPS bitmap.  ref is read only in ACCEPT and GAPS.
AckOf(kind, ref, ok, got) == [kind |-> kind, ref |-> ref, ok |-> ok, got |-> got]

TxRoom(q)  == Len(q) < TxQueue
AckRoom(q) == Len(q) < AckQueue

Sent(q, frame)   == IF TxRoom(q) THEN Append(q, frame) ELSE q
Acked(q, ack)    == IF AckRoom(q) THEN Append(q, ack) ELSE q

Quiet == toRemote = << >> /\ toBridge = << >>

\* A retry timer runs out.  Without the fault "early" the timers are longer
\* than a round trip: they expire only when nothing is in flight.
TimerDue == "early" \in Faults \/ Quiet

LinkInit ==
  /\ toRemote = << >>
  /\ toBridge = << >>
  /\ txCounter = 0
  /\ losses = 0

LoseFrame ==
  /\ toRemote # << >>
  /\ losses < MaxLoss
  /\ toRemote' = Tail(toRemote)
  /\ losses' = losses + 1
  /\ UNCHANGED <<toBridge, txCounter>>

LoseAck ==
  /\ toBridge # << >>
  /\ losses < MaxLoss
  /\ toBridge' = Tail(toBridge)
  /\ losses' = losses + 1
  /\ UNCHANGED <<toRemote, txCounter>>

LinkTypeOK ==
  /\ toRemote \in Seq(Frame)
  /\ toBridge \in Seq(Ack)
  /\ txCounter \in Nat
  /\ losses \in Nat
=============================================================================
