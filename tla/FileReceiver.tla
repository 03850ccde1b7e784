---------------------------- MODULE FileReceiver ----------------------------
(***************************************************************************)
(* FileReceiver with its OTAFlashHandler (remote_file_receiver.cpp): the   *)
(* remote's end of a file transfer.  A frame is handled to completion in   *)
(* the main loop, flash writes included, so each handler is one action.    *)
(*                                                                         *)
(* ANNOUNCED lasts only until the ACCEPT ack is handed to the radio;       *)
(* CHECKING and COMPLETE are never assigned.  VERIFYING lasts while the    *)
(* COMPLETE acks are repeated (in_complete_phase_).  increment_written_ is *)
(* TRUE only in WAITING_END and VERIFYING, where nothing reads it.         *)
(***************************************************************************)
EXTENDS FileLink

CONSTANTS
  ReceiverRounds,   \* ESPNOW_MAX_RETRANSMIT_ROUNDS, as the receiver counts them
  CompleteAcks      \* kCompleteAckRetries

ASSUME ReceiverAssumption ==
  /\ ReceiverRounds \in Nat
  /\ CompleteAcks \in Nat \ {0}

VARIABLES
  rState,      \* state_
  rFile,       \* file_id_, file_size_ and last_announce_md5_
  rInc,        \* current_increment_
  rRound,      \* retransmit_round_
  rBuf,        \* increment_buf_: the chunk in each slot, NoChunk when its bit is clear
  rAcks,       \* complete_ack_remaining_
  rRestart,    \* restart_pending_
  rFlash,      \* chunks in the update partition, in the order they were written
  rBoot,       \* TRUE once esp_ota_set_boot_partition chose the update partition
  rRunning,    \* image the remote runs; NoFile is the one it was built with
  rRewrote,    \* history: a failed write of this image was retried
  rReopened,   \* history: esp_ota_begin opened the partition that was chosen for boot
  rBuffered,   \* history: <<file, seq>> ever stored in the increment buffer
  rVerified    \* history: images on_end found complete and correct

rVars == <<rState, rFile, rInc, rRound, rBuf, rAcks, rRestart, rFlash, rBoot, rRunning,
           rRewrote, rReopened, rBuffered, rVerified>>

RGeo(f) == ReceiverGeometry(Size[f], ChunkSize, BufferKb)

Slots == 0 .. ChunksPerIncrement(ChunkSize, BufferKb) - 1

\* An image is the sequence of its chunks.
Chunk(f, seq) == <<f, seq>>
NoChunk == Chunk(NoFile, 0)
ChunkOrNone == FileOrNone \X Nat
Image(f) == [i \in 1 .. RGeo(f).chunks |-> Chunk(f, i - 1)]

EmptyBuffer == [k \in Slots |-> NoChunk]

ReceiverInit ==
  /\ rState = "IDLE"
  /\ rFile = NoFile
  /\ rInc = 0 /\ rRound = 0
  /\ rBuf = EmptyBuffer
  /\ rAcks = 0
  /\ rRestart = FALSE
  /\ rFlash = << >>
  /\ rBoot = FALSE
  /\ rRunning = NoFile
  /\ rRewrote = FALSE /\ rReopened = FALSE
  /\ rBuffered = {}
  /\ rVerified = {}

\* reset_; a pending restart survives it.
ResetReceiver ==
  /\ rState' = "IDLE"
  /\ rFile' = NoFile
  /\ rInc' = 0 /\ rRound' = 0
  /\ rBuf' = EmptyBuffer
  /\ rAcks' = 0

-----------------------------------------------------------------------------
FrameIs(kind) == toRemote # << >> /\ Head(toRemote).kind = kind

\* Handle the oldest frame; with the fault "dup" it may be handled again.
TakeFrame ==
  /\ \E again \in {FALSE} \cup (IF "dup" \in Faults THEN {TRUE} ELSE {}) :
       toRemote' = IF again THEN toRemote ELSE Tail(toRemote)
  /\ UNCHANGED <<txCounter, losses>>

\* What send_ack_fn_ may answer for an ack added to the queue q.
AckResults(q) ==
  {AckRoom(q)} \cup (IF "send" \in Faults THEN {FALSE} ELSE {})

\* Mutant: an ANNOUNCE that arrives during a transfer is always rejected.
NeverReannounced(f) == FALSE

\* The ANNOUNCE of the transfer in progress, sent again.
Reannounced(f) == rFile = f /\ rState \in {"RECEIVING", "WRITING"}

\* handle_announce_ with on_announce.  esp_ota_begin erases the update partition
\* before the ACCEPT ack is sent, or may fail after erasing it.
HandleAnnounce ==
  /\ FrameIs("ANNOUNCE")
  /\ TakeFrame
  /\ LET f      == Head(toRemote).file
         accept == AckOf("ACCEPT", Head(toRemote).tx, TRUE, {})
         reject == AckOf("REJECT", Head(toRemote).tx, FALSE, {})
     IN  \/ /\ rState # "IDLE"
            /\ toBridge' = Acked(toBridge, IF Reannounced(f) THEN accept ELSE reject)
            /\ UNCHANGED rVars
         \/ /\ rState = "IDLE"
            /\ "reject" \in Faults
            /\ rFlash' \in {rFlash, << >>}
            /\ rReopened' = (rReopened \/ (rBoot /\ rFlash' # rFlash))
            /\ toBridge' = Acked(toBridge, reject)
            /\ UNCHANGED <<rState, rFile, rInc, rRound, rBuf, rAcks, rRestart, rBoot, rRunning,
                           rRewrote, rBuffered, rVerified>>
         \/ /\ rState = "IDLE"
            /\ rFlash' = << >>
            /\ rRewrote' = FALSE
            /\ rReopened' = (rReopened \/ rBoot)
            /\ rInc' = 0 /\ rRound' = 0
            /\ rBuf' = EmptyBuffer
            /\ \E ok \in AckResults(toBridge) :
                 /\ rState' = IF ok THEN "RECEIVING" ELSE "IDLE"
                 /\ rFile' = IF ok THEN f ELSE NoFile
                 /\ toBridge' = IF ok THEN Append(toBridge, accept) ELSE toBridge
            /\ UNCHANGED <<rAcks, rRestart, rBoot, rRunning, rBuffered, rVerified>>

\* A FILE_DATA frame that handle_file_data stores in the increment buffer.
Storable(frame) ==
  /\ rState = "RECEIVING"
  /\ frame.num \in Window(RGeo(rFile), rInc)
  /\ ExpectedChunkLen(RGeo(rFile), Size[rFile], frame.num)
       = ExpectedChunkLen(RGeo(frame.file), Size[frame.file], frame.num)
  /\ rBuf[frame.num % RGeo(rFile).cpi] = NoChunk

HandleFileData ==
  /\ FrameIs("DATA")
  /\ TakeFrame
  /\ LET frame == Head(toRemote)
     IN  IF Storable(frame)
         THEN /\ rBuf' = [rBuf EXCEPT ![frame.num % RGeo(rFile).cpi] = Chunk(frame.file, frame.num)]
              /\ rBuffered' = rBuffered \cup {Chunk(frame.file, frame.num)}
         ELSE UNCHANGED <<rBuf, rBuffered>>
  /\ UNCHANGED <<toBridge, rState, rFile, rInc, rRound, rAcks, rRestart, rFlash, rBoot,
                 rRunning, rRewrote, rReopened, rVerified>>

\* abort(reason, true); q holds the acks already sent in this step.
AbortTransfer(q) ==
  /\ toBridge' = Acked(q, AckOf("ABORT", 0, FALSE, {}))
  /\ ResetReceiver
  /\ UNCHANGED <<rRestart, rBoot, rRunning, rReopened, rBuffered, rVerified>>

BufferedChunks == [i \in 1 .. ChunksIn(RGeo(rFile), rInc) |-> rBuf[i - 1]]

BufferComplete == \A k \in 0 .. ChunksIn(RGeo(rFile), rInc) - 1 : rBuf[k] # NoChunk

ReceivedBits == {k \in 0 .. ChunksIn(RGeo(rFile), rInc) - 1 : rBuf[k] # NoChunk}

\* Mutant: the chunks of the last increment stay in the buffer.
StartIncrementKeepingBuffer(inc) ==
  /\ rState' = "RECEIVING"
  /\ rInc' = inc
  /\ rRound' = 0
  /\ UNCHANGED rBuf

\* The end of write_increment_to_flash_ when the file goes on.
StartIncrement(inc) ==
  /\ rState' = "RECEIVING"
  /\ rInc' = inc
  /\ rRound' = 0
  /\ rBuf' = EmptyBuffer

\* write_increment_to_flash_ after the acks q.  The write of chunk i may fail;
\* the whole increment is then written once more behind what is already there.
WriteIncrement(q, clear) ==
  LET n     == ChunksIn(RGeo(rFile), rInc)
      fails == IF "flash" \in Faults THEN 0 .. n ELSE {n}
  IN  \/ \E i \in fails :
           /\ rFlash' = rFlash \o SubSeq(BufferedChunks, 1, i)
                               \o (IF i < n THEN BufferedChunks ELSE << >>)
           /\ rRewrote' = (rRewrote \/ i < n)
           /\ toBridge' = Acked(q, clear)
           /\ IF rInc + 1 >= RGeo(rFile).incs
              THEN /\ rState' = "WAITING_END"
                   /\ UNCHANGED <<rInc, rRound, rBuf>>
              ELSE StartIncrement(rInc + 1)
           /\ UNCHANGED <<rFile, rAcks, rRestart, rBoot, rRunning, rReopened, rBuffered, rVerified>>
      \/ \E i, j \in fails \ {n} :
           /\ rFlash' = rFlash \o SubSeq(BufferedChunks, 1, i) \o SubSeq(BufferedChunks, 1, j)
           /\ rRewrote' = TRUE
           /\ AbortTransfer(q)

\* handle_blast_complete_.
HandleBlastComplete ==
  /\ FrameIs("BLAST_COMPLETE")
  /\ TakeFrame
  /\ LET inc   == Head(toRemote).num
         tx    == Head(toRemote).tx
         clear == AckOf("GAPS", tx, TRUE, {})
     IN  \/ /\ rState # "RECEIVING" \/ inc > rInc
            /\ UNCHANGED <<toBridge, rVars>>
         \/ /\ rState = "RECEIVING" /\ inc < rInc
            /\ toBridge' = Acked(toBridge, clear)
            /\ UNCHANGED rVars
         \/ /\ rState = "RECEIVING" /\ inc = rInc /\ BufferComplete
            /\ \E ok \in AckResults(toBridge) :
                 IF ok THEN WriteIncrement(Append(toBridge, clear), clear)
                 ELSE /\ rState' = "WRITING"
                      /\ UNCHANGED <<toBridge, rFile, rInc, rRound, rBuf, rAcks, rRestart, rFlash,
                                     rBoot, rRunning, rRewrote, rReopened, rBuffered, rVerified>>
         \/ /\ rState = "RECEIVING" /\ inc = rInc /\ ~BufferComplete
            /\ IF rRound >= ReceiverRounds
               THEN AbortTransfer(toBridge) /\ UNCHANGED <<rFlash, rRewrote>>
               ELSE /\ rRound' = rRound + 1
                    /\ toBridge' = Acked(toBridge, AckOf("GAPS", tx, FALSE, ReceivedBits))
                    /\ UNCHANGED <<rState, rFile, rInc, rBuf, rAcks, rRestart, rFlash, rBoot,
                                   rRunning, rRewrote, rReopened, rBuffered, rVerified>>

\* Mutant: the MD5 is not compared.
VerifiesAnything == TRUE

\* on_end: the size and the MD5 of what was written.
Verifies == rFlash = Image(rFile)

\* handle_end_ with on_end: size and MD5 are checked against the announced
\* image; esp_ota_end or esp_ota_set_boot_partition may fail.
HandleEnd ==
  /\ FrameIs("END")
  /\ TakeFrame
  /\ IF rState # "WAITING_END"
     THEN UNCHANGED <<toBridge, rVars>>
     ELSE \E sealed \in {TRUE} \cup (IF "flash" \in Faults THEN {FALSE} ELSE {}) :
            IF sealed /\ Verifies
            THEN /\ rState' = "VERIFYING"
                 /\ rAcks' = CompleteAcks
                 /\ rBoot' = TRUE /\ rReopened' = FALSE
                 /\ rVerified' = rVerified \cup {rFile}
                 /\ UNCHANGED <<toBridge, rFile, rInc, rRound, rBuf, rRestart, rFlash, rRunning,
                                rRewrote, rBuffered>>
            ELSE /\ toBridge' = Acked(toBridge, AckOf("COMPLETE", 0, FALSE, {}))
                 /\ ResetReceiver
                 /\ UNCHANGED <<rRestart, rFlash, rBoot, rRunning, rRewrote, rReopened, rBuffered, rVerified>>

\* handle_abort_: also taken while the COMPLETE acks are being repeated.
HandleAbort ==
  /\ FrameIs("ABORT")
  /\ TakeFrame
  /\ ResetReceiver
  /\ UNCHANGED <<toBridge, rRestart, rFlash, rBoot, rRunning, rRewrote, rReopened, rBuffered, rVerified>>

MoreCompleteAcks == rAcks > 1

\* loop in the complete phase: one more COMPLETE ack; after the last one the
\* receiver is reset and a restart is scheduled.
RepeatComplete ==
  /\ rState = "VERIFYING"
  /\ TimerDue
  /\ toBridge' = Acked(toBridge, AckOf("COMPLETE", 0, TRUE, {}))
  /\ IF MoreCompleteAcks
     THEN /\ rAcks' = rAcks - 1
          /\ UNCHANGED <<rState, rFile, rInc, rRound, rBuf, rRestart>>
     ELSE /\ ResetReceiver
          /\ rRestart' = TRUE
  /\ UNCHANGED <<toRemote, txCounter, losses, rFlash, rBoot, rRunning, rRewrote, rReopened,
                 rBuffered, rVerified>>

\* Mutant: no time limit in WRITING, as in FileReceiver::loop alone.
ReceiverTimeoutNotWriting ==
  /\ "silence" \in Faults
  /\ rState \in {"RECEIVING", "WAITING_END"}
  /\ AbortTransfer(toBridge)
  /\ UNCHANGED <<toRemote, txCounter, losses, rFlash, rRewrote>>

\* loop: radio silence; RemoteProtocol::loop: no file traffic for
\* OTA_SESSION_TIMEOUT_MS, which also ends WRITING.
ReceiverTimeout ==
  /\ "silence" \in Faults
  /\ rState \in {"RECEIVING", "WRITING", "WAITING_END"}
  /\ AbortTransfer(toBridge)
  /\ UNCHANGED <<toRemote, txCounter, losses, rFlash, rRewrote>>

\* perform_restart_if_due_, or a power loss.  The session key is lost, so
\* every frame in flight is dropped; the boot loader starts the chosen
\* partition if it holds a whole image and the other one otherwise.
Restart ==
  /\ (rRestart /\ TimerDue) \/ "crash" \in Faults
  /\ ResetReceiver
  /\ rRestart' = FALSE
  /\ rBoot' = FALSE /\ rReopened' = FALSE
  /\ rFlash' = << >>
  /\ rRunning' = IF rBoot /\ \E f \in Files : rFlash = Image(f)
                 THEN CHOOSE f \in Files : rFlash = Image(f)
                 ELSE rRunning
  /\ toRemote' = << >>
  /\ toBridge' = << >>
  /\ UNCHANGED <<txCounter, losses, rRewrote, rBuffered, rVerified>>

ReceiverNext ==
  \/ HandleAnnounce \/ HandleFileData \/ HandleBlastComplete \/ HandleEnd \/ HandleAbort
  \/ RepeatComplete \/ ReceiverTimeout \/ Restart

ReceiverTypeOK ==
  /\ rState \in {"IDLE", "RECEIVING", "WRITING", "WAITING_END", "VERIFYING"}
  /\ rFile \in FileOrNone
  /\ rInc \in Nat /\ rRound \in Nat
  /\ rBuf \in [Slots -> ChunkOrNone]
  /\ rAcks \in Nat
  /\ rRestart \in BOOLEAN
  /\ rFlash \in Seq(ChunkOrNone)
  /\ rBoot \in BOOLEAN
  /\ rRunning \in FileOrNone
  /\ rRewrote \in BOOLEAN /\ rReopened \in BOOLEAN
  /\ rBuffered \in SUBSET ChunkOrNone
  /\ rVerified \in SUBSET Files
=============================================================================
