-------------------------- MODULE BridgeOtaManager --------------------------
(***************************************************************************)
(* ESPNowOTAManager (bridge_ota_manager.cpp): the bridge's end of a file   *)
(* transfer to one leaf.  An increment is blasted chunk by chunk, closed   *)
(* with BLAST_COMPLETE, and either cleared or answered with the bitmap of  *)
(* what arrived; the gaps are blasted again.                               *)
(*                                                                         *)
(* Every entry point is one action: on_file_ack and loop run in the main   *)
(* loop, on_source_chunk and on_source_abort (called by the WebSocket      *)
(* task) hold ota_mutex_.  The places where loop gives the mutex up in the *)
(* middle of pump_queued_chunks_ are not split here.                       *)
(* A timer is an action that may be taken when it could expire.  A send    *)
(* refused with NO_MEM leaves the manager in its state                     *)
(* (mark_no_mem_backoff_) unless an action below says otherwise.           *)
(* ABORTING, COMPLETE and FAILED never outlive the call that sets them.    *)
(***************************************************************************)
EXTENDS FileLink

CONSTANTS
  FileMaxRetries,           \* ESPNOW_FILE_MAX_RETRIES
  MaxBlastCompleteRetries,  \* ESPNOW_MAX_BLAST_COMPLETE_RETRIES
  MaxRetransmitRounds,      \* ESPNOW_MAX_RETRANSMIT_ROUNDS
  TxHistory,                \* length kept of blast_complete_tx_history
  MaxTransfers              \* bound: calls of start_transfer

ASSUME ManagerAssumption ==
  /\ FileMaxRetries \in Nat \ {0}
  /\ MaxBlastCompleteRetries \in Nat \ {0}
  /\ MaxRetransmitRounds \in Nat
  /\ TxHistory \in Nat \ {0}
  /\ MaxTransfers \in Nat

VARIABLES
  bState,      \* state_
  bFile,       \* file_id_, file_size_ and md5_
  bInc,        \* tracker_.current_increment
  bRound,      \* tracker_.retransmit_round
  bRetries,    \* tracker_.blast_complete_retries
  bHist,       \* tracker_.blast_complete_tx_history, as a set of counters
  bRequested,  \* tracker_.requested_sequences
  bPending,    \* pending_chunks_
  bSent,       \* tracker_.sent_sequences
  bAttempts,   \* control_attempt_count_
  bAnnTx,      \* announce_tx_counter_
  bPublic,     \* public_state_
  bStarts      \* transfers started, for the bound MaxTransfers

trackerVars == <<bInc, bRound, bRetries, bHist, bRequested, bPending, bSent>>
bVars == <<bState, bFile, trackerVars, bAttempts, bAnnTx, bPublic, bStarts>>

BGeo(f) == BridgeGeometry(Size[f], ChunkSize, BufferKb)

Busy == bState # "IDLE"

\* What send_frame_fn_ may answer for a frame added to the queue q.
SendResults(q) ==
       (IF TxRoom(q) THEN {"OK"} ELSE {"NO_MEM"})
  \cup (IF "send" \in Faults THEN {"NO_MEM", "ERROR"} ELSE {})
  \cup (IF "session" \in Faults THEN {"NOT_FOUND"} ELSE {})

BridgeInit ==
  /\ bState = "IDLE"
  /\ bFile = NoFile
  /\ bInc = 0 /\ bRound = 0 /\ bRetries = 0
  /\ bHist = {}
  /\ bRequested = {} /\ bPending = << >> /\ bSent = {}
  /\ bAttempts = 0 /\ bAnnTx = 0
  /\ bPublic = "IDLE"
  /\ bStarts = 0

\* reset_, after the public state has been set.
ResetManager(public) ==
  /\ bState' = "IDLE"
  /\ bFile' = NoFile
  /\ bInc' = 0 /\ bRound' = 0 /\ bRetries' = 0
  /\ bHist' = {}
  /\ bRequested' = {} /\ bPending' = << >> /\ bSent' = {}
  /\ bAttempts' = 0 /\ bAnnTx' = 0
  /\ bPublic' = public

\* fail_transfer_; q holds the frames already sent in this step.
FailTransfer(q, notify) ==
  /\ toRemote' = IF notify THEN Sent(q, Abort) ELSE q
  /\ UNCHANGED txCounter
  /\ ResetManager("FAIL")

\* send_announce_ for file f after n attempts.
SendAnnounce(f, n) ==
  \E out \in SendResults(toRemote) :
    \/ /\ out \in {"OK", "NO_MEM"}
       /\ IF out = "OK"
          THEN /\ toRemote' = Append(toRemote, Announce(f, txCounter + 1))
               /\ txCounter' = txCounter + 1
               /\ bAnnTx' = txCounter + 1
               /\ bAttempts' = n + 1
          ELSE UNCHANGED <<toRemote, txCounter, bAnnTx, bAttempts>>
       /\ bState' = "ANNOUNCING"
       /\ bFile' = f
       /\ bPublic' = "START_RECEIVED"
       /\ UNCHANGED trackerVars
    \/ /\ out \in {"NOT_FOUND", "ERROR"}
       /\ FailTransfer(toRemote, FALSE)

StartTransfer ==
  \E f \in Files :
    /\ ~Busy
    /\ bStarts < MaxTransfers
    /\ bStarts' = bStarts + 1
    /\ SendAnnounce(f, 0)
    /\ UNCHANGED <<toBridge, losses>>

\* Mutant: the last retry is not followed by a failure.
ResendAnnounceNoLimit ==
  /\ bState = "ANNOUNCING"
  /\ bAttempts = 0 \/ TimerDue
  /\ bAttempts < FileMaxRetries
  /\ SendAnnounce(bFile, bAttempts)
  /\ UNCHANGED <<toBridge, losses, bStarts>>

ResendAnnounce ==
  /\ bState = "ANNOUNCING"
  /\ bAttempts = 0 \/ TimerDue
  /\ IF bAttempts >= FileMaxRetries
     THEN FailTransfer(toRemote, TRUE)
     ELSE SendAnnounce(bFile, bAttempts)
  /\ UNCHANGED <<toBridge, losses, bStarts>>

\* The newest TxHistory entries: the oldest is the smallest counter.
Remembered(h) ==
  IF Cardinality(h) > TxHistory THEN {t \in h : \E u \in h : u < t} ELSE h

\* send_blast_complete_ after the frames q, with the chunk queues as given.
SendBlastComplete(q, pending, sent) ==
  \E out \in SendResults(q) :
    \/ /\ out # "NOT_FOUND"
       /\ IF out = "OK"
          THEN /\ toRemote' = Append(q, BlastComplete(bInc, txCounter + 1))
               /\ txCounter' = txCounter + 1
               /\ bHist' = Remembered(bHist \cup {txCounter + 1})
               /\ bRetries' = bRetries + 1
               /\ bState' = "WAITING_GAPS"
          ELSE /\ toRemote' = q
               /\ UNCHANGED <<txCounter, bHist, bRetries, bState>>
       /\ bPending' = pending
       /\ bSent' = sent
       /\ UNCHANGED <<bFile, bInc, bRound, bRequested, bAttempts, bAnnTx, bPublic>>
    \/ /\ out = "NOT_FOUND"
       /\ FailTransfer(q, FALSE)

\* Mutant: the sequence is not erased from requested_sequences.
OnSourceChunkNotErased ==
  \E seq \in bRequested :
    /\ bState = "BLASTING"
    /\ Len(bPending) < Cardinality(bRequested)
    /\ bPending' = Append(bPending, seq)
    /\ UNCHANGED <<linkVars, bState, bFile, bInc, bRound, bRetries, bHist, bRequested, bSent,
                   bAttempts, bAnnTx, bPublic, bStarts>>

\* on_source_chunk: the source hands over a requested chunk.
OnSourceChunk ==
  \E seq \in bRequested :
    /\ bState = "BLASTING"
    /\ bPending' = Append(bPending, seq)
    /\ bRequested' = bRequested \ {seq}
    /\ UNCHANGED <<linkVars, bState, bFile, bInc, bRound, bRetries, bHist, bSent,
                   bAttempts, bAnnTx, bPublic, bStarts>>

\* pump_queued_chunks_: send the next queued chunk; after the last one, or when
\* an earlier BLAST_COMPLETE could not be sent, close the increment.
PumpQueuedChunks ==
  /\ bState = "BLASTING"
  /\ \/ /\ bPending # << >>
        /\ TxRoom(toRemote)
        /\ LET q    == Append(toRemote, Data(bFile, Head(bPending)))
               rest == Tail(bPending)
               sent == bSent \cup {Head(bPending)}
           IN  IF rest = << >> /\ bRequested = {}
               THEN SendBlastComplete(q, rest, sent)
               ELSE /\ toRemote' = q
                    /\ bPending' = rest
                    /\ bSent' = sent
                    /\ UNCHANGED <<txCounter, bState, bFile, bInc, bRound, bRetries, bHist,
                                   bRequested, bAttempts, bAnnTx, bPublic>>
     \/ /\ bPending = << >> /\ bRequested = {} /\ bSent # {}
        /\ SendBlastComplete(toRemote, bPending, bSent)
  /\ UNCHANGED <<toBridge, losses, bStarts>>

ResendBlastComplete ==
  /\ bState = "WAITING_GAPS"
  /\ TimerDue
  /\ IF bRetries >= MaxBlastCompleteRetries
     THEN FailTransfer(toRemote, TRUE)
     ELSE SendBlastComplete(toRemote, bPending, bSent)
  /\ UNCHANGED <<toBridge, losses, bStarts>>

\* send_end_ after n attempts; a full radio queue fails the transfer here.
SendEnd(n) ==
  \E out \in SendResults(toRemote) :
    \/ /\ out = "OK"
       /\ toRemote' = Append(toRemote, End)
       /\ bState' = "ENDING"
       /\ bAttempts' = n + 1
       /\ bPublic' = "VERIFYING"
       /\ UNCHANGED <<txCounter, bFile, trackerVars, bAnnTx>>
    \/ /\ out # "OK"
       /\ FailTransfer(toRemote, out # "NOT_FOUND")

ResendEnd ==
  /\ bState = "ENDING"
  /\ TimerDue
  /\ IF bAttempts >= FileMaxRetries
     THEN FailTransfer(toRemote, TRUE)
     ELSE SendEnd(bAttempts)
  /\ UNCHANGED <<toBridge, losses, bStarts>>

\* Radio silence in BLASTING or WAITING_GAPS, or the global timeout.
LoopTimeout ==
  /\ "silence" \in Faults
  /\ Busy
  /\ FailTransfer(toRemote, TRUE)
  /\ UNCHANGED <<toBridge, losses, bStarts>>

\* target_reachable_ is false: the leaf's session went offline.
LoopUnreachable ==
  /\ "session" \in Faults
  /\ Busy
  /\ FailTransfer(toRemote, FALSE)
  /\ UNCHANGED <<toBridge, losses, bStarts>>

OnSourceAbort ==
  /\ "abort" \in Faults
  /\ Busy
  /\ FailTransfer(toRemote, TRUE)
  /\ UNCHANGED <<toBridge, losses, bStarts>>

-----------------------------------------------------------------------------
(* on_file_ack, one action per result.  The ack's leaf is the target.       *)

AckIs(kind) == toBridge # << >> /\ Head(toBridge).kind = kind

TakeAck == toBridge' = Tail(toBridge) /\ UNCHANGED <<losses, bStarts>>

IgnoreAck == UNCHANGED <<toRemote, txCounter, bState, bFile, trackerVars, bAttempts, bAnnTx, bPublic>>

\* An ACCEPT of the last ANNOUNCE sent.
CurrentAccept(ack) == bState = "ANNOUNCING" /\ ack.ref = bAnnTx

\* handle_accept_: start blasting at increment 0.  An ACCEPT of an earlier
\* ANNOUNCE is stale.
OnAccept ==
  /\ AckIs("ACCEPT")
  /\ TakeAck
  /\ IF CurrentAccept(Head(toBridge))
     THEN /\ bState' = "BLASTING"
          /\ bInc' = 0 /\ bRound' = 0 /\ bRetries' = 0
          /\ bHist' = {}
          /\ bRequested' = Window(BGeo(bFile), 0)
          /\ bSent' = {}
          /\ bAttempts' = 0
          /\ bPublic' = "TRANSFERRING"
          /\ UNCHANGED <<toRemote, txCounter, bFile, bPending, bAnnTx>>
     ELSE IgnoreAck

\* The chunks of the current increment that a GAPS bitmap does not show.
GapSequences(got) ==
  {bInc * BGeo(bFile).cpi + i : i \in (0 .. ChunksIn(BGeo(bFile), bInc) - 1) \ got}

AdvanceIncrement(hist) ==
  /\ bState' = "BLASTING"
  /\ bInc' = bInc + 1
  /\ bRound' = 0 /\ bRetries' = 0
  /\ bHist' = hist
  /\ bRequested' = Window(BGeo(bFile), bInc + 1)
  /\ bSent' = {}
  /\ UNCHANGED <<toRemote, txCounter, bFile, bPending, bAttempts, bAnnTx, bPublic>>

RetransmitGaps(gaps) ==
  /\ bState' = "BLASTING"
  /\ bRound' = bRound + 1
  /\ bRetries' = 0
  /\ bHist' = {}
  /\ bRequested' = gaps
  /\ bSent' = {}
  /\ UNCHANGED <<toRemote, txCounter, bFile, bInc, bPending, bAttempts, bAnnTx, bPublic>>

\* handle_gaps_ack_.
HandleGapsAck(ack) ==
  IF ack.ok
  THEN IF bInc + 1 >= BGeo(bFile).incs
       THEN SendEnd(0)
       ELSE AdvanceIncrement({})
  ELSE IF bRound >= MaxRetransmitRounds
  THEN FailTransfer(toRemote, TRUE)
  ELSE IF GapSequences(ack.got) = {}
  THEN AdvanceIncrement(bHist)
  ELSE RetransmitGaps(GapSequences(ack.got))

\* Mutant: ref_tx_counter is not looked up.
AnyGaps(ack) == bState = "WAITING_GAPS"

\* A GAPS ack for a BLAST_COMPLETE that is still remembered.
CurrentGaps(ack) == bState = "WAITING_GAPS" /\ ack.ref \in bHist

OnGaps ==
  /\ AckIs("GAPS")
  /\ TakeAck
  /\ IF CurrentGaps(Head(toBridge))
     THEN HandleGapsAck(Head(toBridge))
     ELSE IgnoreAck

\* Mutant: the status in the COMPLETE ack is not read.
OnCompleteAnyStatus ==
  /\ AckIs("COMPLETE")
  /\ TakeAck
  /\ IF Busy THEN ResetManager("SUCCESS") /\ UNCHANGED <<toRemote, txCounter>> ELSE IgnoreAck

\* handle_complete_: taken in any busy state, whatever ANNOUNCE it refers to.
OnComplete ==
  /\ AckIs("COMPLETE")
  /\ TakeAck
  /\ IF ~Busy THEN IgnoreAck
     ELSE IF Head(toBridge).ok
     THEN ResetManager("SUCCESS") /\ UNCHANGED <<toRemote, txCounter>>
     ELSE FailTransfer(toRemote, FALSE)

\* handle_reject_ and handle_abort_ack_: likewise in any busy state.
OnRejectOrAbort ==
  /\ AckIs("REJECT") \/ AckIs("ABORT")
  /\ TakeAck
  /\ IF Busy THEN FailTransfer(toRemote, FALSE) ELSE IgnoreAck

BridgeTimers == ResendAnnounce \/ ResendBlastComplete \/ ResendEnd

BridgeSteps ==
  \/ StartTransfer \/ OnSourceChunk \/ PumpQueuedChunks
  \/ LoopTimeout \/ LoopUnreachable \/ OnSourceAbort
  \/ OnAccept \/ OnGaps \/ OnComplete \/ OnRejectOrAbort

BridgeTypeOK ==
  /\ bState \in {"IDLE", "ANNOUNCING", "BLASTING", "WAITING_GAPS", "ENDING"}
  /\ bFile \in FileOrNone
  /\ bInc \in Nat /\ bRound \in Nat /\ bRetries \in Nat
  /\ bHist \in SUBSET Nat
  /\ bRequested \in SUBSET Nat /\ bPending \in Seq(Nat) /\ bSent \in SUBSET Nat
  /\ bAttempts \in Nat /\ bAnnTx \in Nat
  /\ bPublic \in {"IDLE", "START_RECEIVED", "TRANSFERRING", "VERIFYING", "SUCCESS", "FAIL"}
  /\ bStarts \in Nat
=============================================================================
