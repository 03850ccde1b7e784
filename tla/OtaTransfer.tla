---------------------------- MODULE OtaTransfer ----------------------------
(***************************************************************************)
(* The bridge's OTA manager and one remote's file receiver joined by the   *)
(* radio path: firmware transfers to one leaf, from start_transfer to the  *)
(* remote's restart, with the properties that make them correct.           *)
(***************************************************************************)
EXTENDS BridgeOtaManager, FileReceiver

vars == <<linkVars, bVars, rVars>>

Init == LinkInit /\ BridgeInit /\ ReceiverInit

\* Without the fault "early" the bridge's 5 s timers do not overtake the
\* receiver's COMPLETE interval of 1 s.
InTime == "early" \in Faults \/ rState # "VERIFYING"

Next ==
  \/ BridgeSteps /\ UNCHANGED rVars
  \/ InTime /\ BridgeTimers /\ UNCHANGED rVars
  \/ ReceiverNext /\ UNCHANGED bVars
  \/ (LoseFrame \/ LoseAck) /\ UNCHANGED <<bVars, rVars>>

Spec == Init /\ [][Next]_vars

\* What the scheduling of both firmwares guarantees: the main loops keep
\* running, so timers that have expired are served, queued frames and acks are
\* handled, and a source that was asked for chunks delivers them.  The bridge's
\* own silence and global timeouts are not relied on.
Fairness ==
  /\ WF_vars((PumpQueuedChunks \/ (InTime /\ BridgeTimers)) /\ UNCHANGED rVars)
  /\ WF_vars(OnSourceChunk /\ UNCHANGED rVars)
  /\ WF_vars((OnAccept \/ OnGaps \/ OnComplete \/ OnRejectOrAbort) /\ UNCHANGED rVars)
  /\ WF_vars((HandleAnnounce \/ HandleFileData \/ HandleBlastComplete \/ HandleEnd \/ HandleAbort)
             /\ UNCHANGED bVars)
  /\ WF_vars(RepeatComplete /\ UNCHANGED bVars)
  /\ WF_vars(ReceiverTimeout /\ UNCHANGED bVars)
  /\ WF_vars(rRestart /\ Restart /\ UNCHANGED bVars)

FairSpec == Spec /\ Fairness

TypeOK == LinkTypeOK /\ BridgeTypeOK /\ ReceiverTypeOK

-----------------------------------------------------------------------------
Blasting == bState \in {"BLASTING", "WAITING_GAPS"}

Accepted == Blasting \/ bState = "ENDING"

Pending == {bPending[i] : i \in 1 .. Len(bPending)}

\* In BLASTING every chunk of the round is in exactly one of the manager's
\* three places (wanted from the source, queued, sent), no place holds a chunk
\* of another increment, and the round is not empty: pump_blasting_'s
\* re-request never happens and BLAST_COMPLETE always follows the last chunk.
ChunkAccounting ==
  Blasting =>
    /\ bInc < BGeo(bFile).incs
    /\ bRequested \cup Pending \cup bSent \subseteq Window(BGeo(bFile), bInc)
    /\ bRequested \cup Pending \cup bSent # {}
    /\ bRequested \cap (Pending \cup bSent) = {} /\ Pending \cap bSent = {}
    /\ Len(bPending) = Cardinality(Pending)
    /\ bState = "WAITING_GAPS" => bRequested \cup Pending = {}
    /\ bRound = 0 => bRequested \cup Pending \cup bSent = Window(BGeo(bFile), bInc)

\* The chunks of f before increment inc.
Before(f, inc) == {Chunk(f, seq) : seq \in 0 .. StartSeq(BGeo(f), inc) - 1}

\* The bridge leaves an increment behind only when the remote has held every
\* chunk of it: handle_gaps_ack_ never acts on an all-clear that was sent for
\* another increment, a repeated BLAST_COMPLETE or an earlier transfer.
NoFalseAdvance ==
  /\ Blasting => Before(bFile, bInc) \subseteq rBuffered
  /\ bState = "ENDING" => {Chunk(bFile, seq) : seq \in 0 .. BGeo(bFile).chunks - 1} \subseteq rBuffered

\* While a file is received, the update partition holds its first increments,
\* each written once and in order, and all of them in WAITING_END: lost,
\* repeated and resent frames and restarted transfers leave no trace in the
\* image.  A retried flash write (rRewrote) is excepted.
FlashIsPrefix ==
  rState # "IDLE" /\ ~rRewrote =>
    /\ \A i \in 1 .. Len(rFlash) : rFlash[i] = Chunk(rFile, i - 1)
    /\ Len(rFlash) = IF rState \in {"WAITING_END", "VERIFYING"}
                     THEN RGeo(rFile).chunks
                     ELSE StartSeq(RGeo(rFile), rInc)

\* The manager reports SUCCESS only for an image that the remote verified.
SuccessMeansVerified ==
  [][bPublic' = "SUCCESS" /\ bPublic # "SUCCESS" => bFile \in rVerified]_vars

\* A remote that switched its boot partition runs a verified image after the
\* next restart, unless a transfer that came before the restart has opened the
\* partition again.
RestartBootsVerified ==
  [][rBoot /\ ~rReopened /\ ~rBoot' => rRunning' \in rVerified]_vars

\* Retry limits end every transfer: the manager becomes free again without its
\* silence and global timeouts.
BridgeTerminates == Busy ~> ~Busy

\* The receiver leaves every transfer, one stuck in WRITING included.
ReceiverReleases == rState # "IDLE" ~> rState = "IDLE"

-----------------------------------------------------------------------------
\* Not true of the code, although a document, a comment or the design says so: section 4
\* of README.md tells what happens instead.

\* Verifying an image leads to a restart: the COMPLETE phase ends only with a
\* restart scheduled (or the remote losing power).
CompletePhaseRestarts ==
  [][rState = "VERIFYING" /\ rState' # "VERIFYING" => rRestart' \/ ~rBoot']_vars

\* The receiver's image is right whenever the last increment has been written,
\* a retried flash write included.
RetriedWriteIsIntact ==
  rState = "WAITING_END" => rFlash = Image(rFile)
=============================================================================
