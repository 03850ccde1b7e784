--------------------------- MODULE OtaTransferInv ---------------------------
(***************************************************************************)
(* The inductive invariant behind NoFalseAdvance and FlashIsPrefix, in     *)
(* layers: each is preserved by every step once the ones before it hold.   *)
(***************************************************************************)
EXTENDS OtaTransfer

FrameAt == 1 .. Len(toRemote)
AckAt == 1 .. Len(toBridge)

\* Types, and a known file wherever one is used.
WellFormed ==
  /\ TypeOK
  /\ \A i \in FrameAt : toRemote[i].kind \in {"ANNOUNCE", "DATA"} => toRemote[i].file \in Files
  /\ Busy => bFile \in Files
  /\ rState # "IDLE" => rFile \in Files /\ rInc < RGeo(rFile).incs

\* No counter in flight or remembered is newer than the last one used.
CountersBounded ==
  /\ \A i \in FrameAt : toRemote[i].tx <= txCounter
  /\ \A i \in AckAt : toBridge[i].ref <= txCounter
  /\ bAnnTx <= txCounter
  /\ \A t \in bHist : t <= txCounter
  /\ \A i \in FrameAt : toRemote[i].kind = "ANNOUNCE" => toRemote[i].tx > 0
  /\ \A i \in AckAt : toBridge[i].kind = "ACCEPT" => toBridge[i].ref > 0
  /\ ~Busy => bAnnTx = 0
  /\ bHist # {} => Accepted

\* The remote accepted the current ANNOUNCE, and the bridge knows or will learn.
Agreed ==
  \/ Accepted
  \/ bState = "ANNOUNCING" /\ \E i \in AckAt : toBridge[i].kind = "ACCEPT" /\ toBridge[i].ref = bAnnTx

\* Both ends mean the same file, and data on the way belongs to the file that
\* is being received when it arrives.
SameFile ==
  /\ bState = "ANNOUNCING" =>
       \A i \in FrameAt : toRemote[i].kind = "ANNOUNCE" /\ toRemote[i].tx = bAnnTx =>
         i = Len(toRemote) /\ toRemote[i].file = bFile
  /\ \A i, j \in FrameAt :
       i < j /\ toRemote[i].kind = "ANNOUNCE" /\ toRemote[j].kind = "DATA" =>
         toRemote[i].file = toRemote[j].file
  /\ \A i \in FrameAt :
       toRemote[i].kind = "DATA" /\ rState # "IDLE" => toRemote[i].file = rFile
  /\ Agreed /\ rState # "IDLE" => rFile = bFile
  /\ Agreed => \A i \in FrameAt : toRemote[i].kind = "ANNOUNCE" => toRemote[i].file = bFile
  /\ rState # "IDLE" => \A k \in Slots :
       rBuf[k] \in {NoChunk, Chunk(rFile, StartSeq(RGeo(rFile), rInc) + k)}

\* The remote has held every chunk it wrote or has in its buffer.
HeldByRemote ==
  /\ rState # "IDLE" =>
       /\ \A seq \in 0 .. StartSeq(RGeo(rFile), rInc) - 1 : Chunk(rFile, seq) \in rBuffered
       /\ \A k \in 0 .. ChunksIn(RGeo(rFile), rInc) - 1 :
            rBuf[k] # NoChunk => Chunk(rFile, StartSeq(RGeo(rFile), rInc) + k) \in rBuffered

\* What a BLAST_COMPLETE on the way asks, and what a GAPS ack on the way says,
\* is about the bridge's current increment if the bridge would act on it.
GapsAreCurrent ==
  /\ Accepted => bInc < BGeo(bFile).incs
  /\ \A i \in FrameAt :
       toRemote[i].kind = "BLAST_COMPLETE" /\ toRemote[i].tx \in bHist => toRemote[i].num = bInc
  /\ \A i \in AckAt :
       toBridge[i].kind = "GAPS" /\ toBridge[i].ref \in bHist =>
         IF toBridge[i].ok
         THEN \A seq \in Window(BGeo(bFile), bInc) : Chunk(bFile, seq) \in rBuffered
         ELSE ~(0 .. ChunksIn(BGeo(bFile), bInc) - 1 \subseteq toBridge[i].got)
  /\ NoFalseAdvance

IndInv ==
  /\ WellFormed /\ CountersBounded /\ SameFile
  /\ FlashIsPrefix /\ HeldByRemote /\ GapsAreCurrent

-----------------------------------------------------------------------------
\* Behind RestartBootsVerified: a partition that was chosen for boot and not
\* opened again holds a verified image, and nothing is being written to it.
BootHoldsImage ==
  rBoot /\ ~rReopened =>
    /\ rState \in {"IDLE", "VERIFYING"}
    /\ \E f \in rVerified : rFlash = Image(f)

\* Behind ChunkAccounting: no chunk is queued twice, a transfer starts with an
\* empty queue, and the chunks of the round are where they should be.
QueuedOnce == \A i, j \in 1 .. Len(bPending) : bPending[i] = bPending[j] => i = j

RoundSound ==
  /\ QueuedOnce
  /\ bState \in {"IDLE", "ANNOUNCING"} => bPending = << >>
  /\ Blasting =>
       /\ bRequested \cup Pending \cup bSent \subseteq Window(BGeo(bFile), bInc)
       /\ bRequested \cup Pending \cup bSent # {}
       /\ bRequested \cap (Pending \cup bSent) = {} /\ Pending \cap bSent = {}
       /\ bState = "WAITING_GAPS" => bRequested = {} /\ bPending = << >>
       /\ bRound = 0 => bRequested \cup Pending \cup bSent = Window(BGeo(bFile), bInc)
=============================================================================
