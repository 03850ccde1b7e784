-------------------------- MODULE OtaSafetyProofs ---------------------------
(***************************************************************************)
(* The second layer of IndInv (counters are bounded), the third (bridge    *)
(* and receiver are about the same file), the fourth (what the receiver    *)
(* wrote and holds are chunks of its file in their places) and the last,   *)
(* which is therefore inductive, and the theorems that NoFalseAdvance and  *)
(* FlashIsPrefix hold in every reachable state of OtaTransfer; then        *)
(* BootHoldsImage and RoundSound on top of it, with the theorems on        *)
(* RestartBootsVerified and ChunkAccounting.                               *)
(***************************************************************************)
EXTENDS OtaTransferProofs
-----------------------------------------------------------------------------
(* Second layer: CountersBounded.                                           *)

\* The acks of a receiver step refer to the frame that was handled.
LEMMA ReceiverAcks ==
  ASSUME WellFormed, ReceiverEffect
  PROVE  \A i \in AckAt' :
           \/ \E k \in AckAt : toBridge'[i] = toBridge[k]
           \/ /\ toBridge'[i].kind \in {"REJECT", "COMPLETE", "ABORT"}
              /\ toBridge'[i].ref = 0 \/ (1 \in FrameAt /\ toBridge'[i].ref = toRemote[1].tx)
           \/ /\ FrameIs("BLAST_COMPLETE") /\ toBridge'[i].kind = "GAPS" /\ toBridge'[i].ref = toRemote[1].tx
              /\ \/ Finishes /\ toBridge'[i].ok
                 \/ Clears /\ toBridge'[i].ok
                 \/ Reports /\ ~toBridge'[i].ok /\ toBridge'[i].got = ReceivedBits
           \/ /\ FrameIs("ANNOUNCE") /\ toBridge'[i].kind = "ACCEPT" /\ toBridge'[i].ref = toRemote[1].tx
              /\ Begins \/ Reaccepts
<1>1. toRemote \in Seq(Frame) /\ toBridge \in Seq(Ack)
  BY Zenon DEF WellFormed, TypeOK, LinkTypeOK
<1>2. \A kind : FrameIs(kind) => HeadTx = toRemote[1].tx
  BY HeadTyped, Zenon DEF HeadTx
<1>3. \A a \in NeutralAcks : /\ a.kind \in {"REJECT", "COMPLETE", "ABORT"}
                             /\ a.ref = 0 \/ (1 \in FrameAt /\ a.ref = toRemote[1].tx)
  BY <1>1, TailElements, Zenon DEF NeutralAcks, FrameAt
<1>4. /\ AcceptAck.kind = "ACCEPT" /\ AcceptAck.ref = HeadTx
      /\ ClearAck.kind = "GAPS" /\ ClearAck.ref = HeadTx /\ ClearAck.ok
      /\ ReportAck.kind = "GAPS" /\ ReportAck.ref = HeadTx /\ ~ReportAck.ok /\ ReportAck.got = ReceivedBits
  BY Zenon DEF AcceptAck, ClearAck, ReportAck, AckOf
<1>5. CASE Quits
  <2>1. CASE toBridge' = << >>
    <3>1. AckAt' = {}
      BY <2>1 DEF AckAt
    <3> QED
      BY Zenon, <3>1
  <2>2. CASE AcksGrow(NeutralAcks)
    BY <1>3, <2>2, Zenon DEF AcksGrow
  <2>3. CASE Finishes /\ AcksGrow(NeutralAcks \cup {ClearAck})
    BY <1>2, <1>3, <1>4, <2>3, Zenon DEF AcksGrow, Finishes
  <2> QED
    BY <1>5, <2>1, <2>2, <2>3, Zenon DEF Quits
<1>6. CASE Holds
  BY <1>3, <1>6, Zenon DEF Holds, AcksGrow
<1>7. CASE Begins
  BY <1>2, <1>4, <1>7, Zenon DEF Begins, AcksGrow
<1>8. CASE Reaccepts
  BY <1>2, <1>4, <1>8, Zenon DEF Reaccepts, AcksGrow
<1>9. CASE Stores
  BY <1>9, Zenon DEF Stores, AckAt
<1>10. CASE Clears
  BY <1>2, <1>4, <1>10, Zenon DEF Clears, AcksGrow
<1>11. CASE Writes
  BY <1>2, <1>4, <1>11, Zenon DEF Writes, Finishes, AcksGrow
<1>12. CASE Reports
  BY <1>2, <1>4, <1>12, Zenon DEF Reports, AcksGrow
<1> QED
  BY <1>5, <1>6, <1>7, <1>8, <1>9, <1>10, <1>11, <1>12, ZenonT(30) DEF ReceiverEffect

\* No counter runs ahead of txCounter.
LEMMA StepCounters == WellFormed /\ CountersBounded /\ [Next]_vars => CountersBounded'
<1> SUFFICES ASSUME WellFormed, CountersBounded, [Next]_vars PROVE CountersBounded'
  BY Zenon
<1>1. /\ txCounter \in Nat /\ bAnnTx \in Nat /\ bHist \in SUBSET Nat
      /\ \A i \in FrameAt : toRemote[i].tx \in Nat
      /\ \A i \in AckAt : toBridge[i].ref \in Nat
  <2>1. /\ txCounter \in Nat /\ bAnnTx \in Nat /\ bHist \in SUBSET Nat
        /\ toRemote \in Seq(Frame) /\ toBridge \in Seq(Ack)
    BY Zenon DEF WellFormed, TypeOK, LinkTypeOK, BridgeTypeOK
  <2>2. (\A i \in FrameAt : toRemote[i] \in Frame) /\ (\A i \in AckAt : toBridge[i] \in Ack)
    BY <2>1 DEF FrameAt, AckAt
  <2> QED
    BY <2>1, <2>2, Zenon DEF Frame, Ack
<1>2. /\ \A i \in FrameAt : toRemote[i].tx <= txCounter
      /\ \A i \in AckAt : toBridge[i].ref <= txCounter
      /\ bAnnTx <= txCounter
      /\ \A t \in bHist : t <= txCounter
      /\ \A i \in FrameAt : toRemote[i].kind = "ANNOUNCE" => toRemote[i].tx > 0
      /\ \A i \in AckAt : toBridge[i].kind = "ACCEPT" => toBridge[i].ref > 0
      /\ ~Busy => bAnnTx = 0
      /\ bHist # {} => Accepted
  BY Zenon DEF CountersBounded
<1>3. CASE ByBridge
  <2>1. BridgeEffect
    BY <1>3, ZenonT(30) DEF ByBridge
  <2>2. txCounter' \in Nat /\ txCounter' >= txCounter
    BY <1>1, <2>1 DEF BridgeEffect, Ends, Announces, Blasts, IgnoresAck, Accepts, ActsOnGaps, ResendsEnd,
              TakesSourceChunk
  <2>3. \A i \in FrameAt' : /\ toRemote'[i].tx <= txCounter'
                            /\ toRemote'[i].kind = "ANNOUNCE" => toRemote'[i].tx > 0
    <3> SUFFICES ASSUME NEW i \in FrameAt'
                 PROVE  /\ toRemote'[i].tx <= txCounter'
                        /\ toRemote'[i].kind = "ANNOUNCE" => toRemote'[i].tx > 0
      BY Zenon
    <3>1. CASE i \in FrameAt /\ toRemote'[i] = toRemote[i]
      BY SMTT(30), <1>1, <1>2, <2>2, <3>1
    <3>2. CASE NewFrame(toRemote'[i])
      BY <1>1, <2>2, <3>2, SMTT(30) DEF NewFrame, Abort, End, DataFrames, Data, BlastComplete, Announce
    <3> QED
      BY Zenon, <2>1, <3>1, <3>2, BridgeFrames
  <2>4. \A i \in AckAt' : /\ toBridge'[i].ref <= txCounter'
                          /\ toBridge'[i].kind = "ACCEPT" => toBridge'[i].ref > 0
    BY <1>1, <1>2, <2>1, <2>2, BridgeQueues, SMTT(30) DEF AcksLeft
  <2>5. bAnnTx' <= txCounter' /\ (bState' = "IDLE" => bAnnTx' = 0)
    BY <1>1, <1>2, <2>1 DEF BridgeEffect, Ends, Announces, Blasts, IgnoresAck, Accepts, ActsOnGaps, ResendsEnd,
              TakesSourceChunk, Busy, Blasting
  <2>6. \A t \in bHist' : t <= txCounter'
    <3>1. CASE bHist' \subseteq bHist
      BY <1>1, <1>2, <2>2, <3>1
    <3>2. CASE bHist' \subseteq bHist \cup {txCounter + 1} /\ txCounter' = txCounter + 1
      BY <1>1, <1>2, <2>2, <3>2
    <3> QED
      BY <2>1, <3>1, <3>2, ZenonT(30) DEF BridgeEffect, Ends, Announces, Blasts, IgnoresAck, Accepts, ActsOnGaps, ResendsEnd,
              TakesSourceChunk
  <2>7. bHist' # {} => Accepted'
    BY <1>2, <2>1, Zenon DEF BridgeEffect, Ends, Announces, Blasts, IgnoresAck, Accepts, ActsOnGaps, ResendsEnd,
              TakesSourceChunk, Busy, Blasting, Accepted
  <2> QED
    BY <2>3, <2>4, <2>5, <2>6, <2>7, Zenon DEF CountersBounded, Busy
<1>4. ASSUME FramesLeft, UNCHANGED <<txCounter, bVars>>,
             \A i \in AckAt' : /\ toBridge'[i].ref <= txCounter
                               /\ toBridge'[i].kind = "ACCEPT" => toBridge'[i].ref > 0
      PROVE  CountersBounded'
  <2>1. UNCHANGED <<bState, bAnnTx, bHist, txCounter>>
    BY <1>4, Zenon DEF bVars, trackerVars
  <2>2. \A i \in FrameAt' : /\ toRemote'[i].tx <= txCounter
                            /\ toRemote'[i].kind = "ANNOUNCE" => toRemote'[i].tx > 0
    BY <1>2, <1>4, Zenon DEF FramesLeft
  <2> QED
    BY <1>2, <1>4, <2>1, <2>2, Zenon DEF CountersBounded, Busy, Accepted, Blasting
<1>5. CASE ByReceiver
  <2>1. \A i \in AckAt' : /\ toBridge'[i].ref <= txCounter
                          /\ toBridge'[i].kind = "ACCEPT" => toBridge'[i].ref > 0
    <3> SUFFICES ASSUME NEW i \in AckAt'
                 PROVE  /\ toBridge'[i].ref <= txCounter
                        /\ toBridge'[i].kind = "ACCEPT" => toBridge'[i].ref > 0
      BY Zenon
    <3>1. \A kind : FrameIs(kind) => 1 \in FrameAt /\ toRemote[1].kind = kind
      BY Zenon, HeadTyped
    <3> QED
      BY <1>1, <1>2, <1>5, <3>1, ReceiverAcks DEF ByReceiver
  <2> QED
    BY <1>4, <1>5, <2>1, ZenonT(30) DEF ByReceiver
<1>6. CASE ByLink
  BY <1>2, <1>4, <1>6, Zenon DEF ByLink, AcksLeft
<1> QED
  BY Zenon, <1>3, <1>5, <1>6, StepCases

-----------------------------------------------------------------------------
(* Third layer: SameFile.                                                   *)

\* A stored chunk goes into the slot of its place in the increment.
LEMMA StoredSlot ==
  ASSUME WellFormed, Stores
  PROVE  LET seq  == Head(toRemote).num
             slot == seq % RGeo(rFile).cpi
         IN  /\ seq \in Nat /\ slot \in Nat
             /\ slot \in 0 .. ChunksIn(RGeo(rFile), rInc) - 1
             /\ seq = StartSeq(RGeo(rFile), rInc) + slot
<1>1. /\ rFile \in Files /\ rInc \in Nat /\ rInc < RGeo(rFile).incs
      /\ Head(toRemote).num \in Window(RGeo(rFile), rInc)
  BY Zenon DEF WellFormed, TypeOK, ReceiverTypeOK, Stores, Storable
<1>2. SoundGeometry(RGeo(rFile)) /\ RGeo(rFile) = BGeo(rFile)
  BY Zenon, <1>1, FileGeometry
<1>3. StartSeq(RGeo(rFile), rInc) \in Nat /\ ChunksIn(RGeo(rFile), rInc) \in Nat
  BY Zenon, <1>1, <1>2, FileIncrement
<1>4. /\ Head(toRemote).num \in Nat
      /\ Head(toRemote).num % RGeo(rFile).cpi = Head(toRemote).num - StartSeq(RGeo(rFile), rInc)
      /\ Head(toRemote).num % RGeo(rFile).cpi \in 0 .. ChunksIn(RGeo(rFile), rInc) - 1
  BY Zenon, <1>1, <1>2, SlotIsOffset
<1> QED
  BY <1>3, <1>4

\* Every step keeps the two ends on one file.
LEMMA StepSameFile ==
  WellFormed /\ CountersBounded /\ SameFile /\ [Next]_vars => SameFile'
<1> SUFFICES ASSUME WellFormed, CountersBounded, SameFile, [Next]_vars PROVE SameFile'
  BY Zenon
<1> DEFINE S1 == bState = "ANNOUNCING" =>
                   \A i \in FrameAt : toRemote[i].kind = "ANNOUNCE" /\ toRemote[i].tx = bAnnTx =>
                     i = Len(toRemote) /\ toRemote[i].file = bFile
           S2 == \A i, j \in FrameAt :
                   i < j /\ toRemote[i].kind = "ANNOUNCE" /\ toRemote[j].kind = "DATA" =>
                     toRemote[i].file = toRemote[j].file
           S3 == \A i \in FrameAt :
                   toRemote[i].kind = "DATA" /\ rState # "IDLE" => toRemote[i].file = rFile
           S4 == Agreed /\ rState # "IDLE" => rFile = bFile
           S5 == Agreed => \A i \in FrameAt : toRemote[i].kind = "ANNOUNCE" => toRemote[i].file = bFile
           S6 == rState # "IDLE" => \A k \in Slots :
                   rBuf[k] \in {NoChunk, Chunk(rFile, StartSeq(RGeo(rFile), rInc) + k)}
<1>1. S1 /\ S2 /\ S3 /\ S4 /\ S5 /\ S6
  BY Zenon DEF SameFile
<1>2. /\ txCounter \in Nat /\ Len(toRemote) \in Nat
      /\ \A i \in FrameAt : toRemote[i].tx <= txCounter
      /\ \A i \in AckAt : toBridge[i].ref <= txCounter
      /\ \A i \in FrameAt : toRemote[i].kind = "ANNOUNCE" => toRemote[i].tx > 0
      /\ \A i \in AckAt : toBridge[i].kind = "ACCEPT" => toBridge[i].ref > 0
      /\ ~Busy => bAnnTx = 0
  BY DEF CountersBounded, WellFormed, TypeOK, LinkTypeOK
<1>3. Accepted => Agreed
  BY Zenon DEF Agreed
<1>4. CASE ByBridge
  <2>1. BridgeEffect /\ UNCHANGED <<rState, rFile, rInc, rBuf>>
    BY <1>4, Zenon DEF ByBridge, rVars
  <2>2. /\ Len(toRemote') >= Len(toRemote) /\ Len(toRemote') \in Nat
        /\ \A i \in FrameAt' :
              \/ i \in FrameAt /\ toRemote'[i] = toRemote[i]
              \/ i > Len(toRemote) /\ NewFrame(toRemote'[i])
    BY Zenon, <2>1, BridgeFrames
  <2>3. \A e : NewFrame(e) /\ e.kind = "DATA" => Accepted /\ e.file = bFile
    BY DEF NewFrame, Abort, End, DataFrames, Data, BlastComplete, Announce
  <2>4. \A e : NewFrame(e) /\ e.kind = "ANNOUNCE" =>
          /\ Announces /\ e.file = bFile' /\ e.tx = txCounter + 1 /\ bAnnTx' = txCounter + 1
          /\ Len(toRemote') = Len(toRemote) + 1
    BY DEF NewFrame, Abort, End, DataFrames, Data, BlastComplete, Announce
  <2>5. AcksLeft
    BY Zenon, <2>1, BridgeQueues
  <2>6. Announces => \/ bAnnTx' = txCounter + 1
                     \/ ~Busy /\ bAnnTx' = bAnnTx
                     \/ bState = "ANNOUNCING" /\ bAnnTx' = bAnnTx /\ bFile' = bFile
    BY Zenon DEF Announces
  <2>7. bState' = "ANNOUNCING" => \/ Announces
                                  \/ bState = "ANNOUNCING" /\ UNCHANGED <<bAnnTx, bFile, toRemote>>
    BY <2>1, Zenon DEF BridgeEffect, Ends, Announces, Blasts, IgnoresAck, Accepts, ActsOnGaps, ResendsEnd,
              TakesSourceChunk, Blasting
  <2>8. S1'
    <3> SUFFICES ASSUME bState' = "ANNOUNCING", NEW i \in FrameAt', toRemote'[i].kind = "ANNOUNCE",
                        toRemote'[i].tx = bAnnTx'
                 PROVE  i = Len(toRemote') /\ toRemote'[i].file = bFile'
      BY Zenon
    <3>1. CASE NewFrame(toRemote'[i]) /\ i > Len(toRemote)
      BY <1>2, <2>4, <3>1 DEF FrameAt
    <3>2. CASE i \in FrameAt /\ toRemote'[i] = toRemote[i]
      <4>1. toRemote[i].tx <= txCounter /\ toRemote[i].tx > 0
        BY Zenon, <1>2, <3>2
      <4>2. bState = "ANNOUNCING" /\ bAnnTx' = bAnnTx /\ bFile' = bFile
        BY <1>2, <2>6, <2>7, <3>2, <4>1
      <4>3. i = Len(toRemote) /\ toRemote[i].file = bFile
        BY Zenon, <1>1, <3>2, <4>2
      <4>4. Len(toRemote') = Len(toRemote)
        <5>1. CASE Announces
          BY <1>2, <4>1, <4>2, <3>2, <5>1 DEF Announces
        <5> QED
          BY Zenon, <2>7, <5>1
      <4> QED
        BY Zenon, <3>2, <4>2, <4>3, <4>4
    <3> QED
      BY Zenon, <2>2, <3>1, <3>2
  <2>9. S2'
    <3> SUFFICES ASSUME NEW i \in FrameAt', NEW j \in FrameAt', i < j, toRemote'[i].kind = "ANNOUNCE",
                        toRemote'[j].kind = "DATA"
                 PROVE  toRemote'[i].file = toRemote'[j].file
      BY Zenon
    <3>1. CASE j \in FrameAt /\ toRemote'[j] = toRemote[j]
      <4>1. i \in FrameAt /\ toRemote'[i] = toRemote[i]
        BY <1>2, <2>2, <3>1 DEF FrameAt
      <4> QED
        BY ZenonT(30), <1>1, <3>1, <4>1
    <3>2. CASE NewFrame(toRemote'[j])
      <4>1. Accepted /\ toRemote'[j].file = bFile
        BY Zenon, <2>3, <3>2
      <4>2. ~Announces
        BY <4>1, Zenon DEF Accepted, Blasting, Announces, Busy
      <4>3. i \in FrameAt /\ toRemote'[i] = toRemote[i]
        BY Zenon, <2>2, <2>4, <4>2
      <4> QED
        BY Zenon, <1>1, <1>3, <4>1, <4>3
    <3> QED
      BY Zenon, <2>2, <3>1, <3>2
  <2>10. S3'
    BY ZenonT(30), <1>1, <1>3, <2>1, <2>2, <2>3
  <2>11. Agreed' => Agreed /\ bFile' = bFile /\ \A i \in FrameAt' : toRemote'[i].kind = "ANNOUNCE" =>
                       toRemote'[i].file = bFile \/ (i \in FrameAt /\ toRemote'[i] = toRemote[i])
    <3> SUFFICES ASSUME Agreed'
                 PROVE  /\ Agreed /\ bFile' = bFile
                        /\ \A i \in FrameAt' : toRemote'[i].kind = "ANNOUNCE" =>
                             toRemote'[i].file = bFile \/ (i \in FrameAt /\ toRemote'[i] = toRemote[i])
      BY Zenon
    <3>1. ASSUME bState' = "ANNOUNCING", NEW i \in AckAt', toBridge'[i].kind = "ACCEPT", toBridge'[i].ref = bAnnTx'
          PROVE  Agreed /\ bFile' = bFile
      <4>1. PICK k \in AckAt : toBridge[k] = toBridge'[i]
        BY <2>5, Zenon DEF AcksLeft
      <4>2. toBridge[k].ref <= txCounter /\ toBridge[k].ref > 0
        BY ZenonT(30), <1>2, <3>1, <4>1
      <4>3. bState = "ANNOUNCING" /\ bAnnTx' = bAnnTx /\ bFile' = bFile
        BY SMTT(30), <1>2, <2>6, <2>7, <3>1, <4>1, <4>2
      <4> QED
        BY <3>1, <4>1, <4>3, Zenon DEF Agreed
    <3>2. CASE Accepted'
      <4>1. \/ Blasts \/ Accepts \/ ActsOnGaps \/ ResendsEnd \/ TakesSourceChunk \/ IgnoresAck
        BY <2>1, <3>2, Zenon DEF BridgeEffect, Ends, Announces, Accepted, Blasting
      <4>2. bFile' = bFile
        BY <4>1, Zenon DEF Blasts, Accepts, ActsOnGaps, ResendsEnd, TakesSourceChunk, IgnoresAck
      <4>3. Accepted \/ Accepts
        BY <3>2, <4>1, Zenon DEF Blasts, ActsOnGaps, ResendsEnd, TakesSourceChunk, IgnoresAck, Accepted, Blasting
      <4>4. Accepts => Agreed
        <5>1. toBridge \in Seq(Ack)
          BY Zenon DEF WellFormed, TypeOK, LinkTypeOK
        <5> QED
          BY <5>1, TailElements DEF Accepts, Agreed, AckIs, AckAt
      <4> QED
        BY ZenonT(30), <1>3, <4>2, <4>3, <4>4, <2>2, <2>4
    <3>3. Agreed /\ bFile' = bFile
      BY <3>1, <3>2, Zenon DEF Agreed
    <3> QED
      BY Zenon, <2>2, <2>4, <3>3
  <2>12. S4'
    BY Zenon, <1>1, <2>1, <2>11
  <2>13. S5'
    BY Zenon, <1>1, <2>11
  <2>14. S6'
    BY Zenon, <1>1, <2>1
  <2> QED
    BY <2>8, <2>9, <2>10, <2>12, <2>13, <2>14, ZenonT(30) DEF SameFile
<1>5. ASSUME FramesLeft, UNCHANGED <<txCounter, bVars>> PROVE S1' /\ S2'
  <2>1. UNCHANGED <<bState, bAnnTx, bFile>>
    BY <1>5, Zenon DEF bVars
  <2>2. PICK d \in 0 .. Len(toRemote) :
          /\ Len(toRemote') = Len(toRemote) - d
          /\ \A i \in FrameAt' : i + d \in FrameAt /\ toRemote'[i] = toRemote[i + d]
    BY <1>5, ZenonT(30) DEF FramesLeft
  <2>3. S1'
    BY <1>1, <1>2, <2>1, <2>2, SMTT(30) DEF FrameAt
  <2>4. S2'
    <3> SUFFICES ASSUME NEW i \in FrameAt', NEW j \in FrameAt', i < j, toRemote'[i].kind = "ANNOUNCE",
                        toRemote'[j].kind = "DATA"
                 PROVE  toRemote'[i].file = toRemote'[j].file
      BY Zenon
    <3>1. i + d \in FrameAt /\ j + d \in FrameAt /\ i + d < j + d
      BY <1>2, <2>2 DEF FrameAt
    <3> QED
      BY <1>1, <2>2, <3>1
  <2> QED
    BY Zenon, <2>3, <2>4
<1>6. CASE ByReceiver
  <2>1. ReceiverEffect /\ FramesLeft /\ UNCHANGED <<txCounter, bVars>> /\ UNCHANGED <<bState, bAnnTx, bFile>>
    BY <1>6, Zenon DEF ByReceiver, bVars
  <2>2. \A i \in FrameAt' : \E k \in FrameAt : toRemote'[i] = toRemote[k]
    BY <2>1, Zenon DEF FramesLeft
  <2>3. \A kind : FrameIs(kind) => 1 \in FrameAt /\ toRemote[1].kind = kind /\ Head(toRemote) = toRemote[1]
    BY Zenon, HeadTyped
  <2>4. \/ rState' = "IDLE"
        \/ rState # "IDLE" /\ rFile' = rFile
        \/ Begins
    BY <2>1, Zenon DEF ReceiverEffect, Quits, Holds, Keeps, Reaccepts, Stores, Storable, Clears, Writes, Finishes, Reports
  <2>5. S3'
    <3>1. CASE Begins
      <4>1. 1 \in FrameAt /\ toRemote[1].kind = "ANNOUNCE" /\ rFile' = toRemote[1].file
        BY <2>3, <3>1, ZenonT(30) DEF Begins
      <4>2. \A k \in FrameAt : toRemote[k].kind = "DATA" => toRemote[k].file = rFile'
        BY <1>1, <4>1 DEF FrameAt
      <4> QED
        BY ZenonT(30), <2>2, <4>2
    <3>2. CASE rState' = "IDLE"
      BY Zenon, <3>2
    <3>3. CASE rState # "IDLE" /\ rFile' = rFile
      <4>1. S3
        BY Zenon, <1>1
      <4> QED
        BY ZenonT(30), <2>2, <3>3, <4>1
    <3> QED
      BY ZenonT(30), <2>4, <3>1, <3>2, <3>3
  <2>6. Agreed' => \/ Agreed
                   \/ /\ Begins \/ Reaccepts
                      /\ bState = "ANNOUNCING" /\ 1 \in FrameAt
                      /\ toRemote[1].kind = "ANNOUNCE" /\ toRemote[1].tx = bAnnTx
    <3>1. CASE Accepted'
      BY <1>3, <2>1, <3>1, Zenon DEF Accepted, Blasting
    <3>2. ASSUME bState' = "ANNOUNCING", NEW i \in AckAt', toBridge'[i].kind = "ACCEPT", toBridge'[i].ref = bAnnTx'
          PROVE  \/ Agreed
                 \/ /\ Begins \/ Reaccepts
                    /\ bState = "ANNOUNCING" /\ 1 \in FrameAt
                    /\ toRemote[1].kind = "ANNOUNCE" /\ toRemote[1].tx = bAnnTx
      BY <2>1, <2>3, <3>2, ReceiverAcks, ZenonT(30) DEF Agreed
    <3> QED
      BY <3>1, <3>2, Zenon DEF Agreed
  <2>7. ASSUME Begins \/ Reaccepts, bState = "ANNOUNCING", 1 \in FrameAt,
               toRemote[1].kind = "ANNOUNCE", toRemote[1].tx = bAnnTx
        PROVE  S4' /\ S5'
    <3>1. 1 = Len(toRemote) /\ toRemote[1].file = bFile
      BY Zenon, <1>1, <2>7
    <3>2. \A k \in FrameAt : toRemote[k].file = bFile
      <4>1. FrameAt = 1 .. 1
        BY <3>1, Zenon DEF FrameAt
      <4>2. \A k \in 1 .. 1 : k = 1
        OBVIOUS
      <4> QED
        BY Zenon, <3>1, <4>1, <4>2
    <3>3. rFile' = bFile
      BY <2>3, <2>7, <3>1, ZenonT(30) DEF Begins, Reaccepts, Keeps
    <3> QED
      BY ZenonT(30), <2>1, <2>2, <3>2, <3>3
  <2>8. ASSUME Agreed PROVE S4' /\ S5'
    <3>1. \A i \in FrameAt' : toRemote'[i].kind = "ANNOUNCE" => toRemote'[i].file = bFile
      BY <1>1, <2>2, <2>8
    <3>2. rState' # "IDLE" => rFile' = bFile
      <4>1. Begins => rFile' = bFile
        BY <1>1, <2>3, <2>8, ZenonT(30) DEF Begins
      <4> QED
        BY ZenonT(30), <1>1, <2>4, <2>8, <4>1
    <3> QED
      BY ZenonT(30), <2>1, <3>1, <3>2
  <2>9. S4' /\ S5'
    BY ZenonT(30), <2>6, <2>7, <2>8
  <2>10. S6'
    <3>1. ASSUME rBuf' = EmptyBuffer PROVE S6'
      BY <3>1, Zenon DEF EmptyBuffer
    <3>2. CASE Stores
      <4>1. /\ 1 \in FrameAt /\ toRemote[1].kind = "DATA" /\ Head(toRemote) = toRemote[1] /\ rState # "IDLE"
            /\ rBuf \in [Slots -> ChunkOrNone]
        BY <2>3, <3>2, ZenonT(30) DEF Stores, Storable, WellFormed, TypeOK, ReceiverTypeOK
      <4>2. Head(toRemote).file = rFile
        BY ZenonT(30), <1>1, <4>1
      <4> DEFINE slot == Head(toRemote).num % RGeo(rFile).cpi
      <4>3. slot \in Nat /\ Head(toRemote).num = StartSeq(RGeo(rFile), rInc) + slot
        BY ZenonT(30), <3>2, <4>1, StoredSlot
      <4>4. /\ rBuf' = [rBuf EXCEPT ![slot] = Chunk(rFile, Head(toRemote).num)]
            /\ rFile' = rFile /\ rInc' = rInc
        BY <3>2, <4>2, ZenonT(30) DEF Stores
      <4> HIDE DEF slot
      <4>5. rBuf' = [rBuf EXCEPT ![slot] = Chunk(rFile, StartSeq(RGeo(rFile), rInc) + slot)]
        BY ZenonT(30), <4>3, <4>4
      <4> QED
        BY ZenonT(30), <1>1, <4>1, <4>4, <4>5
    <3> QED
      BY <1>1, <2>1, <3>1, <3>2, ZenonT(30) DEF ReceiverEffect, Quits, Holds, Begins, Keeps, Reaccepts, Clears, Writes, Finishes, Reports
  <2> QED
    BY <1>5, <2>1, <2>5, <2>9, <2>10, ZenonT(30) DEF SameFile
<1>7. CASE ByLink
  <2>1. UNCHANGED <<bState, bAnnTx, bFile, rState, rFile, rInc, rBuf>> /\ FramesLeft /\ AcksLeft
    BY <1>7, ZenonT(30) DEF ByLink, bVars, rVars
  <2>2. \A i \in FrameAt' : \E k \in FrameAt : toRemote'[i] = toRemote[k]
    BY <2>1, Zenon DEF FramesLeft
  <2>3. Agreed' => Agreed
    BY <2>1, ZenonT(30) DEF Agreed, AcksLeft, Accepted, Blasting
  <2>4. S3' /\ S4' /\ S5' /\ S6'
    BY SMTT(30), <1>1, <2>1, <2>2, <2>3
  <2>5. S1' /\ S2'
    BY <1>5, <1>7, Zenon DEF ByLink
  <2> QED
    BY <2>4, <2>5, ZenonT(30) DEF SameFile
<1> QED
  BY ZenonT(30), <1>4, <1>6, <1>7, StepCases

-----------------------------------------------------------------------------
(* Fourth layer: FlashIsPrefix and HeldByRemote, about the receiver alone.  *)

\* Two sequences written one behind the other, element by element.
LEMMA ConcatElements ==
  ASSUME NEW S, NEW p \in Seq(S), NEW q \in Seq(S)
  PROVE  /\ Len(p \o q) = Len(p) + Len(q)
         /\ \A i \in 1 .. Len(p) : (p \o q)[i] = p[i]
         /\ \A i \in 1 .. Len(q) : (p \o q)[Len(p) + i] = q[i]
OBVIOUS

\* Where an increment of a file begins and ends, seen from both sides.
LEMMA FileBounds ==
  ASSUME NEW f \in Files, NEW inc \in Nat, inc < BGeo(f).incs
  PROVE  /\ RGeo(f) = BGeo(f)
         /\ BGeo(f).incs \in Nat \ {0} /\ BGeo(f).chunks \in Nat
         /\ StartSeq(BGeo(f), inc) \in Nat /\ StartSeq(BGeo(f), 0) = 0
         /\ ChunksIn(BGeo(f), inc) \in Nat \ {0}
         /\ 0 .. ChunksIn(BGeo(f), inc) - 1 \subseteq Slots
         /\ Window(BGeo(f), inc) = StartSeq(BGeo(f), inc) .. (StartSeq(BGeo(f), inc) + ChunksIn(BGeo(f), inc) - 1)
         /\ inc + 1 < BGeo(f).incs => StartSeq(BGeo(f), inc + 1) = StartSeq(BGeo(f), inc) + ChunksIn(BGeo(f), inc)
         /\ inc + 1 = BGeo(f).incs => BGeo(f).chunks = StartSeq(BGeo(f), inc) + ChunksIn(BGeo(f), inc)
<1>1. RGeo(f) = BGeo(f) /\ SoundGeometry(BGeo(f))
  BY ZenonT(30), FileGeometry
<1>2. BGeo(f).incs \in Nat \ {0} /\ BGeo(f).chunks \in Nat
  BY <1>1, ZenonT(30) DEF SoundGeometry
<1>3. /\ StartSeq(BGeo(f), 0) = 0
      /\ inc + 1 < BGeo(f).incs => StartSeq(BGeo(f), inc + 1) = StartSeq(BGeo(f), inc) + ChunksIn(BGeo(f), inc)
      /\ inc + 1 = BGeo(f).incs => BGeo(f).chunks = StartSeq(BGeo(f), inc) + ChunksIn(BGeo(f), inc)
  BY ZenonT(30), <1>1, IncrementBounds
<1> QED
  BY ZenonT(30), <1>1, <1>2, <1>3, FileIncrement

\* The effect on the receiver's transfer of a step of any kind.
LEMMA ReceiverView ==
  ASSUME WellFormed, [Next]_vars
  PROVE  \/ rState' = "IDLE" /\ rBuffered' = rBuffered
         \/ Begins
         \/ Stores
         \/ Writes
         \/ Keeps /\ rState # "IDLE" /\ Written(rState') = Written(rState)
<1>1. CASE UNCHANGED rVars
  BY <1>1, ZenonT(30) DEF rVars, Keeps
<1>2. CASE ReceiverEffect
  BY <1>2, Zenon DEF ReceiverEffect, Quits, Holds, Reaccepts, Clears, Reports, Written
<1> QED
  BY <1>1, <1>2, StepCases, ZenonT(30) DEF ByBridge, ByReceiver, ByLink

\* The update partition stays a prefix of the file being received.
LEMMA StepFlash ==
  WellFormed /\ SameFile /\ FlashIsPrefix /\ [Next]_vars => FlashIsPrefix'
<1> SUFFICES ASSUME WellFormed, SameFile, FlashIsPrefix, [Next]_vars, rState' # "IDLE", ~rRewrote'
             PROVE  /\ \A i \in 1 .. Len(rFlash') : rFlash'[i] = Chunk(rFile', i - 1)
                    /\ Len(rFlash') = IF Written(rState')
                                      THEN RGeo(rFile').chunks
                                      ELSE StartSeq(RGeo(rFile'), rInc')
  BY Zenon DEF FlashIsPrefix, Written
<1>1. /\ rFlash \in Seq(ChunkOrNone) /\ rInc \in Nat /\ rBuf \in [Slots -> ChunkOrNone]
      /\ rState # "IDLE" => rFile \in Files /\ rInc < RGeo(rFile).incs
  BY Zenon DEF WellFormed, TypeOK, ReceiverTypeOK
<1>2. rState # "IDLE" /\ ~rRewrote =>
        /\ \A i \in 1 .. Len(rFlash) : rFlash[i] = Chunk(rFile, i - 1)
        /\ Len(rFlash) = IF Written(rState) THEN RGeo(rFile).chunks ELSE StartSeq(RGeo(rFile), rInc)
  BY ZenonT(30) DEF FlashIsPrefix, Written
<1>3. CASE Begins
  <2>1. Head(toRemote).file \in Files /\ rFile' = Head(toRemote).file
    BY <1>3, HeadTyped, ZenonT(30) DEF Begins
  <2>2. StartSeq(RGeo(rFile'), 0) = 0
    <3>1. 0 < BGeo(rFile').incs
      BY <2>1, FileGeometry, SMTT(30) DEF SoundGeometry
    <3> QED
      BY ZenonT(30), <2>1, <3>1, FileBounds
  <2> QED
    BY <1>3, <2>2, SMTT(30) DEF Begins, Written
<1>4. CASE Stores
  BY <1>2, <1>4, ZenonT(30) DEF Stores, Storable
<1>5. CASE Keeps /\ rState # "IDLE" /\ Written(rState') = Written(rState)
  BY <1>2, <1>5, ZenonT(30) DEF Keeps
<1>6. CASE Writes
  <2>1. rState = "RECEIVING" /\ BufferComplete /\ ~rRewrote /\ rFlash' = rFlash \o BufferedChunks /\ rFile' = rFile
    BY <1>6, ZenonT(30) DEF Writes, Finishes
  <2>2. PICK s \in Nat, n \in Nat \ {0} :
          /\ s = StartSeq(RGeo(rFile), rInc) /\ n = ChunksIn(RGeo(rFile), rInc)
          /\ 0 .. n - 1 \subseteq Slots
          /\ RGeo(rFile).incs \in Nat
          /\ rInc + 1 < RGeo(rFile).incs => StartSeq(RGeo(rFile), rInc + 1) = s + n
          /\ rInc + 1 = RGeo(rFile).incs => RGeo(rFile).chunks = s + n
    <3>1. rFile \in Files /\ rInc < RGeo(rFile).incs /\ RGeo(rFile) = BGeo(rFile)
      BY ZenonT(30), <1>1, <2>1, FileGeometry
    <3>2. /\ StartSeq(RGeo(rFile), rInc) \in Nat /\ ChunksIn(RGeo(rFile), rInc) \in Nat \ {0}
          /\ 0 .. ChunksIn(RGeo(rFile), rInc) - 1 \subseteq Slots
          /\ RGeo(rFile).incs \in Nat
          /\ rInc + 1 < RGeo(rFile).incs =>
               StartSeq(RGeo(rFile), rInc + 1) = StartSeq(RGeo(rFile), rInc) + ChunksIn(RGeo(rFile), rInc)
          /\ rInc + 1 = RGeo(rFile).incs =>
               RGeo(rFile).chunks = StartSeq(RGeo(rFile), rInc) + ChunksIn(RGeo(rFile), rInc)
      BY ZenonT(30), <1>1, <3>1, FileBounds
    <3> QED
      BY Zenon, <3>2
  <2>3. /\ BufferedChunks \in Seq(ChunkOrNone) /\ Len(BufferedChunks) = n
        /\ \A i \in 1 .. n : i - 1 \in Slots /\ BufferedChunks[i] = rBuf[i - 1]
    BY ZenonT(30), <2>1, <2>2, BufferTyped
  <2>4. \A i \in 1 .. n : rBuf[i - 1] = Chunk(rFile, s + i - 1)
    <3> SUFFICES ASSUME NEW i \in 1 .. n PROVE rBuf[i - 1] = Chunk(rFile, s + i - 1)
      BY ZenonT(30)
    <3>1. i - 1 \in 0 .. n - 1 /\ i - 1 \in Slots /\ s + (i - 1) = s + i - 1
      BY SMTT(30), <2>2, <2>3
    <3>2. rBuf[i - 1] # NoChunk
      BY <2>1, <2>2, <3>1, ZenonT(30) DEF BufferComplete
    <3>3. rBuf[i - 1] \in {NoChunk, Chunk(rFile, s + (i - 1))}
      BY <2>1, <2>2, <3>1, ZenonT(30) DEF SameFile
    <3> QED
      BY ZenonT(30), <3>1, <3>2, <3>3
  <2>5. Len(rFlash) = s /\ \A i \in 1 .. s : rFlash[i] = Chunk(rFile, i - 1)
    BY <1>2, <2>1, <2>2, ZenonT(30) DEF Written
  <2>6. /\ Len(rFlash') = s + n
        /\ \A i \in 1 .. s : rFlash'[i] = rFlash[i]
        /\ \A i \in 1 .. n : rFlash'[s + i] = BufferedChunks[i]
    <3> DEFINE p == rFlash
               q == BufferedChunks
               T == ChunkOrNone
    <3>1. p \in Seq(T) /\ q \in Seq(T) /\ Len(p) = s /\ Len(q) = n
          /\ rFlash' = p \o q
      BY ZenonT(30), <1>1, <2>1, <2>3, <2>5
    <3> HIDE DEF p, q, T
    <3>2. /\ Len(p \o q) = s + n
          /\ \A i \in 1 .. s : (p \o q)[i] = p[i]
          /\ \A i \in 1 .. n : (p \o q)[s + i] = q[i]
      <4>1. /\ Len(p \o q) = Len(p) + Len(q)
            /\ \A i \in 1 .. Len(p) : (p \o q)[i] = p[i]
            /\ \A i \in 1 .. Len(q) : (p \o q)[Len(p) + i] = q[i]
        <5>1. p \in Seq(T) /\ q \in Seq(T)
          BY ZenonT(30), <3>1
        <5> HIDE <3>1
        <5> QED
          BY SMTT(30), <5>1, ConcatElements
      <4>2. Len(p) = s /\ Len(q) = n
        BY ZenonT(30), <3>1
      <4> QED
        BY ZenonT(30), <4>1, <4>2
    <3> QED
      BY <3>1, <3>2, ZenonT(30) DEF p, q
  <2>7. \A i \in 1 .. s + n : rFlash'[i] = Chunk(rFile, i - 1)
    <3> SUFFICES ASSUME NEW i \in 1 .. s + n PROVE rFlash'[i] = Chunk(rFile, i - 1)
      BY ZenonT(30)
    <3>1. CASE i \in 1 .. s
      BY ZenonT(30), <2>5, <2>6, <3>1
    <3>2. CASE i - s \in 1 .. n
      <4>1. PICK j \in 1 .. n : j = i - s
        BY ZenonT(30), <3>2
      <4>2. rFlash'[s + j] = Chunk(rFile, s + j - 1)
        BY ZenonT(30), <2>3, <2>4, <2>6
      <4> QED
        BY SMTT(30), <2>2, <4>1, <4>2
    <3> QED
      BY SMTT(30), <2>2, <3>1, <3>2
  <2>8. CASE rInc + 1 >= RGeo(rFile).incs
    <3>1. Written(rState') /\ rInc + 1 = RGeo(rFile).incs
      BY <1>1, <1>6, <2>1, <2>2, <2>8, SMTT(30) DEF Writes, Written
    <3> QED
      BY ZenonT(30), <2>1, <2>2, <2>6, <2>7, <3>1
  <2>9. CASE ~(rInc + 1 >= RGeo(rFile).incs)
    <3>1. ~Written(rState') /\ rInc + 1 < RGeo(rFile).incs /\ rInc' = rInc + 1
      BY <1>1, <1>6, <2>1, <2>2, <2>9, SMTT(30) DEF Writes, Written
    <3> QED
      BY ZenonT(30), <2>1, <2>2, <2>6, <2>7, <3>1
  <2> QED
    BY ZenonT(30), <2>8, <2>9
<1> QED
  BY ZenonT(30), <1>3, <1>4, <1>5, <1>6, ReceiverView

\* Nothing the remote has held is forgotten.
LEMMA BufferedGrows ==
  ASSUME WellFormed, [Next]_vars
  PROVE  rBuffered \subseteq rBuffered'
  BY ReceiverView, ZenonT(30) DEF Begins, Stores, Writes, Keeps

\* Written and buffered chunks have been held.
LEMMA StepHeld ==
  WellFormed /\ SameFile /\ HeldByRemote /\ [Next]_vars => HeldByRemote'
<1> SUFFICES ASSUME WellFormed, SameFile, HeldByRemote, [Next]_vars, rState' # "IDLE"
             PROVE  /\ \A seq \in 0 .. StartSeq(RGeo(rFile'), rInc') - 1 : Chunk(rFile', seq) \in rBuffered'
                    /\ \A k \in 0 .. ChunksIn(RGeo(rFile'), rInc') - 1 :
                         rBuf'[k] # NoChunk => Chunk(rFile', StartSeq(RGeo(rFile'), rInc') + k) \in rBuffered'
  BY Zenon DEF HeldByRemote
<1>1. /\ rInc \in Nat /\ rBuf \in [Slots -> ChunkOrNone]
      /\ rState # "IDLE" => rFile \in Files /\ rInc < RGeo(rFile).incs
  BY Zenon DEF WellFormed, TypeOK, ReceiverTypeOK
<1>2. rState # "IDLE" =>
        /\ \A seq \in 0 .. StartSeq(RGeo(rFile), rInc) - 1 : Chunk(rFile, seq) \in rBuffered
        /\ \A k \in 0 .. ChunksIn(RGeo(rFile), rInc) - 1 :
             rBuf[k] # NoChunk => Chunk(rFile, StartSeq(RGeo(rFile), rInc) + k) \in rBuffered
  BY ZenonT(30) DEF HeldByRemote
<1>3. rBuffered \subseteq rBuffered'
  BY ZenonT(30), BufferedGrows
<1>4. CASE Begins
  <2>1. Head(toRemote).file \in Files /\ rFile' = Head(toRemote).file /\ rInc' = 0 /\ rBuf' = EmptyBuffer
    BY <1>4, HeadTyped, ZenonT(30) DEF Begins
  <2>2. 0 < BGeo(rFile').incs
    BY <2>1, FileGeometry, SMTT(30) DEF SoundGeometry
  <2>3. /\ StartSeq(RGeo(rFile'), 0) = 0
        /\ 0 .. ChunksIn(RGeo(rFile'), 0) - 1 \subseteq Slots
    BY ZenonT(30), <2>1, <2>2, FileBounds
  <2> QED
    BY <2>1, <2>3, SMTT(30) DEF EmptyBuffer
<1>5. CASE Keeps /\ rState # "IDLE"
  BY <1>2, <1>5, ZenonT(30) DEF Keeps
<1>6. CASE Stores
  <2> DEFINE seq == Head(toRemote).num
             slot == seq % RGeo(rFile).cpi
  <2>1. rState = "RECEIVING" /\ FrameIs("DATA") /\ rFile' = rFile /\ rInc' = rInc
    BY <1>6, ZenonT(30) DEF Stores, Storable
  <2>2. rFile \in Files /\ rInc < RGeo(rFile).incs /\ RGeo(rFile) = BGeo(rFile)
    BY ZenonT(30), <1>1, <2>1, FileGeometry
  <2>3. Head(toRemote).file = rFile
    <3>1. 1 \in FrameAt /\ toRemote[1].kind = "DATA" /\ Head(toRemote) = toRemote[1]
      BY ZenonT(30), <2>1, HeadTyped
    <3>2. \A i \in FrameAt : toRemote[i].kind = "DATA" /\ rState # "IDLE" => toRemote[i].file = rFile
      BY ZenonT(30) DEF SameFile
    <3> QED
      BY ZenonT(30), <2>1, <3>1, <3>2
  <2>4. slot \in 0 .. ChunksIn(RGeo(rFile), rInc) - 1 /\ StartSeq(RGeo(rFile), rInc) + slot = seq
    BY ZenonT(30), <1>6, StoredSlot
  <2>5. 0 .. ChunksIn(RGeo(rFile), rInc) - 1 \subseteq Slots
    BY ZenonT(30), <1>1, <2>2, FileBounds
  <2>6. rBuf' = [rBuf EXCEPT ![slot] = Chunk(rFile, seq)] /\ Chunk(rFile, seq) \in rBuffered'
    BY <1>6, <2>3, ZenonT(30) DEF Stores
  <2>7. \A k \in 0 .. ChunksIn(RGeo(rFile), rInc) - 1 : k # slot => rBuf'[k] = rBuf[k]
    BY ZenonT(30), <1>1, <2>5, <2>6
  <2>8. rState # "IDLE"
    BY ZenonT(30), <2>1
  <2>9. \A k \in 0 .. ChunksIn(RGeo(rFile), rInc) - 1 :
          rBuf'[k] # NoChunk => Chunk(rFile, StartSeq(RGeo(rFile), rInc) + k) \in rBuffered'
    <3> SUFFICES ASSUME NEW k \in 0 .. ChunksIn(RGeo(rFile), rInc) - 1, rBuf'[k] # NoChunk
                 PROVE  Chunk(rFile, StartSeq(RGeo(rFile), rInc) + k) \in rBuffered'
      BY ZenonT(30)
    <3>1. CASE k = slot
      BY ZenonT(30), <2>4, <2>6, <3>1
    <3>2. CASE k # slot
      BY ZenonT(30), <1>2, <1>3, <2>7, <2>8, <3>2
    <3> QED
      BY ZenonT(30), <3>1, <3>2
  <2> QED
    BY ZenonT(30), <1>2, <1>3, <2>1, <2>8, <2>9
<1>7. CASE Writes
  <2>1. rState = "RECEIVING" /\ BufferComplete /\ rFile' = rFile /\ rBuffered' = rBuffered
    BY <1>7, ZenonT(30) DEF Writes, Finishes
  <2>2. rFile \in Files /\ rInc < RGeo(rFile).incs /\ RGeo(rFile) = BGeo(rFile)
    BY ZenonT(30), <1>1, <2>1, FileGeometry
  <2>3. PICK s \in Nat, n \in Nat \ {0} :
          /\ s = StartSeq(RGeo(rFile), rInc) /\ n = ChunksIn(RGeo(rFile), rInc)
          /\ RGeo(rFile).incs \in Nat
          /\ rInc + 1 < RGeo(rFile).incs => StartSeq(RGeo(rFile), rInc + 1) = s + n
    BY SMTT(30), <1>1, <2>2, FileBounds
  <2>4. CASE rInc + 1 >= RGeo(rFile).incs
    BY <1>2, <1>7, <2>1, <2>4, ZenonT(30) DEF Writes
  <2>5. CASE ~(rInc + 1 >= RGeo(rFile).incs)
    <3>1. rInc' = rInc + 1 /\ rBuf' = EmptyBuffer /\ rInc + 1 < RGeo(rFile).incs /\ rInc + 1 \in Nat
      BY <1>1, <1>7, <2>3, <2>5, SMTT(30) DEF Writes
    <3>2. 0 .. ChunksIn(RGeo(rFile), rInc + 1) - 1 \subseteq Slots
      BY ZenonT(30), <2>2, <3>1, FileBounds
    <3>3. \A k \in 0 .. n - 1 : Chunk(rFile, s + k) \in rBuffered
      BY <1>2, <2>1, <2>3, ZenonT(30) DEF BufferComplete
    <3>4. \A seq \in 0 .. s + n - 1 : Chunk(rFile, seq) \in rBuffered
      <4> SUFFICES ASSUME NEW seq \in 0 .. s + n - 1 PROVE Chunk(rFile, seq) \in rBuffered
        BY Zenon
      <4>1. CASE seq \in 0 .. s - 1
        BY ZenonT(30), <1>2, <2>1, <2>3, <4>1
      <4>2. CASE seq - s \in 0 .. n - 1
        <5>1. PICK k \in 0 .. n - 1 : k = seq - s
          BY ZenonT(30), <4>2
        <5>2. seq = s + k
          BY SMTT(30), <2>3, <5>1
        <5> QED
          BY ZenonT(30), <3>3, <5>2
      <4> QED
        BY SMTT(30), <2>3, <4>1, <4>2
    <3> QED
      BY <2>1, <2>3, <3>1, <3>2, <3>4, SMTT(30) DEF EmptyBuffer
  <2> QED
    BY ZenonT(30), <2>4, <2>5
<1> QED
  BY ZenonT(30), <1>4, <1>5, <1>6, <1>7, ReceiverView

-----------------------------------------------------------------------------
(* Fifth layer: GapsAreCurrent.                                             *)

\* A GAPS ack tells the truth about the bridge's increment.
Truthful(ack) ==
  IF ack.ok
  THEN \A seq \in Window(BGeo(bFile), bInc) : Chunk(bFile, seq) \in rBuffered
  ELSE ~(0 .. ChunksIn(BGeo(bFile), bInc) - 1 \subseteq ack.got)

\* What the receiver answers to a BLAST_COMPLETE the bridge remembers.
LEMMA AnswersTruthful ==
  ASSUME WellFormed, SameFile, HeldByRemote, Accepted, rState = "RECEIVING",
         bInc < BGeo(bFile).incs, NEW ack,
         \/ bInc < rInc /\ ack.ok
         \/ bInc = rInc /\ BufferComplete /\ ack.ok
         \/ bInc = rInc /\ ~BufferComplete /\ ~ack.ok /\ ack.got = ReceivedBits
  PROVE  Truthful(ack)
<1>1. /\ bFile \in Files /\ bInc \in Nat /\ rFile = bFile /\ rInc \in Nat /\ rInc < RGeo(bFile).incs
      /\ RGeo(bFile) = BGeo(bFile) /\ SoundGeometry(BGeo(bFile))
  <2>1. rFile \in Files /\ rInc < RGeo(rFile).incs /\ rInc \in Nat /\ bInc \in Nat
    BY Zenon DEF WellFormed, TypeOK, ReceiverTypeOK, BridgeTypeOK
  <2>2. rFile = bFile
    BY Zenon DEF SameFile, Agreed
  <2> QED
    BY ZenonT(30), <2>1, <2>2, FileGeometry
<1>2. /\ \A seq \in 0 .. StartSeq(BGeo(bFile), rInc) - 1 : Chunk(bFile, seq) \in rBuffered
      /\ \A k \in 0 .. ChunksIn(BGeo(bFile), rInc) - 1 :
           rBuf[k] # NoChunk => Chunk(bFile, StartSeq(BGeo(bFile), rInc) + k) \in rBuffered
  BY <1>1, ZenonT(30) DEF HeldByRemote
<1>3. PICK s \in Nat, n \in Nat \ {0} :
        s = StartSeq(BGeo(bFile), bInc) /\ n = ChunksIn(BGeo(bFile), bInc)
        /\ Window(BGeo(bFile), bInc) = s .. s + n - 1
  BY <1>1, FileBounds
<1>4. CASE bInc < rInc /\ ack.ok
  <2>1. EndSeq(BGeo(bFile), bInc) <= StartSeq(BGeo(bFile), rInc)
    BY ZenonT(30), <1>1, <1>4, IncrementsOrdered
  <2>2. EndSeq(BGeo(bFile), bInc) = s + n /\ StartSeq(BGeo(bFile), rInc) \in Nat
    BY ZenonT(30), <1>1, <1>3, IncrementBounds
  <2>3. s .. s + n - 1 \subseteq 0 .. StartSeq(BGeo(bFile), rInc) - 1
    BY SMTT(30), <1>3, <2>1, <2>2
  <2> QED
    BY <1>2, <1>3, <1>4, <2>3, ZenonT(30) DEF Truthful
<1>5. CASE bInc = rInc /\ BufferComplete /\ ack.ok
  <2>1. \A k \in 0 .. n - 1 : Chunk(bFile, s + k) \in rBuffered
    BY <1>1, <1>2, <1>3, <1>5, ZenonT(30) DEF BufferComplete
  <2>2. \A seq \in s .. s + n - 1 : Chunk(bFile, seq) \in rBuffered
    <3> SUFFICES ASSUME NEW seq \in s .. s + n - 1 PROVE Chunk(bFile, seq) \in rBuffered
      BY ZenonT(30)
    <3>1. PICK k \in 0 .. n - 1 : k = seq - s
      BY SMTT(30), <1>3
    <3>2. seq = s + k
      BY SMTT(30), <1>3, <3>1
    <3> QED
      BY ZenonT(30), <2>1, <3>2
  <2> QED
    BY <1>3, <1>5, <2>2, ZenonT(30) DEF Truthful
<1>6. CASE bInc = rInc /\ ~BufferComplete /\ ~ack.ok /\ ack.got = ReceivedBits
  BY <1>1, <1>6, ZenonT(30) DEF BufferComplete, ReceivedBits, Truthful
<1> QED
  BY ZenonT(30), <1>4, <1>5, <1>6

\* The bridge acts on answers about its current increment only.
LEMMA StepGaps ==
  IndInv /\ [Next]_vars => GapsAreCurrent'
<1> SUFFICES ASSUME WellFormed, CountersBounded, SameFile, HeldByRemote, GapsAreCurrent, [Next]_vars
             PROVE  GapsAreCurrent'
  BY Zenon DEF IndInv
<1> DEFINE G1 == Accepted => bInc < BGeo(bFile).incs
           G2 == \A i \in FrameAt :
                   toRemote[i].kind = "BLAST_COMPLETE" /\ toRemote[i].tx \in bHist => toRemote[i].num = bInc
           G3 == \A i \in AckAt :
                   toBridge[i].kind = "GAPS" /\ toBridge[i].ref \in bHist => Truthful(toBridge[i])
<1>1. G1 /\ G2 /\ G3 /\ NoFalseAdvance
  BY ZenonT(30) DEF GapsAreCurrent, Truthful
<1>2. SUFFICES G1' /\ G2' /\ G3' /\ NoFalseAdvance'
  BY Zenon DEF GapsAreCurrent, Truthful
<1>3. rBuffered \subseteq rBuffered'
  BY ZenonT(30), BufferedGrows
<1>4. /\ txCounter \in Nat /\ bInc \in Nat
      /\ \A i \in FrameAt : toRemote[i].tx <= txCounter
      /\ \A i \in AckAt : toBridge[i].ref <= txCounter
      /\ bHist # {} => Accepted
      /\ bState # "IDLE" => bFile \in Files
  BY ZenonT(30) DEF CountersBounded, WellFormed, TypeOK, LinkTypeOK, BridgeTypeOK, Busy
<1>5. ASSUME UNCHANGED <<bFile, bInc>>, NEW ack, Truthful(ack) PROVE Truthful(ack)'
  BY <1>3, <1>5, ZenonT(30) DEF Truthful
<1>6. ASSUME UNCHANGED <<bState, bFile, bInc>> PROVE G1' /\ NoFalseAdvance'
  BY <1>1, <1>3, <1>6, ZenonT(30) DEF NoFalseAdvance, Accepted, Blasting, Before
<1>7. CASE ByBridge
  <2>1. BridgeEffect /\ AcksLeft
    BY <1>7, BridgeQueues, ZenonT(30) DEF ByBridge
  <2>2. \A i \in FrameAt' : \/ i \in FrameAt /\ toRemote'[i] = toRemote[i]
                            \/ NewFrame(toRemote'[i])
    BY ZenonT(30), <2>1, BridgeFrames
  <2>3. \A e : NewFrame(e) /\ e.kind = "BLAST_COMPLETE" => Blasts /\ e.num = bInc
    BY DEF NewFrame, Abort, End, DataFrames, Data, BlastComplete, Announce
  <2>4. ASSUME bHist' = {} PROVE G2' /\ G3'
    BY ZenonT(30), <2>4
  <2>5. ASSUME bHist' \subseteq bHist, UNCHANGED <<bFile, bInc>> PROVE G2' /\ G3'
    BY <1>1, <1>5, <2>1, <2>2, <2>3, <2>5, ZenonT(30) DEF AcksLeft
  <2>6. CASE Ends
    BY <2>4, <2>6, ZenonT(30) DEF Ends, NoFalseAdvance, Accepted, Blasting
  <2>7. CASE Announces
    <3>1. bHist' = {}
      BY <1>4, <2>7, ZenonT(30) DEF Announces, Busy, Accepted, Blasting
    <3> QED
      BY <2>4, <2>7, <3>1, ZenonT(30) DEF Announces, NoFalseAdvance, Accepted, Blasting
  <2>8. CASE Blasts
    <3>1. G1' /\ NoFalseAdvance'
      BY <1>1, <1>3, <2>8, ZenonT(30) DEF Blasts, NoFalseAdvance, Accepted, Blasting, Before
    <3>2. UNCHANGED <<bFile, bInc>> /\ (bHist' \subseteq bHist \/ bHist' \subseteq bHist \cup {txCounter + 1})
      BY <2>8, ZenonT(30) DEF Blasts
    <3>3. \A t \in bHist' : t <= txCounter => t \in bHist
      BY SMTT(30), <1>4, <3>2
    <3>4. G2'
      BY ZenonT(30), <1>1, <1>4, <2>2, <2>3, <3>2, <3>3
    <3>5. G3'
      BY <1>1, <1>4, <1>5, <2>1, <3>2, <3>3, ZenonT(30) DEF AcksLeft
    <3> QED
      BY ZenonT(30), <3>1, <3>4, <3>5
  <2>9. CASE IgnoresAck
    BY <1>6, <2>5, <2>9, ZenonT(30) DEF IgnoresAck
  <2>10. CASE Accepts
    <3>1. bInc' = 0 /\ bFile' = bFile /\ bFile \in Files /\ bState' = "BLASTING"
      BY <1>4, <2>10, ZenonT(30) DEF Accepts
    <3>2. 0 < BGeo(bFile).incs
      BY <3>1, FileGeometry, SMTT(30) DEF SoundGeometry
    <3>3. StartSeq(BGeo(bFile), 0) = 0
      BY ZenonT(30), <3>1, <3>2, FileBounds
    <3>4. NoFalseAdvance'
      BY <3>1, <3>3, SMTT(30) DEF NoFalseAdvance, Before
    <3> QED
      BY <2>4, <2>10, <3>1, <3>2, <3>4, ZenonT(30) DEF Accepts
  <2>11. CASE ActsOnGaps
    <3> DEFINE ack == Head(toBridge)
    <3>1. ack = toBridge[1] /\ 1 \in AckAt /\ ack.kind = "GAPS" /\ ack.ref \in bHist /\ Truthful(ack)
      <4>1. toBridge \in Seq(Ack)
        BY Zenon DEF WellFormed, TypeOK, LinkTypeOK
      <4> QED
        BY <1>1, <2>11, <4>1, TailElements, ZenonT(30) DEF ActsOnGaps, AckIs, AckAt
    <3>2. bFile \in Files /\ bFile' = bFile /\ bState = "WAITING_GAPS" /\ bInc < BGeo(bFile).incs
      BY <1>1, <1>4, <2>11, ZenonT(30) DEF ActsOnGaps, Accepted, Blasting
    <3>3. PICK s \in Nat, n \in Nat \ {0} :
            /\ s = StartSeq(BGeo(bFile), bInc) /\ n = ChunksIn(BGeo(bFile), bInc)
            /\ Window(BGeo(bFile), bInc) = s .. s + n - 1
            /\ BGeo(bFile).incs \in Nat
            /\ bInc + 1 < BGeo(bFile).incs => StartSeq(BGeo(bFile), bInc + 1) = s + n
            /\ bInc + 1 = BGeo(bFile).incs => BGeo(bFile).chunks = s + n
      <4>1. /\ StartSeq(BGeo(bFile), bInc) \in Nat /\ ChunksIn(BGeo(bFile), bInc) \in Nat \ {0}
            /\ Window(BGeo(bFile), bInc) = StartSeq(BGeo(bFile), bInc) .. (StartSeq(BGeo(bFile), bInc) + ChunksIn(BGeo(bFile), bInc) - 1)
            /\ BGeo(bFile).incs \in Nat
            /\ bInc + 1 < BGeo(bFile).incs => StartSeq(BGeo(bFile), bInc + 1) = StartSeq(BGeo(bFile), bInc) + ChunksIn(BGeo(bFile), bInc)
            /\ bInc + 1 = BGeo(bFile).incs => BGeo(bFile).chunks = StartSeq(BGeo(bFile), bInc) + ChunksIn(BGeo(bFile), bInc)
        BY ZenonT(30), <1>4, <3>2, FileBounds
      <4> QED
        BY ZenonT(30), <4>1
    <3>4. ASSUME ack.ok PROVE \A seq \in 0 .. s + n - 1 : Chunk(bFile, seq) \in rBuffered'
      <4>1. \A seq \in s .. s + n - 1 : Chunk(bFile, seq) \in rBuffered
        BY <3>1, <3>3, <3>4, ZenonT(30) DEF Truthful
      <4>2. \A seq \in 0 .. s - 1 : Chunk(bFile, seq) \in rBuffered
        BY <1>1, <3>2, <3>3, ZenonT(30) DEF NoFalseAdvance, Blasting, Before
      <4> QED
        BY SMTT(30), <1>3, <3>3, <4>1, <4>2
    <3>5. CASE /\ ack.ok /\ bInc + 1 < BGeo(bFile).incs
               /\ bState' = "BLASTING" /\ bInc' = bInc + 1 /\ bHist' = {}
      <4>1. NoFalseAdvance'
        BY <3>2, <3>3, <3>4, <3>5, SMTT(30) DEF NoFalseAdvance, Before
      <4> QED
        BY ZenonT(30), <2>4, <3>2, <3>5, <4>1
    <3>6. CASE /\ ack.ok /\ bInc + 1 >= BGeo(bFile).incs
               /\ bState' = "ENDING" /\ UNCHANGED <<bInc, bHist>>
      <4>1. BGeo(bFile).chunks = s + n
        BY SMTT(30), <1>4, <3>2, <3>3, <3>6
      <4>2. NoFalseAdvance'
        BY <3>2, <3>4, <3>6, <4>1, SMTT(30) DEF NoFalseAdvance, Blasting
      <4> QED
        BY ZenonT(30), <2>5, <3>2, <3>6, <4>2
    <3>7. CASE bState' = "BLASTING" /\ bHist' = {} /\ UNCHANGED bInc
      <4>1. NoFalseAdvance' /\ G1'
        BY <1>1, <1>3, <3>2, <3>7, ZenonT(30) DEF NoFalseAdvance, Blasting, Before
      <4> QED
        BY ZenonT(30), <2>4, <3>7, <4>1
    <3>8. ~(~ack.ok /\ 0 .. ChunksIn(BGeo(bFile), bInc) - 1 \subseteq ack.got)
      BY <3>1, ZenonT(30) DEF Truthful
    <3> QED
      BY <2>11, <3>5, <3>6, <3>7, <3>8, ZenonT(30) DEF ActsOnGaps
  <2>12. CASE ResendsEnd \/ TakesSourceChunk
    BY <1>6, <2>5, <2>12, ZenonT(30) DEF ResendsEnd, TakesSourceChunk
  <2> QED
    BY <2>1, <2>6, <2>7, <2>8, <2>9, <2>10, <2>11, <2>12, ZenonT(30) DEF BridgeEffect
<1>8. CASE ByReceiver
  <2>1. ReceiverEffect /\ FramesLeft /\ UNCHANGED <<bState, bFile, bInc, bHist>>
    BY <1>8, ZenonT(30) DEF ByReceiver, bVars, trackerVars
  <2>2. G2'
    BY <1>1, <2>1, ZenonT(30) DEF FramesLeft
  <2>3. G3'
    <3> SUFFICES ASSUME NEW i \in AckAt', toBridge'[i].kind = "GAPS", toBridge'[i].ref \in bHist
                 PROVE  Truthful(toBridge'[i])
      BY <1>3, <2>1, ZenonT(30) DEF Truthful
    <3>1. CASE \E k \in AckAt : toBridge'[i] = toBridge[k]
      BY ZenonT(30), <1>1, <3>1
    <3>2. CASE /\ FrameIs("BLAST_COMPLETE") /\ toBridge'[i].ref = toRemote[1].tx
               /\ \/ Finishes /\ toBridge'[i].ok
                  \/ Clears /\ toBridge'[i].ok
                  \/ Reports /\ ~toBridge'[i].ok /\ toBridge'[i].got = ReceivedBits
      <4>1. /\ 1 \in FrameAt /\ toRemote[1].kind = "BLAST_COMPLETE" /\ toRemote[1].tx \in bHist
            /\ Head(toRemote) = toRemote[1]
        BY ZenonT(30), <3>2, HeadTyped
      <4>2. toRemote[1].num = bInc /\ Accepted /\ bInc < BGeo(bFile).incs
        BY ZenonT(30), <1>1, <1>4, <4>1
      <4>3. PICK ack : ack = toBridge'[i]
        BY Zenon
      <4>4. /\ rState = "RECEIVING"
            /\ \/ bInc < rInc /\ ack.ok
               \/ bInc = rInc /\ BufferComplete /\ ack.ok
               \/ bInc = rInc /\ ~BufferComplete /\ ~ack.ok /\ ack.got = ReceivedBits
        BY <3>2, <4>1, <4>2, <4>3, ZenonT(30) DEF Finishes, Clears, Reports
      <4>5. Truthful(ack)
        BY ZenonT(30), <4>2, <4>4, AnswersTruthful
      <4> QED
        BY ZenonT(30), <4>3, <4>5
    <3> QED
      BY ZenonT(30), <2>1, <3>1, <3>2, ReceiverAcks
  <2> QED
    BY ZenonT(30), <1>6, <2>1, <2>2, <2>3
<1>9. CASE ByLink
  <2>1. FramesLeft /\ AcksLeft /\ UNCHANGED <<bState, bFile, bInc, bHist>>
    BY <1>9, ZenonT(30) DEF ByLink, bVars, trackerVars
  <2>2. G2'
    BY <1>1, <2>1, ZenonT(30) DEF FramesLeft
  <2>3. G3'
    BY <1>1, <1>5, <2>1, ZenonT(30) DEF AcksLeft
  <2> QED
    BY ZenonT(30), <1>6, <2>1, <2>2, <2>3
<1> QED
  BY ZenonT(30), <1>7, <1>8, <1>9, StepCases

-----------------------------------------------------------------------------
(* The theorems.                                                            *)

\* Both machines start with no transfer, so IndInv holds.
LEMMA InitIndInv == Init => IndInv
<1> SUFFICES ASSUME Init PROVE IndInv
  BY Zenon
<1>1. WellFormed
  BY ZenonT(30), InitWellFormed
<1>2. /\ toRemote = << >> /\ toBridge = << >> /\ txCounter = 0 /\ FrameAt = {} /\ AckAt = {}
      /\ bState = "IDLE" /\ bHist = {} /\ bAnnTx = 0 /\ rState = "IDLE"
  BY DEF Init, LinkInit, BridgeInit, ReceiverInit, FrameAt, AckAt
<1>3. ~Accepted /\ ~Blasting /\ ~Agreed
  BY <1>2, ZenonT(30) DEF Accepted, Blasting, Agreed
<1>4. CountersBounded
  BY <1>2 DEF CountersBounded
<1>5. SameFile
  BY <1>2, <1>3, ZenonT(30) DEF SameFile
<1>6. FlashIsPrefix /\ HeldByRemote
  BY <1>2, ZenonT(30) DEF FlashIsPrefix, HeldByRemote
<1>7. GapsAreCurrent
  BY <1>2, <1>3, ZenonT(30) DEF GapsAreCurrent, NoFalseAdvance
<1> QED
  BY <1>1, <1>4, <1>5, <1>6, <1>7, ZenonT(30) DEF IndInv

\* Every step of the bridge, the receiver or the link keeps IndInv.
LEMMA StepIndInv == IndInv /\ [Next]_vars => IndInv'
  BY StepWellFormed, StepCounters, StepSameFile, StepFlash, StepHeld, StepGaps, ZenonT(30) DEF IndInv

\* IndInv holds in every reachable state.
THEOREM Invariance == Spec => []IndInv
  BY InitIndInv, StepIndInv, PTL DEF Spec

\* handle_gaps_ack_ leaves an increment behind only when the receiver has held
\* all of it, whatever is lost, repeated, reordered by timers, aborted or
\* restarted, for any number of transfers, files, retries and history length.
THEOREM NeverAdvancesFalsely == Spec => []NoFalseAdvance
<1>1. IndInv => NoFalseAdvance
  BY Zenon DEF IndInv, GapsAreCurrent
<1> QED
  BY <1>1, Invariance, PTL

\* The update partition always holds the increments of the file in transfer
\* that were completed, in order and once each, unless a write was retried.
THEOREM FlashStaysPrefix == Spec => []FlashIsPrefix
<1>1. IndInv => FlashIsPrefix
  BY ZenonT(30) DEF IndInv
<1> QED
  BY <1>1, Invariance, PTL

-----------------------------------------------------------------------------
(* What a restart runs.                                                     *)

\* Every step keeps BootHoldsImage: only an ANNOUNCE lets the partition be
\* written, and it marks a chosen one as opened again.
LEMMA StepBoot ==
  ASSUME WellFormed, BootHoldsImage, [Next]_vars
  PROVE  BootHoldsImage'
<1>1. CASE UNCHANGED rVars
  BY <1>1, ZenonT(30) DEF rVars, BootHoldsImage, Image, RGeo
<1>2. CASE HandleAnnounce
  <2>1. CASE UNCHANGED rVars
    BY ZenonT(30), <1>1, <2>1
  <2>2. CASE /\ rReopened' = (rReopened \/ (rBoot /\ rFlash' # rFlash))
             /\ UNCHANGED <<rState, rBoot, rVerified>>
    BY <2>2, ZenonT(30) DEF BootHoldsImage
  <2>3. CASE rReopened' = (rReopened \/ rBoot) /\ UNCHANGED rBoot
    BY <2>3, ZenonT(30) DEF BootHoldsImage
  <2> QED
    BY <1>2, <2>1, <2>2, <2>3, ZenonT(30) DEF HandleAnnounce
<1>3. CASE HandleFileData
  BY <1>3, ZenonT(30) DEF HandleFileData, BootHoldsImage
<1>4. CASE HandleBlastComplete
  <2>1. CASE rState # "RECEIVING"
    BY <1>1, <1>4, <2>1, ZenonT(30) DEF HandleBlastComplete
  <2>2. CASE rState = "RECEIVING"
    <3>1. ~(rBoot /\ ~rReopened)
      BY <2>2, ZenonT(30) DEF BootHoldsImage
    <3>2. UNCHANGED <<rBoot, rReopened>>
      BY <1>4, ZenonT(30) DEF HandleBlastComplete, WriteIncrement, StartIncrement, AbortTransfer, rVars
    <3> QED
      BY <3>1, <3>2, ZenonT(30) DEF BootHoldsImage
  <2> QED
    BY ZenonT(30), <2>1, <2>2
<1>5. CASE HandleEnd
  <2>1. CASE rState # "WAITING_END"
    BY <1>1, <1>5, <2>1, ZenonT(30) DEF HandleEnd
  <2>2. CASE rState = "WAITING_END"
    <3>1. ~(rBoot /\ ~rReopened)
      BY <2>2, ZenonT(30) DEF BootHoldsImage
    <3>2. CASE UNCHANGED <<rBoot, rReopened>>
      BY <3>1, <3>2, ZenonT(30) DEF BootHoldsImage
    <3>3. CASE /\ rFlash = Image(rFile) /\ rState' = "VERIFYING"
               /\ rVerified' = rVerified \cup {rFile} /\ rFlash' = rFlash
      BY <3>3, ZenonT(30) DEF BootHoldsImage
    <3> QED
      BY <1>5, <2>2, <3>2, <3>3, ZenonT(30) DEF HandleEnd, Verifies
  <2> QED
    BY ZenonT(30), <2>1, <2>2
<1>6. CASE HandleAbort \/ RepeatComplete
  <2>1. rState' \in {rState, "IDLE"} /\ UNCHANGED <<rFlash, rBoot, rReopened, rVerified>>
    BY <1>6, ZenonT(30) DEF HandleAbort, RepeatComplete, ResetReceiver
  <2> QED
    BY <2>1, ZenonT(30) DEF BootHoldsImage
<1>7. CASE ReceiverTimeout
  BY <1>7, ZenonT(30) DEF ReceiverTimeout, AbortTransfer, ResetReceiver, BootHoldsImage
<1>8. CASE Restart
  BY <1>8, ZenonT(30) DEF Restart, BootHoldsImage
<1> QED
  BY <1>1, <1>2, <1>3, <1>4, <1>5, <1>6, <1>7, <1>8, ZenonT(30) DEF Next, ReceiverNext, vars

\* Two images are the same only if their files are.
LEMMA ImagesDiffer ==
  ASSUME NEW f \in Files, NEW g \in Files, Image(f) = Image(g)
  PROVE  f = g
<1>1. \A h \in Files : RGeo(h).chunks \in Nat \ {0}
  BY FileGeometry, ZenonT(30) DEF SoundGeometry
<1>2. \A h \in Files : Image(h)[1] = Chunk(h, 0)
  BY <1>1, SMTT(30) DEF Image
<1> QED
  BY <1>2, SMTT(30) DEF Chunk

\* A leaf that chose its new partition for boot runs a verified image after its
\* next restart, at whatever moment that comes, unless another transfer has
\* opened the partition again before.
THEOREM VerifiedImageRuns == Spec => RestartBootsVerified
<1>1. Init => BootHoldsImage
  BY Zenon DEF Init, ReceiverInit, BootHoldsImage
<1>2. WellFormed /\ BootHoldsImage /\ [Next]_vars => BootHoldsImage'
  BY ZenonT(30), StepBoot
<1>3. ASSUME WellFormed, BootHoldsImage, Next, rBoot, ~rReopened, ~rBoot'
      PROVE  rRunning' \in rVerified
  <2>1. rBoot \in BOOLEAN /\ rVerified \in SUBSET Files
    BY <1>3, ZenonT(30) DEF WellFormed, TypeOK, ReceiverTypeOK
  <2>2. Restart
    <3>1. CASE UNCHANGED rBoot
      BY ZenonT(30), <1>3, <3>1
    <3>2. CASE HandleAnnounce \/ HandleFileData \/ HandleAbort \/ RepeatComplete \/ ReceiverTimeout
      BY <3>1, <3>2, ZenonT(30) DEF HandleAnnounce, HandleFileData, HandleAbort, RepeatComplete,
           ReceiverTimeout, AbortTransfer, rVars
    <3>3. CASE HandleBlastComplete
      BY <3>1, <3>3, ZenonT(30) DEF HandleBlastComplete, WriteIncrement, StartIncrement, AbortTransfer, rVars
    <3>4. CASE HandleEnd
      BY <1>3, <3>1, <3>4, ZenonT(30) DEF HandleEnd, rVars
    <3> QED
      BY <1>3, <3>1, <3>2, <3>3, <3>4, ZenonT(30) DEF Next, ReceiverNext, rVars
  <2>3. PICK f \in rVerified : rFlash = Image(f)
    BY <1>3, ZenonT(30) DEF BootHoldsImage
  <2>4. f \in Files /\ \A g \in Files : rFlash = Image(g) => g = f
    BY ZenonT(30), <2>1, <2>3, ImagesDiffer
  <2>5. (CHOOSE g \in Files : rFlash = Image(g)) = f
    BY ZenonT(30), <2>3, <2>4
  <2> QED
    BY <1>3, <2>2, <2>3, <2>4, <2>5, ZenonT(30) DEF Restart
<1>4. WellFormed /\ BootHoldsImage /\ [Next]_vars
        => [rBoot /\ ~rReopened /\ ~rBoot' => rRunning' \in rVerified]_vars
  BY ZenonT(30), <1>3
<1>5. Spec => []WellFormed
  <2>1. IndInv => WellFormed
    BY Zenon DEF IndInv
  <2> QED
    BY <2>1, Invariance, PTL
<1> QED
  BY <1>1, <1>2, <1>4, <1>5, PTL DEF Spec, RestartBootsVerified

-----------------------------------------------------------------------------
(* The chunks of a round.                                                   *)

\* A chunk the source hands over moves from the wanted ones to the queue.
LEMMA SourceChunkKeepsRound ==
  ASSUME WellFormed, RoundSound, OnSourceChunk
  PROVE  RoundSound'
<1>1. PICK seq \in bRequested :
        /\ bState = "BLASTING" /\ bPending' = Append(bPending, seq) /\ bRequested' = bRequested \ {seq}
        /\ UNCHANGED <<bState, bFile, bInc, bRound, bSent>>
  BY Zenon DEF OnSourceChunk
<1>2. bPending \in Seq(Nat) /\ seq \in Nat
  BY <1>1, ZenonT(30) DEF WellFormed, TypeOK, BridgeTypeOK
<1>3. /\ Len(bPending) \in Nat /\ Len(bPending') = Len(bPending) + 1
      /\ \A i \in 1 .. Len(bPending) : bPending'[i] = bPending[i]
      /\ bPending'[Len(bPending) + 1] = seq
  BY SMTT(30), <1>1, <1>2, AppendElements
<1>4. Pending' = Pending \cup {seq}
  BY <1>3, SMTT(30) DEF Pending
<1>5. Blasting /\ seq \notin Pending
  BY <1>1, ZenonT(30) DEF RoundSound, Blasting
<1>6. \A i \in 1 .. Len(bPending) : bPending[i] # seq
  BY <1>5, ZenonT(30) DEF Pending
<1>7. QueuedOnce'
  BY <1>3, <1>6, SMTT(30) DEF RoundSound, QueuedOnce
<1> DEFINE W == Window(BGeo(bFile), bInc)
<1>8. W' = W /\ Blasting'
  BY <1>1, <1>5, ZenonT(30) DEF Blasting, BGeo
<1>9. bRequested' \cup Pending' \cup bSent' = bRequested \cup Pending \cup bSent
  BY ZenonT(30), <1>1, <1>4
<1>10. /\ bRequested' \cap (Pending' \cup bSent') = {} /\ Pending' \cap bSent' = {}
  BY <1>1, <1>4, <1>5, ZenonT(30) DEF RoundSound
<1> QED
  BY <1>1, <1>5, <1>7, <1>8, <1>9, <1>10, ZenonT(30) DEF RoundSound

\* send_blast_complete_ leaves the round as it is, or ends the transfer.
LEMMA BlastCompleteKeepsRound ==
  ASSUME NEW q, NEW pending, NEW sent, SendBlastComplete(q, pending, sent)
  PROVE  \/ bState' = "IDLE" /\ bPending' = << >>
         \/ /\ bState' \in {bState, "WAITING_GAPS"}
            /\ bPending' = pending /\ bSent' = sent
            /\ UNCHANGED <<bFile, bInc, bRound, bRequested>>
<1>1. CASE FailTransfer(q, FALSE)
  BY <1>1, ZenonT(30) DEF FailTransfer, ResetManager
<1>2. CASE /\ bState' \in {bState, "WAITING_GAPS"} /\ bPending' = pending /\ bSent' = sent
           /\ UNCHANGED <<bFile, bInc, bRound, bRequested>>
  BY ZenonT(30), <1>2
<1>3. PICK out \in SendResults(q) :
        \/ /\ \/ bState' = "WAITING_GAPS"
              \/ UNCHANGED bState
           /\ bPending' = pending /\ bSent' = sent
           /\ UNCHANGED <<bFile, bInc, bRound, bRequested>>
        \/ FailTransfer(q, FALSE)
  BY Zenon DEF SendBlastComplete
<1> QED
  BY ZenonT(30), <1>1, <1>2, <1>3

\* A transfer that ended has nothing queued.
LEMMA EndedRound ==
  ASSUME bState' = "IDLE", bPending' = << >>
  PROVE  RoundSound'
  BY DEF RoundSound, QueuedOnce, Blasting

\* pump_queued_chunks_ moves a chunk from the queue to the sent ones, and closes
\* the round when none is left.
LEMMA PumpKeepsRound ==
  ASSUME WellFormed, RoundSound, PumpQueuedChunks
  PROVE  RoundSound'
<1> DEFINE W == Window(BGeo(bFile), bInc)
<1>1. bState = "BLASTING" /\ Blasting /\ bPending \in Seq(Nat)
  BY Zenon DEF PumpQueuedChunks, Blasting, WellFormed, TypeOK, BridgeTypeOK
<1>2. CASE bState' = "IDLE" /\ bPending' = << >>
  BY ZenonT(30), <1>2, EndedRound
<1>3. CASE /\ bPending # << >>
           /\ bState' = "BLASTING" \/ (bState' = "WAITING_GAPS" /\ bRequested = {} /\ bPending' = << >>)
           /\ bPending' = Tail(bPending) /\ bSent' = bSent \cup {Head(bPending)}
           /\ UNCHANGED <<bFile, bInc, bRound, bRequested>>
  <2>1. /\ Len(bPending) \in Nat /\ Len(bPending) > 0 /\ Len(bPending') = Len(bPending) - 1
        /\ \A i \in 1 .. Len(bPending') : i + 1 \in 1 .. Len(bPending) /\ bPending'[i] = bPending[i + 1]
        /\ Head(bPending) = bPending[1] /\ 1 \in 1 .. Len(bPending)
    BY ZenonT(30), <1>1, <1>3, TailElements
  <2>2. \A i \in 1 .. Len(bPending') : bPending'[i] # Head(bPending)
    BY <2>1, SMTT(30) DEF RoundSound, QueuedOnce
  <2>3. \A i \in 1 .. Len(bPending) : i = 1 \/ (i - 1 \in 1 .. Len(bPending') /\ bPending'[i - 1] = bPending[i])
    BY SMTT(30), <2>1
  <2>4. Pending = Pending' \cup {Head(bPending)} /\ Head(bPending) \notin Pending'
    BY <2>1, <2>2, <2>3, SMTT(30) DEF Pending
  <2>5. QueuedOnce'
    BY <2>1 DEF RoundSound, QueuedOnce
  <2>6. W' = W /\ Blasting'
    BY <1>3, ZenonT(30) DEF Blasting, BGeo
  <2>7. bRequested' \cup Pending' \cup bSent' = bRequested \cup Pending \cup bSent
    BY ZenonT(30), <1>3, <2>4
  <2>8. /\ bRequested' \cap (Pending' \cup bSent') = {} /\ Pending' \cap bSent' = {}
    BY <1>1, <1>3, <2>4, ZenonT(30) DEF RoundSound
  <2> QED
    BY <1>1, <1>3, <2>5, <2>6, <2>7, <2>8, ZenonT(30) DEF RoundSound
<1>4. CASE /\ bState' \in {"BLASTING", "WAITING_GAPS"} /\ bRequested = {} /\ bPending = << >>
           /\ UNCHANGED <<bFile, bInc, bRound, bRequested, bPending, bSent>>
  <2>1. W' = W /\ Blasting' /\ Pending' = Pending /\ QueuedOnce'
    BY <1>4 DEF Blasting, BGeo, Pending, QueuedOnce, RoundSound
  <2> QED
    BY <1>1, <1>4, <2>1, ZenonT(30) DEF RoundSound
<1>5. CASE bPending # << >> /\ TxRoom(toRemote)
           /\ LET q    == Append(toRemote, Data(bFile, Head(bPending)))
                  rest == Tail(bPending)
                  sent == bSent \cup {Head(bPending)}
              IN  IF rest = << >> /\ bRequested = {}
                  THEN SendBlastComplete(q, rest, sent)
                  ELSE /\ bPending' = rest /\ bSent' = sent
                       /\ UNCHANGED <<bState, bFile, bInc, bRound, bRequested>>
  <2>1. CASE Tail(bPending) = << >> /\ bRequested = {}
    <3>1. SendBlastComplete(Append(toRemote, Data(bFile, Head(bPending))), Tail(bPending), bSent \cup {Head(bPending)})
      BY ZenonT(30), <1>5, <2>1
    <3>2. \/ bState' = "IDLE" /\ bPending' = << >>
          \/ /\ bState' \in {bState, "WAITING_GAPS"}
             /\ bPending' = Tail(bPending) /\ bSent' = bSent \cup {Head(bPending)}
             /\ UNCHANGED <<bFile, bInc, bRound, bRequested>>
      BY ZenonT(30), <3>1, BlastCompleteKeepsRound
    <3> QED
      BY ZenonT(30), <1>1, <1>2, <1>3, <1>5, <2>1, <3>2
  <2>2. CASE ~(Tail(bPending) = << >> /\ bRequested = {})
    BY ZenonT(30), <1>1, <1>3, <1>5, <2>2
  <2> QED
    BY ZenonT(30), <2>1, <2>2
<1>6. CASE bPending = << >> /\ bRequested = {} /\ SendBlastComplete(toRemote, bPending, bSent)
  <2>1. \/ bState' = "IDLE" /\ bPending' = << >>
        \/ /\ bState' \in {bState, "WAITING_GAPS"}
           /\ bPending' = bPending /\ bSent' = bSent
           /\ UNCHANGED <<bFile, bInc, bRound, bRequested>>
    BY ZenonT(30), <1>6, BlastCompleteKeepsRound
  <2> QED
    BY ZenonT(30), <1>1, <1>2, <1>4, <1>6, <2>1
<1> QED
  BY <1>5, <1>6, ZenonT(30) DEF PumpQueuedChunks

\* A new round of chunks to ask for, with nothing queued or sent yet.
LEMMA NewRound ==
  ASSUME NEW f \in Files, NEW inc \in Nat, inc < BGeo(f).incs,
         NEW wanted \in SUBSET Window(BGeo(f), inc), wanted # {},
         bState' = "BLASTING", bFile' = f, bInc' = inc, bPending' = << >>, bSent' = {},
         bRequested' = wanted, bRound' = 0 => wanted = Window(BGeo(f), inc)
  PROVE  RoundSound'
<1>1. Pending' = {} /\ QueuedOnce'
  BY DEF Pending, QueuedOnce
<1>2. Window(BGeo(bFile), bInc)' = Window(BGeo(f), inc)
  BY ZenonT(30) DEF BGeo
<1> QED
  BY <1>1, <1>2, ZenonT(30) DEF RoundSound, Blasting

\* handle_accept_ asks for the first increment.
LEMMA AcceptKeepsRound ==
  ASSUME IndInv, RoundSound, OnAccept
  PROVE  RoundSound'
<1>1. CASE CurrentAccept(Head(toBridge))
  <2>1. /\ bState = "ANNOUNCING" /\ bState' = "BLASTING" /\ bInc' = 0 /\ bFile' = bFile
        /\ bRequested' = Window(BGeo(bFile), 0) /\ bSent' = {} /\ bPending' = bPending
    BY <1>1, ZenonT(30) DEF OnAccept, CurrentAccept
  <2>2. bFile \in Files /\ bPending = << >>
    BY <2>1, ZenonT(30) DEF IndInv, WellFormed, Busy, RoundSound
  <2>3. 0 < BGeo(bFile).incs
    BY <2>2, FileGeometry, SMTT(30) DEF SoundGeometry
  <2>4. StartSeq(BGeo(bFile), 0) \in Window(BGeo(bFile), 0)
    BY SMTT(30), <2>2, <2>3, FileIncrement
  <2>5. PICK f \in Files, w \in SUBSET Nat : f = bFile /\ w = Window(BGeo(bFile), 0)
    BY ZenonT(30), <2>2, <2>3, FileIncrement
  <2> QED
    BY ZenonT(30), <2>1, <2>2, <2>3, <2>4, <2>5, NewRound
<1>2. CASE ~CurrentAccept(Head(toBridge))
  BY <1>2, SMTT(30) DEF OnAccept, IgnoreAck, trackerVars, RoundSound, QueuedOnce, Blasting, Pending, BGeo
<1> QED
  BY ZenonT(30), <1>1, <1>2

\* The chunks a GAPS ack asks for belong to the current increment.
LEMMA GapsInWindow ==
  ASSUME NEW got, bFile \in Files, bInc \in Nat, bInc < BGeo(bFile).incs,
         ~(0 .. ChunksIn(BGeo(bFile), bInc) - 1 \subseteq got)
  PROVE  GapSequences(got) \subseteq Window(BGeo(bFile), bInc) /\ GapSequences(got) # {}
<1>1. PICK s \in Nat, n \in Nat \ {0} :
        /\ s = StartSeq(BGeo(bFile), bInc) /\ n = ChunksIn(BGeo(bFile), bInc)
        /\ Window(BGeo(bFile), bInc) = s .. (s + n - 1)
  BY ZenonT(30), FileIncrement
<1>2. GapSequences(got) = {s + i : i \in (0 .. n - 1) \ got}
  BY <1>1, ZenonT(30) DEF GapSequences, StartSeq
<1> QED
  BY SMTT(30), <1>1, <1>2

\* handle_gaps_ack_ begins the next increment or asks for the gaps; an ack with
\* a bitmap always leaves something to ask for.
LEMMA GapsKeepRound ==
  ASSUME IndInv, RoundSound, OnGaps
  PROVE  RoundSound'
<1>1. CASE ~CurrentGaps(Head(toBridge))
  BY <1>1, SMTT(30) DEF OnGaps, IgnoreAck, trackerVars, RoundSound, QueuedOnce, Blasting, Pending, BGeo
<1>2. CASE CurrentGaps(Head(toBridge))
  <2> DEFINE ack == Head(toBridge)
  <2>1. bState = "WAITING_GAPS" /\ ack.ref \in bHist /\ ack.kind = "GAPS" /\ toBridge # << >>
    BY <1>2, ZenonT(30) DEF OnGaps, CurrentGaps, AckIs
  <2>2. /\ bFile \in Files /\ bInc \in Nat /\ bRound \in Nat /\ bInc < BGeo(bFile).incs
        /\ bPending = << >> /\ bPending \in Seq(Nat)
    BY <2>1, ZenonT(30) DEF IndInv, WellFormed, TypeOK, BridgeTypeOK, Busy, GapsAreCurrent, Accepted, Blasting, RoundSound
  <2>3. ack = toBridge[1] /\ 1 \in AckAt
    BY <2>1, TailElements, ZenonT(30) DEF IndInv, WellFormed, TypeOK, LinkTypeOK, AckAt
  <2>4. ~ack.ok => ~(0 .. ChunksIn(BGeo(bFile), bInc) - 1 \subseteq ack.got)
    BY <2>1, <2>3, ZenonT(30) DEF IndInv, GapsAreCurrent
  <2>5. SoundGeometry(BGeo(bFile)) /\ BGeo(bFile).incs \in Nat
    BY <2>2, FileGeometry, ZenonT(30) DEF SoundGeometry
  <2>6. CASE ack.ok /\ bInc + 1 >= BGeo(bFile).incs
    <3>1. SendEnd(0)
      BY <1>2, <2>6, ZenonT(30) DEF OnGaps, HandleGapsAck
    <3>2. \/ bState' = "IDLE" /\ bPending' = << >>
          \/ bState' = "ENDING" /\ bPending' = bPending
      BY <3>1, ZenonT(30) DEF SendEnd, FailTransfer, ResetManager, trackerVars
    <3> QED
      BY <2>2, <3>2, EndedRound, SMTT(30) DEF RoundSound, QueuedOnce, Blasting
  <2>7. CASE ack.ok /\ ~(bInc + 1 >= BGeo(bFile).incs)
    <3>1. AdvanceIncrement({})
      BY <1>2, <2>7, ZenonT(30) DEF OnGaps, HandleGapsAck
    <3>2. bInc + 1 \in Nat /\ bInc + 1 < BGeo(bFile).incs
      BY SMTT(30), <2>2, <2>5, <2>7
    <3>3. StartSeq(BGeo(bFile), bInc + 1) \in Window(BGeo(bFile), bInc + 1)
      BY SMTT(30), <2>2, <3>2, FileIncrement
    <3>4. PICK f \in Files, inc \in Nat, w \in SUBSET Nat :
            f = bFile /\ inc = bInc + 1 /\ w = Window(BGeo(f), inc)
      BY ZenonT(30), <2>2, <3>2, FileIncrement
    <3> QED
      BY <2>2, <3>1, <3>2, <3>3, <3>4, NewRound, ZenonT(30) DEF AdvanceIncrement
  <2>8. CASE ~ack.ok /\ bRound >= MaxRetransmitRounds
    BY <1>2, <2>8, EndedRound, ZenonT(30) DEF OnGaps, HandleGapsAck, FailTransfer, ResetManager
  <2>9. CASE ~ack.ok /\ ~(bRound >= MaxRetransmitRounds)
    <3>1. GapSequences(ack.got) \subseteq Window(BGeo(bFile), bInc) /\ GapSequences(ack.got) # {}
      BY ZenonT(30), <2>2, <2>4, <2>9, GapsInWindow
    <3>2. RetransmitGaps(GapSequences(ack.got))
      BY <1>2, <2>9, <3>1, ZenonT(30) DEF OnGaps, HandleGapsAck
    <3>3. PICK f \in Files, inc \in Nat, w \in SUBSET Window(BGeo(bFile), bInc) :
            f = bFile /\ inc = bInc /\ w = GapSequences(ack.got)
      BY ZenonT(30), <2>2, <3>1
    <3>4. bRound' # 0
      BY <2>2, <3>2, SMTT(30) DEF RetransmitGaps
    <3> QED
      BY <2>2, <3>1, <3>2, <3>3, <3>4, NewRound, ZenonT(30) DEF RetransmitGaps
  <2> QED
    BY ZenonT(30), <2>6, <2>7, <2>8, <2>9
<1> QED
  BY ZenonT(30), <1>1, <1>2

\* Every step keeps RoundSound.
LEMMA StepRound == IndInv /\ RoundSound /\ [Next]_vars => RoundSound'
<1> SUFFICES ASSUME IndInv, RoundSound, [Next]_vars PROVE RoundSound'
  BY Zenon
<1>1. WellFormed
  BY ZenonT(30) DEF IndInv
<1>2. CASE UNCHANGED <<bState, bFile, trackerVars>>
  BY <1>2, SMTT(30) DEF trackerVars, RoundSound, QueuedOnce, Blasting, Pending, BGeo
<1>3. CASE bState' = "IDLE" /\ bPending' = << >>
  BY ZenonT(30), <1>3, EndedRound
<1>4. ASSUME NEW f, NEW n, SendAnnounce(f, n), bState \in {"IDLE", "ANNOUNCING"} PROVE RoundSound'
  <2>1. CASE FailTransfer(toRemote, FALSE)
    BY <1>3, <2>1, ZenonT(30) DEF FailTransfer, ResetManager
  <2>2. CASE bState' = "ANNOUNCING" /\ UNCHANGED trackerVars
    BY <1>4, <2>2, SMTT(30) DEF trackerVars, RoundSound, QueuedOnce, Blasting
  <2> QED
    BY <1>4, <2>1, <2>2, ZenonT(30) DEF SendAnnounce
<1>5. ASSUME NEW q, NEW notify, FailTransfer(q, notify) PROVE RoundSound'
  BY <1>3, <1>5, ZenonT(30) DEF FailTransfer, ResetManager
<1>6. CASE StartTransfer \/ ResendAnnounce
  BY <1>4, <1>5, <1>6, ZenonT(30) DEF StartTransfer, ResendAnnounce, Busy
<1>7. CASE OnSourceChunk \/ PumpQueuedChunks
  BY ZenonT(30), <1>1, <1>7, SourceChunkKeepsRound, PumpKeepsRound
<1>8. CASE ResendBlastComplete
  <2>1. CASE SendBlastComplete(toRemote, bPending, bSent)
    <3>1. bState = "WAITING_GAPS"
      BY <1>8, ZenonT(30) DEF ResendBlastComplete
    <3>2. \/ bState' = "IDLE" /\ bPending' = << >>
          \/ /\ bState' \in {bState, "WAITING_GAPS"}
             /\ bPending' = bPending /\ bSent' = bSent
             /\ UNCHANGED <<bFile, bInc, bRound, bRequested>>
      BY ZenonT(30), <2>1, BlastCompleteKeepsRound
    <3> QED
      BY <1>3, <3>1, <3>2, SMTT(30) DEF RoundSound, QueuedOnce, Blasting, Pending, BGeo
  <2> QED
    BY <1>5, <1>8, <2>1, ZenonT(30) DEF ResendBlastComplete
<1>9. CASE ResendEnd
  <2>1. CASE SendEnd(bAttempts)
    <3>1. bState = "ENDING"
      BY <1>9, ZenonT(30) DEF ResendEnd
    <3>2. \/ \E notify : FailTransfer(toRemote, notify)
          \/ bState' = "ENDING" /\ UNCHANGED trackerVars
      BY <2>1, ZenonT(30) DEF SendEnd
    <3> QED
      BY <1>5, <3>1, <3>2, ZenonT(30) DEF trackerVars, RoundSound, QueuedOnce, Blasting
  <2> QED
    BY <1>5, <1>9, <2>1, ZenonT(30) DEF ResendEnd
<1>10. CASE LoopTimeout \/ LoopUnreachable \/ OnSourceAbort
  BY <1>5, <1>10, ZenonT(30) DEF LoopTimeout, LoopUnreachable, OnSourceAbort
<1>11. CASE OnAccept \/ OnGaps
  BY ZenonT(30), <1>11, AcceptKeepsRound, GapsKeepRound
<1>12. CASE OnComplete \/ OnRejectOrAbort
  <2>1. CASE IgnoreAck
    BY <1>2, <2>1, ZenonT(30) DEF IgnoreAck
  <2>2. CASE ResetManager("SUCCESS")
    BY <1>3, <2>2, ZenonT(30) DEF ResetManager
  <2> QED
    BY <1>5, <1>12, <2>1, <2>2, ZenonT(30) DEF OnComplete, OnRejectOrAbort
<1>13. CASE UNCHANGED bVars
  BY <1>2, <1>13, ZenonT(30) DEF bVars
<1> QED
  BY <1>6, <1>7, <1>8, <1>9, <1>10, <1>11, <1>12, <1>13, ZenonT(30) DEF Next, BridgeSteps, BridgeTimers, vars

\* The library's theorems on finite sets, and the fact that its Cardinality is the one
\* of the model.
Library == INSTANCE FiniteSetTheorems

\* The two definitions of Cardinality are the same text.
LEMMA SameCardinality == \A S : Cardinality(S) = Library!Cardinality(S)
BY Zenon DEF Cardinality, Library!Cardinality

\* A queue without repetitions is as long as the set of what is in it.
LEMMA QueueCounts ==
  ASSUME bPending \in Seq(Nat), QueuedOnce
  PROVE  Len(bPending) = Cardinality(Pending)
<1>1. Len(bPending) \in Nat /\ DOMAIN bPending = 1 .. Len(bPending)
  OBVIOUS
<1>2. bPending \in [1 .. Len(bPending) -> Pending]
  BY <1>1 DEF Pending
<1>3. bPending \in Library!Injection(1 .. Len(bPending), Pending)
  BY <1>1, <1>2, ZenonT(30) DEF Library!Injection, Library!IsInjective, QueuedOnce
<1>4. bPending \in Library!Surjection(1 .. Len(bPending), Pending)
  BY <1>2, ZenonT(30) DEF Library!Surjection, Pending
<1>5. Library!ExistsBijection(1 .. Len(bPending), Pending)
  BY <1>3, <1>4, ZenonT(30) DEF Library!ExistsBijection, Library!Bijection
<1> QED
  BY ZenonT(30), <1>1, <1>5, SameCardinality, Library!FS_CountingElements

\* In every round of every increment, whatever is lost, repeated, aborted or
\* late, each chunk of the round is in exactly one of the manager's three
\* places, and a round always has a chunk to send.
THEOREM ChunksAccounted == Spec => []ChunkAccounting
<1>1. Init => RoundSound
  BY DEF Init, BridgeInit, RoundSound, QueuedOnce, Blasting
<1>2. IndInv /\ RoundSound => ChunkAccounting
  <2> SUFFICES ASSUME IndInv, RoundSound, Blasting PROVE ChunkAccounting
    BY Zenon DEF ChunkAccounting
  <2>1. bInc < BGeo(bFile).incs
    BY ZenonT(30) DEF IndInv, GapsAreCurrent, Accepted
  <2>2. bPending \in Seq(Nat)
    BY ZenonT(30) DEF IndInv, WellFormed, TypeOK, BridgeTypeOK
  <2>3. Len(bPending) = Cardinality(Pending)
    BY <2>2, QueueCounts, ZenonT(30) DEF RoundSound
  <2>4. bPending = << >> => Pending = {}
    BY DEF Pending
  <2> QED
    BY <2>1, <2>3, <2>4, ZenonT(30) DEF RoundSound, ChunkAccounting
<1> QED
  BY <1>1, <1>2, StepRound, Invariance, PTL DEF Spec
=============================================================================
