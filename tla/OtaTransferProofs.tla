------------------------- MODULE OtaTransferProofs --------------------------
(***************************************************************************)
(* Facts about OtaGeometry for every file size, chunk size and buffer      *)
(* size, as long as the increments can be counted in 16 bits; the          *)
(* reduction of every bridge step to its effect on the link and on the     *)
(* variables the invariant is about (BridgeStepEffect); the first layer of *)
(* IndInv: WellFormed is kept by every step, so the types of OtaTransfer   *)
(* are right in every reachable state; then what one step of the receiver  *)
(* can do (ReceiverStepEffect), and the three kinds of step of the whole   *)
(* system (StepCases).                                                     *)
(***************************************************************************)
EXTENDS OtaTransferInv, TLAPS

-----------------------------------------------------------------------------
(* Geometry.                                                                *)

\* What the two state machines rely on.
SoundGeometry(g) ==
  /\ g.cpi \in Nat \ {0}
  /\ g.incs \in Nat \ {0}
  /\ g.chunks \in Nat \ {0}
  /\ g.last \in 1 .. g.cpi
  /\ g.chunks = (g.incs - 1) * g.cpi + g.last

\* Rounding up, as both sides do with / and %, is the least n with n * b >= a.
LEMMA CeilDivBounds ==
  ASSUME NEW a \in Nat \ {0}, NEW b \in Nat \ {0}
  PROVE  /\ CeilDiv(a, b) \in Nat \ {0}
         /\ (CeilDiv(a, b) - 1) * b < a
         /\ a <= CeilDiv(a, b) * b
<1> DEFINE q == a \div b
           r == a % b
<1>1. q \in Nat /\ r \in 0 .. b - 1 /\ a = b * q + r
  OBVIOUS
<1>2. CASE r = 0
  <2>1. CeilDiv(a, b) = q
    BY <1>2 DEF CeilDiv
  <2>2. q # 0
    BY <1>1, <1>2
  <2>3. (q - 1) * b = q * b - b
    BY <1>1
  <2> QED
    BY <1>1, <1>2, <2>1, <2>2, <2>3
<1>3. CASE r # 0
  <2>1. CeilDiv(a, b) = q + 1
    BY <1>3, Zenon DEF CeilDiv
  <2>2. (q + 1) * b = q * b + b
    BY <1>1
  <2> QED
    BY <1>1, <1>3, <2>1, <2>2
<1> QED
  BY Zenon, <1>2, <1>3

\* The modulus of a uint16_t.
LEMMA U16Positive == U16 \in Nat /\ U16 > 1
BY DEF U16

\* Storing n in w bits keeps it when it fits.
LEMMA ModRange ==
  ASSUME NEW n \in Nat, NEW w \in Nat, w > 1
  PROVE  /\ n % w \in Nat /\ n % w < w
         /\ n < w => n % w = n
OBVIOUS

\* The remainder is determined by its bounds.
LEMMA DivModUnique ==
  ASSUME NEW n \in Nat, NEW d \in Nat \ {0}, NEW q \in Nat, NEW r \in Nat,
         n = q * d + r, r < d
  PROVE  n % d = r
<1>1. n \div d \in Nat /\ n % d \in Nat /\ n % d < d /\ n = d * (n \div d) + (n % d)
  OBVIOUS
<1>2. PICK p \in Nat, m \in Nat : p = n \div d /\ m = n % d
  BY Zenon, <1>1
<1>3. n = p * d + m /\ m < d
  BY <1>1, <1>2
<1>4. CASE p < q
  <2>1. (p + 1) * d <= q * d
    BY <1>4
  <2> QED
    BY <1>3, <2>1
<1>5. CASE q < p
  <2>1. (q + 1) * d <= p * d
    BY <1>5
  <2> QED
    BY <1>3, <2>1
<1> QED
  BY <1>2, <1>3, <1>4, <1>5

\* chunks_per_increment is between 1 and 65535.
LEMMA ChunksPerIncrementRange ==
  ASSUME NEW chunk \in Nat \ {0}, NEW kb \in Nat \ {0}
  PROVE  /\ ChunksPerIncrement(chunk, kb) \in Nat \ {0}
         /\ ChunksPerIncrement(chunk, kb) < U16
<1>1. Least(kb, MaxIncrementKb) * 1024 \in Nat
  BY MaxIncrementKbAssumption DEF Least
<1>2. PICK raw \in Nat : raw = (Least(kb, MaxIncrementKb) * 1024) \div chunk
  BY <1>1
<1>3. raw % U16 \in Nat /\ raw % U16 < U16
  BY Zenon, ModRange, U16Positive
<1>4. ChunksPerIncrement(chunk, kb) = OneIfZero(raw % U16, 1)
  BY <1>2 DEF ChunksPerIncrement
<1> QED
  BY <1>3, <1>4, U16Positive DEF OneIfZero

\* Both computations yield the same, sound geometry.
THEOREM GeometrySound ==
  ASSUME NEW size \in Nat \ {0}, NEW chunk \in Nat \ {0}, NEW kb \in Nat \ {0},
         IncrementCount(size, chunk, kb) < U16
  PROVE  /\ BridgeGeometry(size, chunk, kb) = ReceiverGeometry(size, chunk, kb)
         /\ SoundGeometry(BridgeGeometry(size, chunk, kb))
         /\ BridgeGeometry(size, chunk, kb).cpi = ChunksPerIncrement(chunk, kb)
<1> DEFINE g == BridgeGeometry(size, chunk, kb)
<1>1. PICK cpi \in Nat \ {0} : cpi = ChunksPerIncrement(chunk, kb) /\ cpi < U16
  BY Zenon, ChunksPerIncrementRange
<1>2. PICK chunks \in Nat \ {0} : chunks = CeilDiv(size, chunk)
  BY Zenon, CeilDivBounds
<1>3. PICK incs \in Nat \ {0} :
        incs = CeilDiv(chunks, cpi) /\ (incs - 1) * cpi < chunks /\ chunks <= incs * cpi
  BY Zenon, CeilDivBounds
<1>4. incs % U16 = incs
  BY <1>1, <1>2, <1>3, ModRange, U16Positive DEF IncrementCount
<1>5. (incs - 1) * cpi \in Nat /\ incs * cpi = (incs - 1) * cpi + cpi
  BY <1>3
<1>6. PICK last \in 1 .. cpi : last = chunks - (incs - 1) * cpi
  BY <1>3, <1>5
<1>7. last % U16 = last
  BY <1>1, <1>6, ModRange, U16Positive
<1>8. g = [chunk |-> chunk, cpi |-> cpi, chunks |-> chunks, incs |-> incs, last |-> last]
  BY <1>1, <1>2, <1>3, <1>4, <1>6, <1>7, SMTT(30) DEF BridgeGeometry, OneIfZero
<1>9. g = ReceiverGeometry(size, chunk, kb)
  BY <1>1, <1>2, <1>3, <1>4, <1>6, <1>7, <1>8, SMTT(30) DEF ReceiverGeometry, OneIfZero
<1>10. SoundGeometry(g)
  BY <1>5, <1>6, <1>8 DEF SoundGeometry
<1> QED
  BY <1>1, <1>8, <1>9, <1>10

\* The increments of a sound geometry follow each other, start at chunk 0 and
\* end at the last chunk (increment_start_seq, increment_end_seq).
THEOREM IncrementBounds ==
  ASSUME NEW g, SoundGeometry(g), NEW inc \in Nat, inc < g.incs
  PROVE  /\ StartSeq(g, inc) \in Nat
         /\ StartSeq(g, 0) = 0
         /\ ChunksIn(g, inc) \in 1 .. g.cpi
         /\ EndSeq(g, inc) = StartSeq(g, inc) + ChunksIn(g, inc)
         /\ EndSeq(g, inc) <= g.chunks
         /\ inc + 1 < g.incs => EndSeq(g, inc) = StartSeq(g, inc + 1)
         /\ inc + 1 = g.incs => EndSeq(g, inc) = g.chunks
<1> USE DEF SoundGeometry
<1>1. StartSeq(g, inc) \in Nat /\ StartSeq(g, 0) = 0
  BY DEF StartSeq
<1>2. ChunksIn(g, inc) \in 1 .. g.cpi
  BY DEF ChunksIn
<1>3. StartSeq(g, inc + 1) = StartSeq(g, inc) + g.cpi
  BY DEF StartSeq
<1>4. CASE inc + 1 < g.incs
  <2>1. (inc + 1) * g.cpi <= (g.incs - 1) * g.cpi
    BY <1>4
  <2>2. StartSeq(g, inc + 1) < g.chunks
    BY <2>1 DEF StartSeq
  <2> QED
    BY <1>1, <1>2, <1>3, <1>4, <2>2 DEF EndSeq, ChunksIn, Least
<1>5. CASE inc + 1 = g.incs
  <2>1. inc = g.incs - 1
    BY <1>5
  <2>2. StartSeq(g, inc) + g.last = g.chunks
    BY <2>1, Zenon DEF StartSeq
  <2> QED
    BY <1>1, <1>2, <1>5, <2>2 DEF EndSeq, ChunksIn, Least
<1> QED
  BY <1>4, <1>5

\* An earlier increment ends before a later one starts.
THEOREM IncrementsOrdered ==
  ASSUME NEW g, SoundGeometry(g), NEW i \in Nat, NEW j \in Nat, i < j, j < g.incs
  PROVE  EndSeq(g, i) <= StartSeq(g, j)
<1>1. i + 1 < g.incs /\ i < g.incs
  BY DEF SoundGeometry
<1>2. EndSeq(g, i) = StartSeq(g, i + 1)
  BY Zenon, <1>1, IncrementBounds
<1>3. (i + 1) * g.cpi <= j * g.cpi
  BY DEF SoundGeometry
<1> QED
  BY <1>2, <1>3, Zenon DEF StartSeq

\* handle_file_data's slot, sequence % chunks_per_increment, is the chunk's
\* offset in its increment.
THEOREM SlotIsOffset ==
  ASSUME NEW g, SoundGeometry(g), NEW inc \in Nat, inc < g.incs, NEW seq \in Window(g, inc)
  PROVE  /\ seq \in Nat
         /\ seq % g.cpi = seq - StartSeq(g, inc)
         /\ seq % g.cpi \in 0 .. ChunksIn(g, inc) - 1
<1>1. StartSeq(g, inc) \in Nat /\ ChunksIn(g, inc) \in 1 .. g.cpi
      /\ EndSeq(g, inc) = StartSeq(g, inc) + ChunksIn(g, inc)
  BY Zenon, IncrementBounds
<1>2. seq \in Nat /\ StartSeq(g, inc) <= seq /\ seq < StartSeq(g, inc) + ChunksIn(g, inc)
  BY <1>1 DEF Window
<1>3. PICK k \in Nat : seq = inc * g.cpi + k /\ k < g.cpi /\ k < ChunksIn(g, inc)
  <2>1. seq - StartSeq(g, inc) \in Nat
    BY <1>1, <1>2
  <2> QED
    BY <1>1, <1>2, <2>1 DEF StartSeq, SoundGeometry
<1>4. seq % g.cpi = k
  BY <1>2, <1>3, DivModUnique, Zenon DEF SoundGeometry
<1> QED
  BY <1>1, <1>2, <1>3, <1>4 DEF StartSeq, SoundGeometry

-----------------------------------------------------------------------------
(* Queues.                                                                  *)

\* The rest of a queue, element by element.
LEMMA TailElements ==
  ASSUME NEW S, NEW q \in Seq(S), q # << >>
  PROVE  /\ Tail(q) \in Seq(S)
         /\ Len(q) \in Nat /\ Len(q) > 0
         /\ Len(Tail(q)) = Len(q) - 1
         /\ \A i \in 1 .. Len(Tail(q)) : i + 1 \in 1 .. Len(q) /\ Tail(q)[i] = q[i + 1]
         /\ Head(q) = q[1] /\ Head(q) \in S /\ 1 \in 1 .. Len(q)
OBVIOUS

\* A queue with one more element, element by element.
LEMMA AppendElements ==
  ASSUME NEW S, NEW q \in Seq(S), NEW e \in S
  PROVE  /\ Append(q, e) \in Seq(S)
         /\ Len(q) \in Nat
         /\ Len(Append(q, e)) = Len(q) + 1
         /\ \A i \in 1 .. Len(q) : Append(q, e)[i] = q[i]
         /\ Append(q, e)[Len(q) + 1] = e
OBVIOUS

-----------------------------------------------------------------------------
(* Geometry of the files that are transferred.                              *)

\* Bridge and receiver cut every file in the same, sound way.
LEMMA FileGeometry ==
  ASSUME NEW f \in Files
  PROVE  /\ BGeo(f) = RGeo(f)
         /\ SoundGeometry(BGeo(f))
         /\ Slots = 0 .. BGeo(f).cpi - 1
  BY GeometrySound, LinkAssumption, IncrementsFit DEF BGeo, RGeo, Slots

\* Window, StartSeq and ChunksIn of an increment of a file.
LEMMA FileIncrement ==
  ASSUME NEW f \in Files, NEW inc \in Nat, inc < BGeo(f).incs
  PROVE  /\ StartSeq(BGeo(f), inc) \in Nat
         /\ ChunksIn(BGeo(f), inc) \in Nat \ {0}
         /\ 0 .. ChunksIn(BGeo(f), inc) - 1 \subseteq Slots
         /\ Window(BGeo(f), inc) = StartSeq(BGeo(f), inc) .. (StartSeq(BGeo(f), inc) + ChunksIn(BGeo(f), inc) - 1)
         /\ Window(BGeo(f), inc) \subseteq Nat
<1>1. SoundGeometry(BGeo(f)) /\ Slots = 0 .. BGeo(f).cpi - 1
  BY Zenon, FileGeometry
<1>2. /\ StartSeq(BGeo(f), inc) \in Nat
      /\ ChunksIn(BGeo(f), inc) \in 1 .. BGeo(f).cpi
      /\ EndSeq(BGeo(f), inc) = StartSeq(BGeo(f), inc) + ChunksIn(BGeo(f), inc)
  BY Zenon, <1>1, IncrementBounds
<1>3. PICK s \in Nat, n \in Nat \ {0} : s = StartSeq(BGeo(f), inc) /\ n = ChunksIn(BGeo(f), inc)
  BY <1>1, <1>2 DEF SoundGeometry
<1>4. Window(BGeo(f), inc) = s .. (s + n - 1)
  BY <1>2, <1>3 DEF Window
<1>5. 0 .. n - 1 \subseteq Slots
  BY <1>1, <1>2, <1>3, SMTT(30) DEF SoundGeometry
<1> QED
  BY SMTT(30), <1>3, <1>4, <1>5

\* Sequence numbers are naturals, for a value of inc beyond the file too.
LEMMA SequencesAreNat ==
  ASSUME NEW f \in Files, NEW inc \in Nat
  PROVE  /\ Window(BGeo(f), inc) \subseteq Nat
         /\ \A i \in Nat : inc * BGeo(f).cpi + i \in Nat
<1>1. SoundGeometry(BGeo(f))
  BY Zenon, FileGeometry
<1>2. StartSeq(BGeo(f), inc) \in Nat
  BY <1>1 DEF SoundGeometry, StartSeq
<1>3. EndSeq(BGeo(f), inc) \in Int
  BY <1>1, <1>2 DEF SoundGeometry, EndSeq, ChunksIn, Least
<1> QED
  BY <1>1, <1>2, <1>3 DEF SoundGeometry, Window

-----------------------------------------------------------------------------
(* The frames and acks that are sent.                                       *)

\* Every constructor builds a frame.
LEMMA FramesTyped ==
  /\ \A f \in Files, n \in Nat : Announce(f, n) \in Frame /\ Data(f, n) \in Frame
  /\ \A inc, n \in Nat : BlastComplete(inc, n) \in Frame
  /\ End \in Frame /\ Abort \in Frame
  BY Zenon DEF Announce, Data, BlastComplete, End, Abort, Frame, FileOrNone

\* AckOf builds an ack.
LEMMA AcksTyped ==
  ASSUME NEW ref \in Nat, NEW ok \in BOOLEAN, NEW got \in SUBSET Nat,
         NEW kind \in {"ACCEPT", "REJECT", "GAPS", "COMPLETE", "ABORT"}
  PROVE  AckOf(kind, ref, ok, got) \in Ack
  BY Zenon DEF AckOf, Ack

-----------------------------------------------------------------------------
(* The effect of a bridge step.                                             *)

\* New frames are only added at the end, and come from the set new.
Grows(new) ==
  /\ toRemote' \in Seq(Frame)
  /\ Len(toRemote') >= Len(toRemote)
  /\ \A i \in FrameAt' :
       \/ i \in FrameAt /\ toRemote'[i] = toRemote[i]
       \/ i > Len(toRemote) /\ toRemote'[i] \in new

\* The data frames that may be added.
DataFrames == IF Accepted THEN {Data(bFile, seq) : seq \in Nat} ELSE {}

AckTaken == toBridge # << >> /\ toBridge' = Tail(toBridge)

\* fail_transfer_ or a COMPLETE ack.
Ends ==
  /\ bState' = "IDLE" /\ bFile' = NoFile /\ bInc' = 0 /\ bHist' = {} /\ bAnnTx' = 0
  /\ Grows({Abort} \cup DataFrames)
  /\ UNCHANGED txCounter
  /\ UNCHANGED toBridge \/ AckTaken

Announces ==
  /\ ~Busy \/ (bState = "ANNOUNCING" /\ bFile' = bFile)
  /\ bState' = "ANNOUNCING" /\ bFile' \in Files
  /\ \/ /\ toRemote' = Append(toRemote, Announce(bFile', txCounter + 1))
        /\ txCounter' = txCounter + 1 /\ bAnnTx' = txCounter + 1
     \/ UNCHANGED <<toRemote, txCounter, bAnnTx>>
  /\ UNCHANGED <<toBridge, bInc, bHist>>

Blasts ==
  /\ Blasting /\ bState' \in {"BLASTING", "WAITING_GAPS"}
  /\ \/ UNCHANGED <<txCounter, bHist>>
     \/ txCounter' = txCounter + 1 /\ bHist' \subseteq bHist \cup {txCounter + 1}
  /\ Grows(DataFrames \cup (IF txCounter' = txCounter THEN {} ELSE {BlastComplete(bInc, txCounter + 1)}))
  /\ UNCHANGED <<toBridge, bFile, bInc, bAnnTx>>

IgnoresAck ==
  AckTaken /\ UNCHANGED <<toRemote, txCounter, bState, bFile, bInc, bHist, bAnnTx>>

Accepts ==
  /\ bState = "ANNOUNCING" /\ AckIs("ACCEPT") /\ Head(toBridge).ref = bAnnTx
  /\ AckTaken
  /\ bState' = "BLASTING" /\ bInc' = 0 /\ bHist' = {}
  /\ UNCHANGED <<toRemote, txCounter, bFile, bAnnTx>>

\* An all-clear or a bitmap of the current increment.
ActsOnGaps ==
  /\ bState = "WAITING_GAPS" /\ AckIs("GAPS") /\ Head(toBridge).ref \in bHist
  /\ AckTaken
  /\ UNCHANGED <<txCounter, bFile, bAnnTx>>
  /\ \/ /\ Head(toBridge).ok /\ bInc + 1 < BGeo(bFile).incs
        /\ bState' = "BLASTING" /\ bInc' = bInc + 1 /\ bHist' = {}
        /\ UNCHANGED toRemote
     \/ /\ Head(toBridge).ok /\ bInc + 1 >= BGeo(bFile).incs
        /\ bState' = "ENDING"
        /\ Grows({End})
        /\ UNCHANGED <<bInc, bHist>>
     \/ /\ ~Head(toBridge).ok
        /\ bState' = "BLASTING" /\ bHist' = {}
        /\ UNCHANGED <<toRemote, bInc>>
     \/ /\ ~Head(toBridge).ok
        /\ 0 .. ChunksIn(BGeo(bFile), bInc) - 1 \subseteq Head(toBridge).got
        /\ bState' = "BLASTING" /\ bInc' = bInc + 1
        /\ UNCHANGED <<toRemote, bHist>>

ResendsEnd ==
  /\ bState = "ENDING"
  /\ Grows({End})
  /\ UNCHANGED <<toBridge, txCounter, bState, bFile, bInc, bHist, bAnnTx>>

TakesSourceChunk ==
  /\ Blasting
  /\ UNCHANGED <<toRemote, toBridge, txCounter, bState, bFile, bInc, bHist, bAnnTx>>

BridgeEffect ==
  \/ Ends \/ Announces \/ Blasts \/ IgnoresAck \/ Accepts \/ ActsOnGaps \/ ResendsEnd
  \/ TakesSourceChunk

\* The queue grows by what is appended to it.
LEMMA GrowsBy ==
  ASSUME toRemote \in Seq(Frame), NEW new
  PROVE  /\ toRemote' = toRemote => Grows(new)
         /\ \A e \in Frame : e \in new /\ toRemote' = Append(toRemote, e) => Grows(new)
         /\ \A d, e \in Frame :
              {d, e} \subseteq new /\ toRemote' = Append(Append(toRemote, d), e) => Grows(new)
<1>1. ASSUME toRemote' = toRemote PROVE Grows(new)
  BY <1>1 DEF Grows, FrameAt
<1>2. ASSUME NEW e \in Frame, e \in new, toRemote' = Append(toRemote, e) PROVE Grows(new)
  BY <1>2, AppendElements DEF Grows, FrameAt
<1>3. ASSUME NEW d \in Frame, NEW e \in Frame, {d, e} \subseteq new,
             toRemote' = Append(Append(toRemote, d), e)
      PROVE  Grows(new)
  <2>1. PICK q \in Seq(Frame) : q = Append(toRemote, d)
    BY Zenon, AppendElements
  <2>2. /\ Len(q) = Len(toRemote) + 1 /\ q[Len(toRemote) + 1] = d
        /\ \A i \in 1 .. Len(toRemote) : q[i] = toRemote[i]
        /\ Len(toRemote) \in Nat
    BY <2>1, AppendElements
  <2>3. /\ toRemote' \in Seq(Frame) /\ Len(toRemote') = Len(q) + 1 /\ toRemote'[Len(q) + 1] = e
        /\ \A i \in 1 .. Len(q) : toRemote'[i] = q[i]
    BY <1>3, <2>1, AppendElements
  <2> QED
    BY <1>3, <2>2, <2>3 DEF Grows, FrameAt
<1> QED
  BY Zenon, <1>1, <1>2, <1>3

\* fail_transfer_ ends the transfer, whatever was sent before in the step.
LEMMA FailTransferEnds ==
  ASSUME WellFormed, NEW notify \in BOOLEAN, UNCHANGED toBridge \/ AckTaken,
         \/ FailTransfer(toRemote, notify)
         \/ \E seq \in Nat : Accepted /\ FailTransfer(Append(toRemote, Data(bFile, seq)), FALSE)
  PROVE  Ends
<1>1. toRemote \in Seq(Frame)
  BY Zenon DEF WellFormed, TypeOK, LinkTypeOK
<1>2. CASE FailTransfer(toRemote, notify)
  <2>1. toRemote' = toRemote \/ toRemote' = Append(toRemote, Abort)
    BY <1>2, Zenon DEF FailTransfer, Sent
  <2>2. Grows({Abort} \cup DataFrames)
    BY Zenon, <1>1, <2>1, GrowsBy, FramesTyped
  <2> QED
    BY <1>2, <2>2, Zenon DEF FailTransfer, ResetManager, Ends
<1>3. ASSUME NEW seq \in Nat, Accepted, FailTransfer(Append(toRemote, Data(bFile, seq)), FALSE)
      PROVE  Ends
  <2>1. Data(bFile, seq) \in Frame /\ Data(bFile, seq) \in DataFrames
    BY <1>3, FramesTyped, Zenon DEF DataFrames, WellFormed, Accepted, Blasting, Busy
  <2>2. toRemote' = Append(toRemote, Data(bFile, seq))
    BY <1>3, Zenon DEF FailTransfer
  <2>3. Grows({Abort} \cup DataFrames)
    BY Zenon, <1>1, <2>1, <2>2, GrowsBy
  <2> QED
    BY <1>3, <2>3, Zenon DEF FailTransfer, ResetManager, Ends
<1> QED
  BY Zenon, <1>2, <1>3

\* send_announce_ announces or ends.
LEMMA SendAnnounceEffect ==
  ASSUME WellFormed, NEW f \in Files, NEW n \in Nat, SendAnnounce(f, n), UNCHANGED toBridge,
         ~Busy \/ (bState = "ANNOUNCING" /\ f = bFile)
  PROVE  Announces \/ Ends
<1>1. CASE FailTransfer(toRemote, FALSE)
  BY Zenon, <1>1, FailTransferEnds
<1>2. CASE ~FailTransfer(toRemote, FALSE)
  BY <1>2, Zenon DEF SendAnnounce, Announces, trackerVars
<1> QED
  BY Zenon, <1>1, <1>2

\* send_blast_complete_ after at most one chunk blasts or ends.
LEMMA SendBlastCompleteEffect ==
  ASSUME WellFormed, NEW q, NEW pending, NEW sent, SendBlastComplete(q, pending, sent),
         UNCHANGED toBridge, Blasting,
         q = toRemote \/ \E seq \in Nat : q = Append(toRemote, Data(bFile, seq))
  PROVE  Blasts \/ Ends
<1>1. toRemote \in Seq(Frame) /\ bInc \in Nat /\ txCounter \in Nat /\ txCounter + 1 \in Nat /\ bHist \in SUBSET Nat
  BY DEF WellFormed, TypeOK, LinkTypeOK, BridgeTypeOK
<1>2. CASE FailTransfer(q, FALSE)
  BY <1>2, FailTransferEnds, Zenon DEF Accepted
<1>3. CASE ~FailTransfer(q, FALSE)
  <2>1. PICK out \in SendResults(q) :
          /\ IF out = "OK"
             THEN /\ toRemote' = Append(q, BlastComplete(bInc, txCounter + 1))
                  /\ txCounter' = txCounter + 1
                  /\ bHist' = Remembered(bHist \cup {txCounter + 1})
                  /\ bState' = "WAITING_GAPS"
             ELSE /\ toRemote' = q
                  /\ UNCHANGED <<txCounter, bHist, bState>>
          /\ UNCHANGED <<bFile, bInc, bAnnTx>>
    BY <1>3, Zenon DEF SendBlastComplete
  <2>2. Remembered(bHist \cup {txCounter + 1}) \subseteq bHist \cup {txCounter + 1}
    BY Zenon DEF Remembered
  <2>3. \A seq \in Nat : Data(bFile, seq) \in Frame /\ Data(bFile, seq) \in DataFrames
    BY FramesTyped, Zenon DEF DataFrames, WellFormed, Accepted, Blasting, Busy
  <2>4. BlastComplete(bInc, txCounter + 1) \in Frame
    BY Zenon, <1>1, FramesTyped
  <2>5. CASE out = "OK"
    <3>1. txCounter' # txCounter
      BY <1>1, <2>1, <2>5
    <3>2. Grows(DataFrames \cup {BlastComplete(bInc, txCounter + 1)})
      BY ZenonT(30), <1>1, <2>1, <2>3, <2>4, <2>5, GrowsBy
    <3> QED
      BY <2>1, <2>2, <2>5, <3>1, <3>2, Zenon DEF Blasts
  <2>6. CASE out # "OK"
    <3>1. Grows(DataFrames)
      BY Zenon, <1>1, <2>1, <2>3, <2>6, GrowsBy
    <3> QED
      BY <2>1, <2>6, <3>1, Zenon DEF Blasts, Blasting
  <2> QED
    BY Zenon, <2>5, <2>6
<1> QED
  BY Zenon, <1>2, <1>3

\* send_end_ sends END or ends.
LEMMA SendEndEffect ==
  ASSUME WellFormed, NEW n \in Nat, SendEnd(n), UNCHANGED toBridge \/ AckTaken
  PROVE  \/ Ends
         \/ /\ Grows({End}) /\ bState' = "ENDING"
            /\ UNCHANGED <<txCounter, bFile, bInc, bHist, bAnnTx>>
<1>1. toRemote \in Seq(Frame)
  BY Zenon DEF WellFormed, TypeOK, LinkTypeOK
<1>2. PICK out \in SendResults(toRemote) :
        \/ /\ out = "OK"
           /\ toRemote' = Append(toRemote, End)
           /\ bState' = "ENDING"
           /\ UNCHANGED <<txCounter, bFile, trackerVars, bAnnTx>>
        \/ /\ out # "OK"
           /\ FailTransfer(toRemote, out # "NOT_FOUND")
  BY Zenon DEF SendEnd
<1>3. CASE out = "OK"
  <2>1. Grows({End})
    BY Zenon, <1>1, <1>2, <1>3, GrowsBy, FramesTyped
  <2> QED
    BY <1>2, <1>3, <2>1, Zenon DEF trackerVars
<1>4. CASE out # "OK"
  BY Zenon, <1>2, <1>4, FailTransferEnds
<1> QED
  BY Zenon, <1>3, <1>4

\* Every bridge step has one of the effects above.
LEMMA BridgeStepEffect ==
  ASSUME WellFormed, BridgeSteps \/ BridgeTimers
  PROVE  BridgeEffect
<1> USE DEF BridgeEffect
<1>1. /\ toRemote \in Seq(Frame) /\ bAttempts \in Nat /\ bPending \in Seq(Nat)
      /\ (bState # "IDLE" => bFile \in Files)
  BY Zenon DEF WellFormed, TypeOK, LinkTypeOK, BridgeTypeOK, Busy
<1>2. CASE StartTransfer
  BY <1>2, SendAnnounceEffect, Zenon DEF StartTransfer, Busy
<1>3. CASE ResendAnnounce
  BY <1>1, <1>3, SendAnnounceEffect, FailTransferEnds, Zenon DEF ResendAnnounce
<1>4. CASE OnSourceChunk
  BY <1>4, Zenon DEF OnSourceChunk, TakesSourceChunk, Blasting, linkVars
<1>5. CASE PumpQueuedChunks
  <2>1. Blasting /\ UNCHANGED toBridge
    BY <1>5, Zenon DEF PumpQueuedChunks, Blasting
  <2>2. CASE bPending # << >> /\ TxRoom(toRemote)
    <3>1. PICK seq \in Nat : seq = Head(bPending)
      BY <1>1, <2>2
    <3>2. CASE SendBlastComplete(Append(toRemote, Data(bFile, seq)), Tail(bPending), bSent \cup {seq})
      BY Zenon, <2>1, <3>2, SendBlastCompleteEffect
    <3>3. CASE /\ toRemote' = Append(toRemote, Data(bFile, seq))
               /\ UNCHANGED <<txCounter, bState, bFile, bInc, bHist, bAnnTx>>
      <4>1. Data(bFile, seq) \in Frame /\ Data(bFile, seq) \in DataFrames
        BY <2>1, FramesTyped, Zenon DEF DataFrames, WellFormed, Accepted, Blasting, Busy
      <4>2. Grows(DataFrames \cup {})
        BY Zenon, <1>1, <3>3, <4>1, GrowsBy
      <4> QED
        BY <2>1, <3>3, <4>2, Zenon DEF Blasts, Blasting
    <3> QED
      BY <1>5, <2>2, <3>1, <3>2, <3>3, SendBlastCompleteEffect, <2>1, ZenonT(30) DEF PumpQueuedChunks
  <2>3. CASE SendBlastComplete(toRemote, bPending, bSent)
    BY Zenon, <2>1, <2>3, SendBlastCompleteEffect
  <2> QED
    BY <1>5, <2>2, <2>3, Zenon DEF PumpQueuedChunks
<1>6. CASE ResendBlastComplete
  BY <1>6, SendBlastCompleteEffect, FailTransferEnds, ZenonT(30) DEF ResendBlastComplete, Blasting
<1>7. CASE ResendEnd
  BY <1>1, <1>7, SendEndEffect, FailTransferEnds, ZenonT(30) DEF ResendEnd, ResendsEnd
<1>8. CASE LoopTimeout \/ LoopUnreachable \/ OnSourceAbort
  BY <1>8, FailTransferEnds, Zenon DEF LoopTimeout, LoopUnreachable, OnSourceAbort
<1>9. ASSUME AckIs("ACCEPT") \/ AckIs("GAPS") \/ AckIs("COMPLETE") \/ AckIs("REJECT") \/ AckIs("ABORT"),
             TakeAck
      PROVE  AckTaken
  BY <1>9, Zenon DEF AckIs, TakeAck, AckTaken
<1>10. ASSUME AckTaken, IgnoreAck PROVE IgnoresAck
  BY <1>10, Zenon DEF IgnoreAck, IgnoresAck, trackerVars
<1>11. CASE OnAccept
  BY <1>9, <1>10, <1>11, Zenon DEF OnAccept, CurrentAccept, Accepts
<1>12. CASE OnGaps
  <2>1. AckTaken
    BY <1>9, <1>12, Zenon DEF OnGaps, CurrentGaps
  <2>2. CASE IgnoreAck
    BY Zenon, <1>10, <2>1, <2>2
  <2>3. CASE bState = "WAITING_GAPS" /\ Head(toBridge).ref \in bHist /\ HandleGapsAck(Head(toBridge))
    <3> DEFINE ack == Head(toBridge)
    <3>1. CASE ack.ok /\ bInc + 1 >= BGeo(bFile).incs
      BY <1>12, <2>1, <2>3, <3>1, SendEndEffect, ZenonT(30) DEF HandleGapsAck, OnGaps, CurrentGaps, ActsOnGaps
    <3>2. CASE ack.ok /\ ~(bInc + 1 >= BGeo(bFile).incs)
      <4>1. bInc \in Nat /\ BGeo(bFile).incs \in Nat
        BY <2>3, FileGeometry, Zenon DEF WellFormed, TypeOK, BridgeTypeOK, Busy, SoundGeometry
      <4> QED
        BY <1>12, <2>1, <2>3, <3>2, <4>1 DEF HandleGapsAck, OnGaps, CurrentGaps, ActsOnGaps, AdvanceIncrement
    <3>3. CASE ~ack.ok /\ FailTransfer(toRemote, TRUE)
      BY Zenon, <2>1, <3>3, FailTransferEnds
    <3>4. CASE ~ack.ok /\ GapSequences(ack.got) = {} /\ AdvanceIncrement(bHist)
      <4>1. 0 .. ChunksIn(BGeo(bFile), bInc) - 1 \subseteq ack.got
        BY <3>4, Zenon DEF GapSequences
      <4> QED
        BY <1>12, <2>1, <2>3, <3>4, <4>1, ZenonT(30) DEF OnGaps, CurrentGaps, ActsOnGaps, AdvanceIncrement
    <3>5. CASE ~ack.ok /\ RetransmitGaps(GapSequences(ack.got))
      BY <1>12, <2>1, <2>3, <3>5, Zenon DEF OnGaps, CurrentGaps, ActsOnGaps, RetransmitGaps
    <3> QED
      BY <2>3, <3>1, <3>2, <3>3, <3>4, <3>5, ZenonT(30) DEF HandleGapsAck
  <2> QED
    BY <1>12, <2>2, <2>3, Zenon DEF OnGaps, CurrentGaps
<1>13. CASE OnComplete
  <2>1. AckTaken
    BY <1>9, <1>13, Zenon DEF OnComplete
  <2>2. CASE ResetManager("SUCCESS") /\ UNCHANGED <<toRemote, txCounter>>
    BY <1>1, <2>1, <2>2, GrowsBy, Zenon DEF ResetManager, Ends
  <2> QED
    BY <1>10, <1>13, <2>1, <2>2, FailTransferEnds, Zenon DEF OnComplete
<1>14. CASE OnRejectOrAbort
  BY <1>9, <1>10, <1>14, FailTransferEnds, Zenon DEF OnRejectOrAbort
<1> QED
  BY Zenon, <1>2, <1>3, <1>4, <1>5, <1>6, <1>7, <1>8, <1>11, <1>12, <1>13, <1>14
     DEF BridgeSteps, BridgeTimers

-----------------------------------------------------------------------------
(* First layer: WellFormed.                                                 *)

\* A buffer without chunks is a buffer.
LEMMA EmptyBufferTyped == EmptyBuffer \in [Slots -> ChunkOrNone]
<1>1. NoChunk \in ChunkOrNone
  BY ZenonT(30) DEF NoChunk, Chunk, ChunkOrNone, FileOrNone
<1> QED
  BY <1>1, Zenon DEF EmptyBuffer

\* The state the machines start in.
LEMMA InitWellFormed == Init => WellFormed
<1> SUFFICES ASSUME Init PROVE WellFormed
  BY Zenon
<1>1. LinkTypeOK /\ Len(toRemote) = 0
  BY DEF Init, LinkInit, LinkTypeOK
<1>2. BridgeTypeOK /\ ~Busy
  BY DEF Init, BridgeInit, BridgeTypeOK, FileOrNone, Busy
<1>3. ReceiverTypeOK /\ rState = "IDLE"
  <2>1. rBuf \in [Slots -> ChunkOrNone]
    BY EmptyBufferTyped, ZenonT(30) DEF Init, ReceiverInit
  <2>2. rFlash \in Seq(ChunkOrNone)
    BY DEF Init, ReceiverInit
  <2> QED
    BY <2>1, <2>2, ZenonT(30) DEF Init, ReceiverInit, ReceiverTypeOK, FileOrNone
<1> QED
  BY <1>1, <1>2, <1>3 DEF WellFormed, TypeOK, FrameAt

\* The bridge's own variables keep their types.
LEMMA BridgeTyped ==
  ASSUME WellFormed, BridgeSteps \/ BridgeTimers
  PROVE  BridgeTypeOK' /\ losses' = losses
<1>1. BridgeTypeOK /\ txCounter \in Nat /\ (bState # "IDLE" => bFile \in Files)
  BY Zenon DEF WellFormed, TypeOK, LinkTypeOK, Busy
<1>2. ASSUME NEW public \in {"SUCCESS", "FAIL"}, ResetManager(public), bStarts' = bStarts
      PROVE  BridgeTypeOK'
  BY <1>2, <1>1 DEF ResetManager, BridgeTypeOK, FileOrNone
<1>3. ASSUME NEW q, NEW notify, FailTransfer(q, notify), bStarts' \in Nat
      PROVE  BridgeTypeOK'
  BY <1>3, <1>1 DEF FailTransfer, ResetManager, BridgeTypeOK, FileOrNone
<1>4. ASSUME NEW f \in Files, NEW n \in Nat, SendAnnounce(f, n), bStarts' \in Nat
      PROVE  BridgeTypeOK'
  <2>1. CASE FailTransfer(toRemote, FALSE)
    BY Zenon, <1>3, <1>4, <2>1
  <2>2. CASE ~FailTransfer(toRemote, FALSE)
    <3>1. /\ \/ bAnnTx' = txCounter + 1 /\ bAttempts' = n + 1
             \/ UNCHANGED <<bAnnTx, bAttempts>>
          /\ bState' = "ANNOUNCING" /\ bFile' = f /\ bPublic' = "START_RECEIVED"
          /\ UNCHANGED <<bInc, bRound, bRetries, bHist, bRequested, bPending, bSent>>
      BY <1>4, <2>2, Zenon DEF SendAnnounce, trackerVars
    <3>2. bAnnTx' \in Nat /\ bAttempts' \in Nat
      BY <1>1, <3>1 DEF BridgeTypeOK
    <3> QED
      BY <1>1, <1>4, <3>1, <3>2, Zenon DEF BridgeTypeOK, FileOrNone
  <2> QED
    BY Zenon, <2>1, <2>2
<1>5. ASSUME NEW q, NEW pending \in Seq(Nat), NEW sent \in SUBSET Nat, bStarts' = bStarts,
             SendBlastComplete(q, pending, sent)
      PROVE  BridgeTypeOK'
  <2>1. CASE FailTransfer(q, FALSE)
    BY <1>1, <1>3, <1>5, <2>1, Zenon DEF BridgeTypeOK
  <2>2. CASE ~FailTransfer(q, FALSE)
    <3>1. Remembered(bHist \cup {txCounter + 1}) \subseteq bHist \cup {txCounter + 1}
      BY Zenon DEF Remembered
    <3>2. bHist \cup {txCounter + 1} \subseteq Nat
      BY <1>1 DEF BridgeTypeOK
    <3>3. /\ \/ /\ bHist' = Remembered(bHist \cup {txCounter + 1})
                /\ bRetries' = bRetries + 1 /\ bState' = "WAITING_GAPS"
             \/ UNCHANGED <<bHist, bRetries, bState>>
          /\ bPending' = pending /\ bSent' = sent
          /\ UNCHANGED <<bFile, bInc, bRound, bRequested, bAttempts, bAnnTx, bPublic>>
      BY <1>5, <2>2, Zenon DEF SendBlastComplete
    <3>4. bHist' \in SUBSET Nat /\ bRetries' \in Nat
      <4>1. bHist \in SUBSET Nat /\ bRetries \in Nat
        BY <1>1, Zenon DEF BridgeTypeOK
      <4>2. bHist' \subseteq bHist \cup {txCounter + 1}
        BY Zenon, <3>1, <3>3
      <4>3. bRetries' \in Nat
        BY <3>3, <4>1
      <4> QED
        BY Zenon, <3>2, <4>2, <4>3
    <3> QED
      BY <1>1, <1>5, <3>3, <3>4, Zenon DEF BridgeTypeOK
  <2> QED
    BY Zenon, <2>1, <2>2
<1>6. ASSUME NEW n \in Nat, SendEnd(n), bStarts' = bStarts
      PROVE  BridgeTypeOK'
  <2>1. CASE \E notify \in BOOLEAN : FailTransfer(toRemote, notify)
    BY <1>1, <1>3, <1>6, <2>1, ZenonT(30) DEF BridgeTypeOK
  <2>2. CASE ~\E notify \in BOOLEAN : FailTransfer(toRemote, notify)
    <3>1. /\ bState' = "ENDING" /\ bAttempts' = n + 1 /\ bPublic' = "VERIFYING"
          /\ UNCHANGED <<bFile, bInc, bRound, bRetries, bHist, bRequested, bPending, bSent, bAnnTx>>
      BY <1>6, <2>2, Zenon DEF SendEnd, trackerVars
    <3> QED
      BY <1>1, <1>6, <3>1 DEF BridgeTypeOK
  <2> QED
    BY Zenon, <2>1, <2>2
<1>7. bStarts \in Nat /\ bAttempts \in Nat /\ bPending \in Seq(Nat) /\ bSent \in SUBSET Nat
  BY <1>1, Zenon DEF BridgeTypeOK
<1>8. CASE StartTransfer
  BY <1>4, <1>7, <1>8 DEF StartTransfer
<1>9. CASE ResendAnnounce
  BY <1>1, <1>3, <1>4, <1>7, <1>9, ZenonT(30) DEF ResendAnnounce
<1>10. CASE OnSourceChunk
  BY <1>1, <1>10 DEF OnSourceChunk, BridgeTypeOK, linkVars
<1>11. CASE PumpQueuedChunks
  <2>1. CASE bPending # << >>
    <3>1. Head(bPending) \in Nat /\ Tail(bPending) \in Seq(Nat) /\ bSent \cup {Head(bPending)} \in SUBSET Nat
      <4>1. Head(bPending) \in Nat /\ Tail(bPending) \in Seq(Nat)
        BY <1>7, <2>1
      <4> QED
        BY Zenon, <1>7, <4>1
    <3>2. CASE SendBlastComplete(Append(toRemote, Data(bFile, Head(bPending))), Tail(bPending),
                                 bSent \cup {Head(bPending)})
      BY <1>5, <1>11, <3>1, <3>2, ZenonT(30) DEF PumpQueuedChunks
    <3>3. CASE /\ bPending' = Tail(bPending) /\ bSent' = bSent \cup {Head(bPending)}
               /\ UNCHANGED <<txCounter, bState, bFile, bInc, bRound, bRetries, bHist,
                              bRequested, bAttempts, bAnnTx, bPublic>>
      BY <1>1, <1>11, <3>1, <3>3, Zenon DEF PumpQueuedChunks, BridgeTypeOK
    <3> QED
      BY <1>11, <2>1, <3>2, <3>3, Zenon DEF PumpQueuedChunks
  <2> QED
    BY <1>5, <1>7, <1>11, <2>1, Zenon DEF PumpQueuedChunks
<1>12. CASE ResendBlastComplete
  BY <1>3, <1>5, <1>7, <1>12, Zenon DEF ResendBlastComplete
<1>13. CASE ResendEnd
  BY <1>3, <1>6, <1>7, <1>13, ZenonT(30) DEF ResendEnd
<1>14. CASE LoopTimeout \/ LoopUnreachable \/ OnSourceAbort
  BY <1>3, <1>7, <1>14, ZenonT(30) DEF LoopTimeout, LoopUnreachable, OnSourceAbort
<1>15. ASSUME IgnoreAck, bStarts' = bStarts PROVE BridgeTypeOK'
  BY <1>1, <1>15, Zenon DEF IgnoreAck, trackerVars, BridgeTypeOK
<1>16. CASE OnAccept
  <2>1. CASE bState = "ANNOUNCING" /\ Head(toBridge).ref = bAnnTx
    <3>1. Window(BGeo(bFile), 0) \in SUBSET Nat
      BY Zenon, <1>1, <2>1, SequencesAreNat
    <3> QED
      BY <1>1, <1>16, <2>1, <3>1, SMTT(30) DEF OnAccept, CurrentAccept, TakeAck, BridgeTypeOK
  <2> QED
    BY <1>15, <1>16, <2>1, ZenonT(30) DEF OnAccept, CurrentAccept, TakeAck
<1>17. CASE OnGaps
  <2>1. bStarts' = bStarts /\ losses' = losses
    BY <1>17, Zenon DEF OnGaps, CurrentGaps, TakeAck
  <2>2. CASE bState = "WAITING_GAPS" /\ HandleGapsAck(Head(toBridge))
    <3>1. bFile \in Files /\ bInc \in Nat /\ bInc + 1 \in Nat /\ bHist \in SUBSET Nat
      BY <1>1, <2>2, SMTT(30) DEF BridgeTypeOK
    <3>2. ASSUME NEW hist \in SUBSET Nat, AdvanceIncrement(hist) PROVE BridgeTypeOK'
      <4>1. Window(BGeo(bFile), bInc + 1) \in SUBSET Nat
        BY ZenonT(30), <3>1, SequencesAreNat
      <4> QED
        BY <1>1, <2>1, <3>2, <4>1, SMTT(30) DEF AdvanceIncrement, BridgeTypeOK
    <3>3. ASSUME NEW got, RetransmitGaps(GapSequences(got)) PROVE BridgeTypeOK'
      <4>1. GapSequences(got) \in SUBSET Nat
        BY <3>1, SequencesAreNat DEF GapSequences
      <4> QED
        BY <1>1, <2>1, <3>3, <4>1, SMTT(30) DEF RetransmitGaps, BridgeTypeOK
    <3> QED
      BY <1>3, <1>6, <1>7, <2>1, <2>2, <3>1, <3>2, <3>3, ZenonT(30) DEF HandleGapsAck
  <2> QED
    BY <1>15, <1>17, <2>1, <2>2, ZenonT(30) DEF OnGaps, CurrentGaps
<1>18. CASE OnComplete
  BY <1>2, <1>3, <1>7, <1>15, <1>18, ZenonT(30) DEF OnComplete, TakeAck
<1>19. CASE OnRejectOrAbort
  BY <1>3, <1>7, <1>15, <1>19, ZenonT(30) DEF OnRejectOrAbort, TakeAck
<1>20. BridgeTypeOK'
  BY ZenonT(30), <1>8, <1>9, <1>10, <1>11, <1>12, <1>13, <1>14, <1>16, <1>17, <1>18, <1>19
     DEF BridgeSteps, BridgeTimers
<1>21. losses' = losses
  BY Zenon DEF BridgeSteps, BridgeTimers, StartTransfer, ResendAnnounce, OnSourceChunk, linkVars,
         PumpQueuedChunks, ResendBlastComplete, ResendEnd, LoopTimeout, LoopUnreachable,
         OnSourceAbort, OnAccept, OnGaps, OnComplete, OnRejectOrAbort, TakeAck
<1> QED
  BY Zenon, <1>20, <1>21

\* The bytes of an increment that is complete or partly received.
LEMMA BufferTyped ==
  ASSUME WellFormed, rState # "IDLE"
  PROVE  /\ ChunksIn(RGeo(rFile), rInc) \in Nat \ {0}
         /\ 0 .. ChunksIn(RGeo(rFile), rInc) - 1 \subseteq Slots
         /\ StartSeq(RGeo(rFile), rInc) \in Nat
         /\ BufferedChunks \in Seq(ChunkOrNone)
         /\ Len(BufferedChunks) = ChunksIn(RGeo(rFile), rInc)
         /\ \A i \in 1 .. ChunksIn(RGeo(rFile), rInc) :
              /\ i - 1 \in Slots
              /\ BufferedChunks[i] = rBuf[i - 1]
<1>1. rFile \in Files /\ rInc \in Nat /\ rInc < RGeo(rFile).incs /\ rBuf \in [Slots -> ChunkOrNone]
  BY Zenon DEF WellFormed, TypeOK, ReceiverTypeOK
<1>2. RGeo(rFile) = BGeo(rFile)
  BY Zenon, <1>1, FileGeometry
<1>3. PICK n \in Nat \ {0}, s \in Nat :
        /\ n = ChunksIn(RGeo(rFile), rInc) /\ s = StartSeq(RGeo(rFile), rInc)
        /\ 0 .. n - 1 \subseteq Slots
  BY Zenon, <1>1, <1>2, FileIncrement
<1>4. \A i \in 1 .. n : i - 1 \in Slots
  BY <1>3
<1>5. BufferedChunks = [i \in 1 .. n |-> rBuf[i - 1]]
  BY <1>3, Zenon DEF BufferedChunks
<1>6. \A i \in 1 .. n : rBuf[i - 1] \in ChunkOrNone
  BY Zenon, <1>1, <1>4
<1>7. BufferedChunks \in Seq(ChunkOrNone) /\ Len(BufferedChunks) = n
  BY SMTT(30), <1>5, <1>6
<1> QED
  BY Zenon, <1>3, <1>4, <1>5, <1>7

\* The receiver's transfer is well formed or absent.
ReceiverShape == rState # "IDLE" => rFile \in Files /\ rInc < RGeo(rFile).incs

\* A receiver step takes at most the oldest frame, or loses them all.
LEMMA FramesTaken ==
  ASSUME WellFormed, ReceiverNext
  PROVE  /\ \/ toRemote' = toRemote
            \/ toRemote # << >> /\ toRemote' = Tail(toRemote)
            \/ toRemote' = << >>
         /\ txCounter' = txCounter /\ losses' = losses
<1>1. ASSUME NEW kind, FrameIs(kind), TakeFrame
      PROVE  /\ toRemote # << >> /\ (toRemote' = toRemote \/ toRemote' = Tail(toRemote))
             /\ txCounter' = txCounter /\ losses' = losses
  BY <1>1, Zenon DEF FrameIs, TakeFrame
<1>2. CASE RepeatComplete \/ ReceiverTimeout \/ Restart
  BY <1>2, Zenon DEF RepeatComplete, ReceiverTimeout, Restart
<1> QED
  BY <1>1, <1>2, ZenonT(30) DEF ReceiverNext, HandleAnnounce, HandleFileData, HandleBlastComplete, HandleEnd, HandleAbort

\* What the head of the frame queue is worth to a handler.
LEMMA HeadTyped ==
  ASSUME WellFormed, NEW kind, FrameIs(kind)
  PROVE  /\ Head(toRemote) \in Frame /\ Head(toRemote).kind = kind
         /\ Head(toRemote).num \in Nat /\ Head(toRemote).tx \in Nat
         /\ Head(toRemote) = toRemote[1] /\ 1 \in FrameAt
         /\ kind \in {"ANNOUNCE", "DATA"} => Head(toRemote).file \in Files
<1>1. toRemote \in Seq(Frame) /\ toRemote # << >> /\ Head(toRemote).kind = kind
  BY Zenon DEF WellFormed, TypeOK, LinkTypeOK, FrameIs
<1>2. Head(toRemote) \in Frame /\ Head(toRemote) = toRemote[1] /\ 1 \in FrameAt
  BY <1>1, TailElements, Zenon DEF FrameAt
<1>3. Head(toRemote).num \in Nat /\ Head(toRemote).tx \in Nat
  BY <1>2, Zenon DEF Frame
<1> QED
  BY <1>1, <1>2, <1>3, Zenon DEF WellFormed

\* Only an ANNOUNCE, an END and a restart say something new of a reopened partition.
LEMMA ReopenedTyped ==
  ASSUME rReopened \in BOOLEAN, ReceiverNext
  PROVE  rReopened' \in BOOLEAN
<1>1. rReopened' \in {rReopened, TRUE, FALSE} => rReopened' \in BOOLEAN
  BY Zenon
<1>2. CASE HandleAnnounce
  <2>1. UNCHANGED rVars \/ rReopened' = (rReopened \/ rBoot)
          \/ rReopened' = (rReopened \/ (rBoot /\ rFlash' # rFlash))
    BY <1>2, Zenon DEF HandleAnnounce
  <2> QED
    BY <1>1, <2>1, Zenon DEF rVars
<1>3. CASE HandleFileData \/ HandleEnd \/ HandleAbort \/ RepeatComplete \/ ReceiverTimeout \/ Restart
  BY <1>1, <1>3, Zenon DEF HandleFileData, HandleEnd, HandleAbort, RepeatComplete,
       ReceiverTimeout, AbortTransfer, Restart, rVars
<1>4. CASE HandleBlastComplete
  BY <1>1, <1>4, Zenon DEF HandleBlastComplete, WriteIncrement, StartIncrement, AbortTransfer, rVars
<1> QED
  BY <1>2, <1>3, <1>4, Zenon DEF ReceiverNext

\* The receiver's variables and the acks keep their types.
LEMMA ReceiverTyped ==
  ASSUME WellFormed, ReceiverNext
  PROVE  ReceiverTypeOK' /\ ReceiverShape' /\ toBridge' \in Seq(Ack)
<1>1. /\ ReceiverTypeOK /\ ReceiverShape /\ toBridge \in Seq(Ack) /\ toRemote \in Seq(Frame)
      /\ rReopened' \in BOOLEAN
  BY ReopenedTyped, Zenon DEF WellFormed, TypeOK, LinkTypeOK, ReceiverShape, ReceiverTypeOK
<1>2. ASSUME NEW q \in Seq(Ack), NEW a \in Ack PROVE Acked(q, a) \in Seq(Ack)
  BY AppendElements, Zenon DEF Acked
<1>3. EmptyBuffer \in [Slots -> ChunkOrNone] /\ NoFile \in FileOrNone
  BY EmptyBufferTyped, Zenon DEF FileOrNone
<1>4. ASSUME NEW q \in Seq(Ack), AbortTransfer(q), rFlash' \in Seq(ChunkOrNone), rRewrote' \in BOOLEAN
      PROVE  ReceiverTypeOK' /\ ReceiverShape' /\ toBridge' \in Seq(Ack)
  <2>1. toBridge' \in Seq(Ack)
    BY <1>2, <1>4, AcksTyped, ZenonT(30) DEF AbortTransfer
  <2>2. ReceiverTypeOK'
    BY <1>1, <1>3, <1>4, ZenonT(30) DEF AbortTransfer, ResetReceiver, ReceiverTypeOK
  <2> QED
    BY <1>4, <2>1, <2>2, ZenonT(30) DEF AbortTransfer, ResetReceiver, ReceiverShape
<1>5. ASSUME UNCHANGED rVars, toBridge' \in Seq(Ack)
      PROVE  ReceiverTypeOK' /\ ReceiverShape' /\ toBridge' \in Seq(Ack)
  BY <1>1, <1>5, Zenon DEF rVars, ReceiverTypeOK, ReceiverShape
<1>6. << >> \in Seq(ChunkOrNone)
  OBVIOUS
<1>7. CASE HandleAnnounce
  <2> DEFINE f      == Head(toRemote).file
             accept == AckOf("ACCEPT", Head(toRemote).tx, TRUE, {})
             reject == AckOf("REJECT", Head(toRemote).tx, FALSE, {})
  <2>1. f \in Files /\ Head(toRemote).tx \in Nat
    BY <1>7, HeadTyped, Zenon DEF HandleAnnounce
  <2>2. accept \in Ack /\ reject \in Ack
    BY Zenon, <2>1, AcksTyped
  <2>3. Acked(toBridge, accept) \in Seq(Ack) /\ Acked(toBridge, reject) \in Seq(Ack)
        /\ Append(toBridge, accept) \in Seq(Ack)
    BY ZenonT(30), <1>1, <1>2, <2>2, AppendElements
  <2>4. toBridge' \in Seq(Ack)
    BY <1>1, <1>7, <2>3, Zenon DEF HandleAnnounce
  <2>5. CASE UNCHANGED rVars
    BY ZenonT(30), <1>5, <2>4, <2>5
  <2>6. CASE /\ rFlash' \in {rFlash, << >>}
             /\ UNCHANGED <<rState, rFile, rInc, rRound, rBuf, rAcks, rRestart, rBoot, rRunning,
                           rRewrote, rBuffered, rVerified>>
    <3>1. rFlash' \in Seq(ChunkOrNone)
      BY <1>1, <1>6, <2>6, ZenonT(30) DEF ReceiverTypeOK
    <3> QED
      BY <1>1, <2>4, <2>6, <3>1, ZenonT(30) DEF ReceiverTypeOK, ReceiverShape
  <2>7. CASE /\ rFlash' = << >> /\ rRewrote' = FALSE
             /\ rInc' = 0 /\ rRound' = 0 /\ rBuf' = EmptyBuffer
             /\ \/ rState' = "RECEIVING" /\ rFile' = f
                \/ rState' = "IDLE" /\ rFile' = NoFile
             /\ UNCHANGED <<rAcks, rRestart, rBoot, rRunning, rBuffered, rVerified>>
    <3>1. 0 < RGeo(f).incs
      BY <2>1, FileGeometry DEF SoundGeometry
    <3>2. rFile' \in FileOrNone /\ rState' \in {"RECEIVING", "IDLE"}
      BY <1>3, <2>1, <2>7, Zenon DEF FileOrNone
    <3>3. ReceiverTypeOK'
      BY <1>1, <1>3, <1>6, <2>7, <3>2, ZenonT(30) DEF ReceiverTypeOK
    <3>4. rState' # "IDLE" => rFile' = f /\ rInc' = 0
      BY Zenon, <2>7
    <3>5. ReceiverShape'
      BY <2>1, <3>1, <3>4, Zenon DEF ReceiverShape
    <3> QED
      BY ZenonT(30), <2>4, <3>3, <3>5
  <2> QED
    BY <1>7, <2>5, <2>6, <2>7, ZenonT(30) DEF HandleAnnounce
<1>8. CASE HandleFileData
  <2> DEFINE frame == Head(toRemote)
  <2>1. frame.file \in Files /\ frame.num \in Nat
    BY <1>8, HeadTyped, Zenon DEF HandleFileData
  <2>2. CASE Storable(frame)
    <3>1. rFile \in Files /\ frame.num % RGeo(rFile).cpi \in Slots
      <4>1. rFile \in Files /\ RGeo(rFile).cpi \in Nat \ {0} /\ Slots = 0 .. RGeo(rFile).cpi - 1
        BY <1>1, <2>2, FileGeometry, Zenon DEF Storable, ReceiverShape, SoundGeometry
      <4> QED
        BY <2>1, <4>1
    <3>2. Chunk(frame.file, frame.num) \in ChunkOrNone
      BY <2>1, Zenon DEF Chunk, ChunkOrNone, FileOrNone
    <3>3. rBuf' \in [Slots -> ChunkOrNone]
      BY <1>1, <1>8, <2>2, <3>1, <3>2, Zenon DEF HandleFileData, ReceiverTypeOK
    <3>4. rBuffered' \in SUBSET ChunkOrNone
      BY <1>1, <1>8, <2>2, <3>2, Zenon DEF HandleFileData, ReceiverTypeOK
    <3> QED
      BY <1>1, <1>8, <3>3, <3>4, ZenonT(30) DEF HandleFileData, ReceiverTypeOK, ReceiverShape
  <2>3. CASE ~Storable(frame)
    BY <1>1, <1>8, <2>3, Zenon DEF HandleFileData, ReceiverTypeOK, ReceiverShape
  <2> QED
    BY Zenon, <2>2, <2>3
<1>9. CASE HandleBlastComplete
  <2> DEFINE inc   == Head(toRemote).num
             tx    == Head(toRemote).tx
             clear == AckOf("GAPS", tx, TRUE, {})
  <2>1. tx \in Nat /\ clear \in Ack
    BY <1>9, HeadTyped, AcksTyped, Zenon DEF HandleBlastComplete
  <2>2. Append(toBridge, clear) \in Seq(Ack) /\ Acked(toBridge, clear) \in Seq(Ack)
    BY ZenonT(30), <1>1, <1>2, <2>1, AppendElements
  <2>3. CASE UNCHANGED rVars /\ toBridge' \in {toBridge, Acked(toBridge, clear)}
    BY ZenonT(30), <1>1, <1>5, <2>2, <2>3
  <2>4. CASE rState = "RECEIVING" /\ WriteIncrement(Append(toBridge, clear), clear)
    <3>1. rState # "IDLE" /\ BufferedChunks \in Seq(ChunkOrNone) /\ rFile \in Files
          /\ rInc \in Nat /\ RGeo(rFile).incs \in Nat /\ ChunksIn(RGeo(rFile), rInc) \in Nat
          /\ Len(BufferedChunks) = ChunksIn(RGeo(rFile), rInc)
      BY <1>1, <2>4, BufferTyped, FileGeometry, ZenonT(30) DEF ReceiverShape, SoundGeometry, ReceiverTypeOK
    <3>2. \A i \in 0 .. ChunksIn(RGeo(rFile), rInc) : SubSeq(BufferedChunks, 1, i) \in Seq(ChunkOrNone)
      BY <3>1
    <3>3. rFlash \in Seq(ChunkOrNone)
      BY <1>1, Zenon DEF ReceiverTypeOK
    <3>4. CASE \E i, j \in 0 .. ChunksIn(RGeo(rFile), rInc) :
                 /\ rFlash' = rFlash \o SubSeq(BufferedChunks, 1, i) \o SubSeq(BufferedChunks, 1, j)
                 /\ rRewrote' = TRUE
                 /\ AbortTransfer(Append(toBridge, clear))
      <4>1. rFlash' \in Seq(ChunkOrNone)
        BY <3>2, <3>3, <3>4
      <4> QED
        BY ZenonT(30), <1>4, <2>2, <3>4, <4>1
    <3>5. CASE \E i \in 0 .. ChunksIn(RGeo(rFile), rInc) :
           /\ rFlash' = rFlash \o SubSeq(BufferedChunks, 1, i)
                               \o (IF i < ChunksIn(RGeo(rFile), rInc) THEN BufferedChunks ELSE << >>)
           /\ rRewrote' = (rRewrote \/ i < ChunksIn(RGeo(rFile), rInc))
           /\ toBridge' = Acked(Append(toBridge, clear), clear)
           /\ IF rInc + 1 >= RGeo(rFile).incs
              THEN /\ rState' = "WAITING_END"
                   /\ UNCHANGED <<rInc, rRound, rBuf>>
              ELSE /\ rState' = "RECEIVING"
                   /\ rInc' = rInc + 1
                   /\ rRound' = 0
                   /\ rBuf' = EmptyBuffer
           /\ UNCHANGED <<rFile, rAcks, rRestart, rBoot, rRunning, rBuffered, rVerified>>
      <4>1. rFlash' \in Seq(ChunkOrNone)
        BY <1>6, <3>1, <3>2, <3>3, <3>5
      <4>2. rRewrote' \in BOOLEAN
        BY Zenon, <3>5
      <4>3. toBridge' \in Seq(Ack)
        BY ZenonT(30), <1>2, <2>1, <2>2, <3>5
      <4>4. /\ rState' \in {"RECEIVING", "WAITING_END"} /\ rInc' \in Nat /\ rRound' \in Nat
            /\ rBuf' \in [Slots -> ChunkOrNone] /\ rInc' < RGeo(rFile).incs
        BY <1>1, <1>3, <2>4, <3>1, <3>5, SMTT(30) DEF ReceiverTypeOK, ReceiverShape
      <4>5. UNCHANGED <<rFile, rAcks, rRestart, rBoot, rRunning, rBuffered, rVerified>>
        BY Zenon, <3>5
      <4> QED
        BY <1>1, <3>1, <4>1, <4>2, <4>3, <4>4, <4>5, ZenonT(30) DEF ReceiverTypeOK, ReceiverShape
    <3>6. ChunksIn(RGeo(rFile), rInc) \in 0 .. ChunksIn(RGeo(rFile), rInc)
      BY <3>1
    <3> QED
      BY <2>4, <3>4, <3>5, <3>6, ZenonT(30) DEF WriteIncrement, StartIncrement
  <2>5. CASE rState' = "WRITING" /\ rState = "RECEIVING" /\
             UNCHANGED <<toBridge, rFile, rInc, rRound, rBuf, rAcks, rRestart, rFlash,
                         rBoot, rRunning, rRewrote, rBuffered, rVerified>>
    BY <1>1, <2>5, Zenon DEF ReceiverTypeOK, ReceiverShape
  <2>6. CASE AbortTransfer(toBridge) /\ UNCHANGED <<rFlash, rRewrote>>
    BY <1>1, <1>4, <2>6, Zenon DEF ReceiverTypeOK
  <2>7. CASE /\ rState = "RECEIVING" /\ rRound' = rRound + 1
             /\ toBridge' = Acked(toBridge, AckOf("GAPS", tx, FALSE, ReceivedBits))
             /\ UNCHANGED <<rState, rFile, rInc, rBuf, rAcks, rRestart, rFlash, rBoot,
                            rRunning, rRewrote, rBuffered, rVerified>>
    <3>1. ReceivedBits \in SUBSET Nat
      <4>1. ChunksIn(RGeo(rFile), rInc) \in Nat
        BY Zenon, <2>7, BufferTyped
      <4> QED
        BY <4>1 DEF ReceivedBits
    <3>2. toBridge' \in Seq(Ack)
      BY ZenonT(30), <1>1, <1>2, <2>1, <2>7, <3>1, AcksTyped
    <3>3. rRound' \in Nat
      BY <1>1, <2>7 DEF ReceiverTypeOK
    <3> QED
      BY <1>1, <2>7, <3>2, <3>3, ZenonT(30) DEF ReceiverTypeOK, ReceiverShape
  <2>8. CASE UNCHANGED <<toBridge, rVars>>
    BY Zenon, <2>3, <2>8
  <2>9. CASE /\ rState = "RECEIVING"
             /\ \E ok \in AckResults(toBridge) :
                 IF ok THEN WriteIncrement(Append(toBridge, clear), clear)
                 ELSE /\ rState' = "WRITING"
                      /\ UNCHANGED <<toBridge, rFile, rInc, rRound, rBuf, rAcks, rRestart, rFlash,
                                     rBoot, rRunning, rRewrote, rBuffered, rVerified>>
    BY Zenon, <2>4, <2>5, <2>9
  <2>10. CASE rState = "RECEIVING" /\ toBridge' = Acked(toBridge, clear) /\ UNCHANGED rVars
    BY Zenon, <2>3, <2>10
  <2> QED
    BY <1>9, <2>6, <2>7, <2>8, <2>9, <2>10, ZenonT(30) DEF HandleBlastComplete
<1>10. CASE HandleEnd
  <2>1. AckOf("COMPLETE", 0, FALSE, {}) \in Ack
    BY Zenon, AcksTyped
  <2>2. CASE UNCHANGED <<toBridge, rVars>>
    BY Zenon, <1>1, <1>5, <2>2
  <2>3. CASE /\ rState = "WAITING_END" /\ rState' = "VERIFYING" /\ rAcks' = CompleteAcks /\ rBoot' = TRUE
             /\ rVerified' = rVerified \cup {rFile}
             /\ UNCHANGED <<toBridge, rFile, rInc, rRound, rBuf, rRestart, rFlash, rRunning,
                            rRewrote, rBuffered>>
    <3>1. rVerified' \in SUBSET Files
      BY <1>1, <2>3, Zenon DEF ReceiverShape, ReceiverTypeOK
    <3> QED
      BY <1>1, <2>3, <3>1, ReceiverAssumption, Zenon DEF ReceiverTypeOK, ReceiverShape
  <2>4. CASE /\ toBridge' = Acked(toBridge, AckOf("COMPLETE", 0, FALSE, {})) /\ ResetReceiver
             /\ UNCHANGED <<rRestart, rFlash, rBoot, rRunning, rRewrote, rBuffered, rVerified>>
    BY <1>1, <1>2, <1>3, <2>1, <2>4, ZenonT(30) DEF ResetReceiver, ReceiverTypeOK, ReceiverShape
  <2> QED
    BY <1>10, <2>2, <2>3, <2>4, Zenon DEF HandleEnd
<1>11. CASE HandleAbort
  BY <1>1, <1>3, <1>11, Zenon DEF HandleAbort, ResetReceiver, ReceiverTypeOK, ReceiverShape
<1>12. CASE RepeatComplete
  <2>1. toBridge' \in Seq(Ack)
    BY <1>1, <1>2, <1>12, AcksTyped, Zenon DEF RepeatComplete
  <2>2. UNCHANGED <<rFlash, rBoot, rRunning, rRewrote, rBuffered, rVerified>>
    BY <1>12, Zenon DEF RepeatComplete
  <2>3. CASE MoreCompleteAcks
    <3>1. rAcks' = rAcks - 1 /\ UNCHANGED <<rState, rFile, rInc, rRound, rBuf, rRestart>>
      BY <1>12, <2>3, Zenon DEF RepeatComplete
    <3>2. rAcks' \in Nat
      BY <1>1, <2>3, <3>1 DEF ReceiverTypeOK, MoreCompleteAcks
    <3> QED
      BY <1>1, <2>1, <2>2, <3>1, <3>2, Zenon DEF ReceiverTypeOK, ReceiverShape
  <2>4. CASE ~MoreCompleteAcks
    <3>1. ResetReceiver /\ rRestart' = TRUE
      BY <1>12, <2>4, Zenon DEF RepeatComplete
    <3> QED
      BY <1>1, <1>3, <2>1, <2>2, <3>1, Zenon DEF ResetReceiver, ReceiverTypeOK, ReceiverShape
  <2> QED
    BY Zenon, <2>3, <2>4
<1>13. CASE ReceiverTimeout
  BY <1>1, <1>4, <1>13, Zenon DEF ReceiverTimeout, ReceiverTypeOK
<1>14. CASE Restart
  <2>1. rRunning' \in FileOrNone
    BY <1>1, <1>14, Zenon DEF Restart, ReceiverTypeOK, FileOrNone
  <2>2. /\ ResetReceiver /\ rRestart' = FALSE /\ rBoot' = FALSE /\ rFlash' = << >> /\ toBridge' = << >>
        /\ UNCHANGED <<rRewrote, rBuffered, rVerified>>
    BY <1>14, Zenon DEF Restart
  <2>3. ReceiverTypeOK'
    BY <1>1, <1>3, <1>6, <2>1, <2>2, ZenonT(30) DEF ResetReceiver, ReceiverTypeOK
  <2> QED
    BY <2>2, <2>3 DEF ResetReceiver, ReceiverShape
<1> QED
  BY <1>7, <1>8, <1>9, <1>10, <1>11, <1>12, <1>13, <1>14, ZenonT(30) DEF ReceiverNext

\* Frames that are left are old ones, without the first d.
FramesLeft ==
  /\ toRemote' \in Seq(Frame)
  /\ \E d \in 0 .. Len(toRemote) :
       /\ Len(toRemote') = Len(toRemote) - d
       /\ \A i \in FrameAt' : i + d \in FrameAt /\ toRemote'[i] = toRemote[i + d]

\* Acks that are left are old ones.
AcksLeft ==
  /\ toBridge' \in Seq(Ack)
  /\ \A i \in AckAt' : \E k \in AckAt : toBridge'[i] = toBridge[k]

\* Taking a frame or an ack leaves the others.
LEMMA QueuesLeft ==
  ASSUME TypeOK
  PROVE  /\ \/ toRemote' = toRemote
            \/ toRemote # << >> /\ toRemote' = Tail(toRemote)
            \/ toRemote' = << >>
            => FramesLeft
         /\ \/ toBridge' = toBridge
            \/ toBridge # << >> /\ toBridge' = Tail(toBridge)
            \/ toBridge' = << >>
            => AcksLeft
<1>1. toRemote \in Seq(Frame) /\ toBridge \in Seq(Ack) /\ Len(toRemote) \in Nat /\ Len(toBridge) \in Nat
  BY DEF TypeOK, LinkTypeOK
<1>2. ASSUME toRemote' = toRemote PROVE FramesLeft
  <2>1. 0 \in 0 .. Len(toRemote) /\ Len(toRemote') = Len(toRemote) - 0
        /\ \A i \in FrameAt' : i + 0 \in FrameAt /\ toRemote'[i] = toRemote[i + 0]
    BY <1>1, <1>2 DEF FrameAt
  <2> QED
    BY <1>1, <1>2, <2>1, Zenon DEF FramesLeft
<1>3. ASSUME toRemote # << >>, toRemote' = Tail(toRemote) PROVE FramesLeft
  <2>1. 1 \in 0 .. Len(toRemote) /\ Len(toRemote') = Len(toRemote) - 1
        /\ \A i \in FrameAt' : i + 1 \in FrameAt /\ toRemote'[i] = toRemote[i + 1]
    BY <1>1, <1>3, TailElements DEF FrameAt
  <2> QED
    BY <1>1, <1>3, <2>1, TailElements, Zenon DEF FramesLeft
<1>4. ASSUME toRemote' = << >> PROVE FramesLeft
  <2>1. Len(toRemote) \in 0 .. Len(toRemote) /\ Len(toRemote') = Len(toRemote) - Len(toRemote)
        /\ FrameAt' = {} /\ toRemote' \in Seq(Frame)
    BY <1>1, <1>4 DEF FrameAt
  <2> QED
    BY <2>1, Zenon DEF FramesLeft
<1>5. ASSUME toBridge' = toBridge PROVE AcksLeft
  BY <1>1, <1>5, Zenon DEF AcksLeft, AckAt
<1>6. ASSUME toBridge # << >>, toBridge' = Tail(toBridge) PROVE AcksLeft
  BY <1>1, <1>6, TailElements, ZenonT(30) DEF AcksLeft, AckAt
<1>7. ASSUME toBridge' = << >> PROVE AcksLeft
  BY <1>1, <1>7 DEF AcksLeft, AckAt
<1> QED
  BY Zenon, <1>2, <1>3, <1>4, <1>5, <1>6, <1>7

\* The frames of a bridge step are typed and data is sent for a known file.
LEMMA BridgeQueues ==
  ASSUME WellFormed, BridgeEffect
  PROVE  /\ toRemote' \in Seq(Frame) /\ toBridge' \in Seq(Ack) /\ txCounter' \in Nat
         /\ AcksLeft
         /\ \A i \in FrameAt' :
              \/ i \in FrameAt /\ toRemote'[i] = toRemote[i]
              \/ i > Len(toRemote) /\ (toRemote'[i].kind \in {"ANNOUNCE", "DATA"} => toRemote'[i].file \in Files)
         /\ bState' # "IDLE" => bFile' \in Files
<1>1. /\ TypeOK /\ toRemote \in Seq(Frame) /\ toBridge \in Seq(Ack) /\ txCounter \in Nat
      /\ (bState # "IDLE" => bFile \in Files) /\ Len(toRemote) \in Nat
  BY DEF WellFormed, TypeOK, LinkTypeOK, Busy
<1>2. AcksLeft
  <2>1. toBridge' = toBridge \/ AckTaken
    BY Zenon DEF BridgeEffect, Ends, Announces, Blasts, IgnoresAck, Accepts, ActsOnGaps, ResendsEnd,
           TakesSourceChunk
  <2> QED
    BY <1>1, <2>1, QueuesLeft, Zenon DEF AckTaken
<1>3. txCounter' \in Nat
  <2>1. CASE Ends \/ IgnoresAck \/ Accepts
    BY <1>1, <2>1, Zenon DEF Ends, IgnoresAck, Accepts
  <2>2. CASE ActsOnGaps \/ ResendsEnd \/ TakesSourceChunk
    BY <1>1, <2>2, ZenonT(30) DEF ActsOnGaps, ResendsEnd, TakesSourceChunk
  <2>3. CASE Announces \/ Blasts
    BY <1>1, <2>3 DEF Announces, Blasts
  <2> QED
    BY <2>1, <2>2, <2>3, Zenon DEF BridgeEffect
<1>4. bState' # "IDLE" => bFile' \in Files
  BY <1>1, ZenonT(30) DEF BridgeEffect, Ends, Announces, Blasts, IgnoresAck, Accepts, ActsOnGaps, ResendsEnd,
              TakesSourceChunk, Blasting
<1>5. \A e \in DataFrames \cup {Abort, End} \cup {BlastComplete(bInc, txCounter + 1)} :
        e.kind \in {"ANNOUNCE", "DATA"} => e.file \in Files
  BY <1>1 DEF DataFrames, Accepted, Blasting, Data, Abort, End, BlastComplete
<1>6. CASE Ends \/ Blasts \/ ResendsEnd \/ (ActsOnGaps /\ bState' = "ENDING")
  <2>1. PICK new : Grows(new) /\ new \subseteq DataFrames \cup {Abort, End} \cup {BlastComplete(bInc, txCounter + 1)}
    BY <1>6, Zenon DEF Ends, Blasts, ResendsEnd, ActsOnGaps
  <2> QED
    BY <1>2, <1>3, <1>4, <1>5, <2>1, ZenonT(30) DEF Grows, AcksLeft
<1>7. CASE toRemote' = toRemote
  BY <1>1, <1>2, <1>3, <1>4, <1>7, ZenonT(30) DEF AcksLeft, FrameAt
<1>8. CASE Announces /\ toRemote' = Append(toRemote, Announce(bFile', txCounter + 1)) /\ bFile' \in Files
  <2>1. PICK e \in Frame : e = Announce(bFile', txCounter + 1) /\ e.file \in Files
    BY <1>1, <1>8, FramesTyped DEF Announce
  <2>2. /\ toRemote' \in Seq(Frame) /\ Len(toRemote') = Len(toRemote) + 1
        /\ \A i \in 1 .. Len(toRemote) : toRemote'[i] = toRemote[i]
        /\ toRemote'[Len(toRemote) + 1] = e
    BY <1>1, <1>8, <2>1, AppendElements
  <2>3. \A i \in FrameAt' : i \in FrameAt \/ i = Len(toRemote) + 1
    BY <1>1, <2>2 DEF FrameAt
  <2> QED
    BY <1>1, <1>2, <1>3, <1>4, <2>1, <2>2, <2>3, SMTT(30) DEF AcksLeft, FrameAt
<1> QED
  BY <1>6, <1>7, <1>8, ZenonT(30) DEF BridgeEffect, Announces, IgnoresAck, Accepts, ActsOnGaps, TakesSourceChunk

\* Every step keeps the first layer.
LEMMA StepWellFormed == WellFormed /\ [Next]_vars => WellFormed'
<1> SUFFICES ASSUME WellFormed, [Next]_vars PROVE WellFormed'
  BY Zenon
<1>1. /\ TypeOK /\ LinkTypeOK /\ BridgeTypeOK /\ ReceiverTypeOK
      /\ \A i \in FrameAt : toRemote[i].kind \in {"ANNOUNCE", "DATA"} => toRemote[i].file \in Files
      /\ (bState # "IDLE" => bFile \in Files) /\ ReceiverShape
  BY Zenon DEF WellFormed, TypeOK, Busy, ReceiverShape
<1>2. ASSUME FramesLeft
      PROVE  \A i \in FrameAt' : toRemote'[i].kind \in {"ANNOUNCE", "DATA"} => toRemote'[i].file \in Files
  BY <1>1, <1>2, Zenon DEF FramesLeft
<1>3. ASSUME UNCHANGED rVars PROVE ReceiverTypeOK' /\ ReceiverShape'
  BY <1>1, <1>3, Zenon DEF rVars, ReceiverTypeOK, ReceiverShape
<1>4. ASSUME UNCHANGED bVars PROVE BridgeTypeOK' /\ (bState' # "IDLE" => bFile' \in Files)
  BY <1>1, <1>4, ZenonT(30) DEF bVars, trackerVars, BridgeTypeOK
<1>5. CASE (BridgeSteps \/ BridgeTimers) /\ UNCHANGED rVars
  <2>1. BridgeTypeOK' /\ losses' = losses
    BY Zenon, <1>5, BridgeTyped
  <2>2. BridgeEffect
    BY Zenon, <1>5, BridgeStepEffect
  <2>3. LinkTypeOK'
    BY <1>1, <2>1, <2>2, BridgeQueues, ZenonT(30) DEF LinkTypeOK
  <2>4. \A i \in FrameAt' : toRemote'[i].kind \in {"ANNOUNCE", "DATA"} => toRemote'[i].file \in Files
    BY Zenon, <1>1, <2>2, BridgeQueues
  <2> QED
    BY <1>3, <1>5, <2>1, <2>2, <2>3, <2>4, BridgeQueues, ZenonT(30) DEF WellFormed, TypeOK, Busy, ReceiverShape
<1>6. CASE ReceiverNext /\ UNCHANGED bVars
  <2>1. FramesLeft /\ txCounter' = txCounter /\ losses' = losses
    BY Zenon, <1>1, <1>6, FramesTaken, QueuesLeft
  <2>2. ReceiverTypeOK' /\ ReceiverShape' /\ toBridge' \in Seq(Ack)
    BY Zenon, <1>6, ReceiverTyped
  <2>3. LinkTypeOK'
    BY <1>1, <2>1, <2>2, Zenon DEF LinkTypeOK, FramesLeft
  <2> QED
    BY <1>2, <1>4, <1>6, <2>1, <2>2, <2>3, ZenonT(30) DEF WellFormed, TypeOK, Busy, ReceiverShape
<1>7. CASE (LoseFrame \/ LoseAck) /\ UNCHANGED <<bVars, rVars>>
  <2>1. FramesLeft /\ AcksLeft /\ txCounter' = txCounter /\ losses' = losses + 1
    BY <1>1, <1>7, QueuesLeft, ZenonT(30) DEF LoseFrame, LoseAck
  <2>2. LinkTypeOK'
    BY <1>1, <2>1 DEF LinkTypeOK, FramesLeft, AcksLeft
  <2> QED
    BY <1>2, <1>3, <1>4, <1>7, <2>1, <2>2, ZenonT(30) DEF WellFormed, TypeOK, Busy, ReceiverShape
<1>8. CASE UNCHANGED vars
  <2>1. FramesLeft /\ UNCHANGED <<linkVars, bVars, rVars>>
    BY <1>1, <1>8, QueuesLeft, Zenon DEF vars, linkVars
  <2>2. LinkTypeOK'
    BY <1>1, <2>1, Zenon DEF LinkTypeOK, linkVars
  <2> QED
    BY <1>2, <1>3, <1>4, <2>1, <2>2, Zenon DEF WellFormed, TypeOK, Busy, ReceiverShape
<1> QED
  BY <1>5, <1>6, <1>7, <1>8, Zenon DEF Next

\* Every variable of both machines and of the link keeps its type, for any
\* files, chunk size, queue lengths and retry limits: increments stay inside
\* the file and acks and frames are well formed on every error path.
THEOREM TypeCorrect == Spec => []TypeOK
<1>1. WellFormed => TypeOK
  BY Zenon DEF WellFormed
<1> QED
  BY <1>1, InitWellFormed, StepWellFormed, PTL DEF Spec

-----------------------------------------------------------------------------
(* The effect of a receiver step.                                           *)

\* New acks are only added at the end, and come from the set new.
AcksGrow(new) ==
  /\ toBridge' \in Seq(Ack)
  /\ Len(toBridge') >= Len(toBridge)
  /\ \A i \in AckAt' : (i \in AckAt /\ toBridge'[i] = toBridge[i]) \/ toBridge'[i] \in new
  /\ \A i \in AckAt : i \in AckAt' /\ toBridge'[i] = toBridge[i]

\* Acks that do not lead the bridge on.
NeutralAcks ==
  {a \in Ack : /\ a.kind \in {"REJECT", "COMPLETE", "ABORT"}
               /\ a.ref = 0 \/ (toRemote # << >> /\ a.ref = Head(toRemote).tx)}

HeadTx == Head(toRemote).tx
AcceptAck == AckOf("ACCEPT", HeadTx, TRUE, {})
ClearAck == AckOf("GAPS", HeadTx, TRUE, {})
ReportAck == AckOf("GAPS", HeadTx, FALSE, ReceivedBits)

\* A BLAST_COMPLETE of the current increment finds the buffer complete.
Finishes ==
  /\ FrameIs("BLAST_COMPLETE") /\ rState = "RECEIVING"
  /\ Head(toRemote).num = rInc /\ BufferComplete

\* No transfer in progress after the step.
Quits ==
  /\ rState' = "IDLE" /\ UNCHANGED rBuffered
  /\ \/ AcksGrow(NeutralAcks)
     \/ toBridge' = << >>
     \/ Finishes /\ AcksGrow(NeutralAcks \cup {ClearAck})

\* The transfer in progress is left as it is.
Keeps == UNCHANGED <<rFile, rInc, rBuf, rFlash, rRewrote, rBuffered>>

Written(state) == state \in {"WAITING_END", "VERIFYING"}

Holds ==
  /\ Keeps /\ rState # "IDLE" /\ rState' # "IDLE" /\ Written(rState') = Written(rState)
  /\ AcksGrow(NeutralAcks)

Begins ==
  /\ FrameIs("ANNOUNCE") /\ rState = "IDLE" /\ rState' = "RECEIVING"
  /\ rFile' = Head(toRemote).file /\ rInc' = 0 /\ rBuf' = EmptyBuffer
  /\ rFlash' = << >> /\ UNCHANGED rBuffered
  /\ AcksGrow({AcceptAck})

Reaccepts ==
  /\ FrameIs("ANNOUNCE") /\ rState # "IDLE" /\ rFile = Head(toRemote).file
  /\ Keeps /\ UNCHANGED rState
  /\ AcksGrow({AcceptAck})

Stores ==
  /\ FrameIs("DATA") /\ Storable(Head(toRemote))
  /\ rBuf' = [rBuf EXCEPT ![Head(toRemote).num % RGeo(rFile).cpi] =
                         Chunk(Head(toRemote).file, Head(toRemote).num)]
  /\ rBuffered' = rBuffered \cup {Chunk(Head(toRemote).file, Head(toRemote).num)}
  /\ UNCHANGED <<rState, rFile, rInc, rFlash, rRewrote, toBridge>>

Clears ==
  /\ FrameIs("BLAST_COMPLETE") /\ rState = "RECEIVING" /\ Head(toRemote).num < rInc
  /\ Keeps /\ UNCHANGED rState
  /\ AcksGrow({ClearAck})

Writes ==
  /\ Finishes
  /\ AcksGrow({ClearAck})
  /\ rRewrote' \/ (~rRewrote /\ rFlash' = rFlash \o BufferedChunks)
  /\ UNCHANGED <<rFile, rBuffered>>
  /\ IF rInc + 1 >= RGeo(rFile).incs
     THEN rState' = "WAITING_END" /\ UNCHANGED <<rInc, rBuf>>
     ELSE rState' = "RECEIVING" /\ rInc' = rInc + 1 /\ rBuf' = EmptyBuffer

Reports ==
  /\ FrameIs("BLAST_COMPLETE") /\ rState = "RECEIVING" /\ Head(toRemote).num = rInc
  /\ ~BufferComplete
  /\ Keeps /\ UNCHANGED rState
  /\ AcksGrow({ReportAck})

ReceiverEffect ==
  \/ Quits \/ Holds \/ Begins \/ Reaccepts \/ Stores \/ Clears \/ Writes \/ Reports

\* The ack queue grows by what is added to it.
LEMMA AcksGrowBy ==
  ASSUME toBridge \in Seq(Ack), NEW new
  PROVE  /\ toBridge' = toBridge => AcksGrow(new)
         /\ \A e \in Ack : e \in new /\ toBridge' = Append(toBridge, e) => AcksGrow(new)
         /\ \A e \in Ack : e \in new /\ toBridge' = Acked(toBridge, e) => AcksGrow(new)
         /\ \A d, e \in Ack :
              {d, e} \subseteq new /\ toBridge' = Acked(Append(toBridge, d), e) => AcksGrow(new)
<1>1. ASSUME toBridge' = toBridge PROVE AcksGrow(new)
  BY <1>1 DEF AcksGrow, AckAt
<1>2. ASSUME NEW e \in Ack, e \in new, toBridge' = Append(toBridge, e) PROVE AcksGrow(new)
  <2>1. /\ toBridge' \in Seq(Ack) /\ Len(toBridge') = Len(toBridge) + 1 /\ Len(toBridge) \in Nat
        /\ \A i \in 1 .. Len(toBridge) : toBridge'[i] = toBridge[i]
        /\ toBridge'[Len(toBridge) + 1] = e
    BY <1>2, AppendElements
  <2>2. \A i \in AckAt' : i \in AckAt \/ i = Len(toBridge) + 1
    BY <2>1 DEF AckAt
  <2> QED
    BY <1>2, <2>1, <2>2 DEF AcksGrow, AckAt
<1>3. ASSUME NEW e \in Ack, e \in new, toBridge' = Acked(toBridge, e) PROVE AcksGrow(new)
  BY <1>1, <1>2, <1>3, Zenon DEF Acked
<1>4. ASSUME NEW d \in Ack, NEW e \in Ack, {d, e} \subseteq new,
             toBridge' = Append(Append(toBridge, d), e)
      PROVE  AcksGrow(new)
  <2>1. PICK q \in Seq(Ack) : q = Append(toBridge, d)
    BY Zenon, AppendElements
  <2>2. /\ Len(q) = Len(toBridge) + 1 /\ q[Len(toBridge) + 1] = d
        /\ \A i \in 1 .. Len(toBridge) : q[i] = toBridge[i]
        /\ Len(toBridge) \in Nat
    BY <2>1, AppendElements
  <2>3. /\ toBridge' \in Seq(Ack) /\ Len(toBridge') = Len(q) + 1 /\ toBridge'[Len(q) + 1] = e
        /\ \A i \in 1 .. Len(q) : toBridge'[i] = q[i]
    BY <1>4, <2>1, AppendElements
  <2>4. \A i \in AckAt' : i \in AckAt \/ i = Len(toBridge) + 1 \/ i = Len(toBridge) + 2
    BY <2>2, <2>3 DEF AckAt
  <2> QED
    BY <1>4, <2>2, <2>3, <2>4 DEF AcksGrow, AckAt
<1>5. ASSUME NEW d \in Ack, NEW e \in Ack, {d, e} \subseteq new,
             toBridge' = Acked(Append(toBridge, d), e)
      PROVE  AcksGrow(new)
  BY <1>2, <1>4, <1>5, Zenon DEF Acked
<1> QED
  BY Zenon, <1>1, <1>2, <1>3, <1>5

\* The acks the handlers send.
LEMMA AcksKnown ==
  ASSUME WellFormed
  PROVE  /\ AckOf("ABORT", 0, FALSE, {}) \in NeutralAcks
         /\ \A ok \in BOOLEAN : AckOf("COMPLETE", 0, ok, {}) \in NeutralAcks
         /\ \A kind : FrameIs(kind) =>
              /\ HeadTx \in Nat /\ AcceptAck \in Ack /\ ClearAck \in Ack
              /\ AckOf("REJECT", HeadTx, FALSE, {}) \in NeutralAcks
         /\ NeutralAcks \subseteq Ack
<1>1. \A ok \in BOOLEAN : AckOf("ABORT", 0, FALSE, {}) \in Ack /\ AckOf("COMPLETE", 0, ok, {}) \in Ack
  BY Zenon, AcksTyped
<1>2. ASSUME NEW kind, FrameIs(kind)
      PROVE  /\ HeadTx \in Nat /\ AcceptAck \in Ack /\ ClearAck \in Ack
             /\ AckOf("REJECT", HeadTx, FALSE, {}) \in NeutralAcks
  <2>1. HeadTx \in Nat /\ toRemote # << >>
    BY <1>2, HeadTyped, Zenon DEF HeadTx, FrameIs
  <2>2. AcceptAck \in Ack /\ ClearAck \in Ack /\ AckOf("REJECT", HeadTx, FALSE, {}) \in Ack
    BY <2>1, AcksTyped, Zenon DEF AcceptAck, ClearAck
  <2> QED
    BY <2>1, <2>2, Zenon DEF NeutralAcks, AckOf, HeadTx
<1>3. AckOf("ABORT", 0, FALSE, {}) \in NeutralAcks /\ \A ok \in BOOLEAN : AckOf("COMPLETE", 0, ok, {}) \in NeutralAcks
  BY <1>1, Zenon DEF NeutralAcks, AckOf
<1> QED
  BY <1>2, <1>3, Zenon DEF NeutralAcks

\* Every receiver step has one of the effects above.
LEMMA ReceiverStepEffect ==
  ASSUME WellFormed, ReceiverNext
  PROVE  ReceiverEffect
<1>1. toBridge \in Seq(Ack) /\ toRemote \in Seq(Frame) /\ NeutralAcks \subseteq Ack
  BY AcksKnown, Zenon DEF WellFormed, TypeOK, LinkTypeOK
<1>2. ASSUME AbortTransfer(toBridge) PROVE Quits
  BY <1>1, <1>2, AcksKnown, AcksGrowBy, Zenon DEF AbortTransfer, ResetReceiver, Quits
<1>3. ASSUME UNCHANGED rVars, AcksGrow(NeutralAcks) PROVE Quits \/ Holds
  BY <1>3, Zenon DEF rVars, Quits, Holds, Keeps
<1>4. CASE HandleAnnounce
  <2>1. FrameIs("ANNOUNCE") /\ AcceptAck \in Ack /\ AckOf("REJECT", HeadTx, FALSE, {}) \in NeutralAcks
    BY <1>4, AcksKnown, Zenon DEF HandleAnnounce
  <2>2. CASE UNCHANGED rVars /\ toBridge' = Acked(toBridge, AckOf("REJECT", HeadTx, FALSE, {}))
    BY <1>1, <1>3, <2>1, <2>2, AcksGrowBy, ZenonT(30) DEF ReceiverEffect
  <2>3. CASE /\ UNCHANGED rVars /\ toBridge' = Acked(toBridge, AcceptAck)
             /\ rState # "IDLE" /\ rFile = Head(toRemote).file
    <3>1. AcksGrow({AcceptAck})
      BY Zenon, <1>1, <2>1, <2>3, AcksGrowBy
    <3> QED
      BY <2>1, <2>3, <3>1, Zenon DEF ReceiverEffect, Reaccepts, Keeps, rVars
  <2>4. CASE /\ rState = "IDLE" /\ toBridge' = Acked(toBridge, AckOf("REJECT", HeadTx, FALSE, {}))
             /\ UNCHANGED <<rState, rBuffered>>
    <3>1. AcksGrow(NeutralAcks)
      BY Zenon, <1>1, <2>1, <2>4, AcksGrowBy
    <3> QED
      BY <2>4, <3>1, Zenon DEF ReceiverEffect, Quits
  <2>5. CASE /\ rState = "IDLE" /\ rState' = "RECEIVING" /\ rFile' = Head(toRemote).file
             /\ toBridge' = Append(toBridge, AcceptAck)
             /\ rFlash' = << >> /\ rInc' = 0 /\ rBuf' = EmptyBuffer /\ UNCHANGED rBuffered
    <3>1. AcksGrow({AcceptAck})
      BY Zenon, <1>1, <2>1, <2>5, AcksGrowBy
    <3> QED
      BY <2>1, <2>5, <3>1, Zenon DEF ReceiverEffect, Begins
  <2>6. CASE rState' = "IDLE" /\ UNCHANGED <<toBridge, rBuffered>>
    <3>1. AcksGrow(NeutralAcks)
      BY Zenon, <1>1, <2>6, AcksGrowBy
    <3> QED
      BY <2>6, <3>1, Zenon DEF ReceiverEffect, Quits
  <2>7. CASE /\ rState # "IDLE" /\ UNCHANGED rVars
             /\ toBridge' = Acked(toBridge, IF rFile = Head(toRemote).file /\ rState \in {"RECEIVING", "WRITING"}
                                            THEN AcceptAck ELSE AckOf("REJECT", HeadTx, FALSE, {}))
    BY Zenon, <2>2, <2>3, <2>7
  <2>8. CASE /\ rState = "IDLE"
             /\ rFlash' = << >> /\ rInc' = 0 /\ rBuf' = EmptyBuffer /\ UNCHANGED rBuffered
             /\ \E ok \in AckResults(toBridge) :
                  /\ rState' = IF ok THEN "RECEIVING" ELSE "IDLE"
                  /\ rFile' = IF ok THEN Head(toRemote).file ELSE NoFile
                  /\ toBridge' = IF ok THEN Append(toBridge, AcceptAck) ELSE toBridge
    BY Zenon, <2>5, <2>6, <2>8
  <2> QED
    BY <1>4, <2>4, <2>7, <2>8, Zenon DEF HandleAnnounce, Reannounced, AcceptAck, HeadTx
<1>5. CASE HandleFileData
  <2>1. CASE Storable(Head(toRemote))
    BY <1>5, <2>1, Zenon DEF HandleFileData, Stores, ReceiverEffect
  <2>2. CASE ~Storable(Head(toRemote))
    <3>1. UNCHANGED rVars /\ AcksGrow(NeutralAcks)
      BY <1>1, <1>5, <2>2, AcksGrowBy, Zenon DEF HandleFileData, rVars
    <3> QED
      BY <1>3, <3>1, Zenon DEF ReceiverEffect
  <2> QED
    BY Zenon, <2>1, <2>2
<1>6. CASE HandleBlastComplete
  <2>1. FrameIs("BLAST_COMPLETE") /\ ClearAck \in Ack /\ HeadTx \in Nat
    BY <1>6, AcksKnown, Zenon DEF HandleBlastComplete
  <2>2. CASE UNCHANGED <<toBridge, rVars>>
    BY <1>1, <1>3, <2>2, AcksGrowBy, Zenon DEF ReceiverEffect
  <2>3. CASE /\ rState = "RECEIVING" /\ Head(toRemote).num < rInc
             /\ toBridge' = Acked(toBridge, ClearAck) /\ UNCHANGED rVars
    <3>1. AcksGrow({ClearAck})
      BY Zenon, <1>1, <2>1, <2>3, AcksGrowBy
    <3> QED
      BY <2>1, <2>3, <3>1, Zenon DEF ReceiverEffect, Clears, Keeps, rVars
  <2>4. CASE Finishes /\ WriteIncrement(Append(toBridge, ClearAck), ClearAck)
    <3> DEFINE n == ChunksIn(RGeo(rFile), rInc)
    <3>1. n \in Nat /\ BufferedChunks \in Seq(ChunkOrNone) /\ Len(BufferedChunks) = n
          /\ rFlash \in Seq(ChunkOrNone) /\ rRewrote \in BOOLEAN
      BY <2>4, BufferTyped, Zenon DEF Finishes, WellFormed, TypeOK, ReceiverTypeOK
    <3>2. CASE AbortTransfer(Append(toBridge, ClearAck))
      <4>1. AcksGrow(NeutralAcks \cup {ClearAck})
        BY <1>1, <2>1, <3>2, AcksGrowBy, AcksKnown, ZenonT(30) DEF AbortTransfer
      <4> QED
        BY <2>4, <3>2, <4>1, Zenon DEF ReceiverEffect, Quits, AbortTransfer, ResetReceiver
    <3>3. ASSUME NEW i \in 0 .. n,
                 rFlash' = rFlash \o SubSeq(BufferedChunks, 1, i) \o (IF i < n THEN BufferedChunks ELSE << >>),
                 rRewrote' = (rRewrote \/ i < n)
          PROVE  rRewrote' \/ (~rRewrote /\ rFlash' = rFlash \o BufferedChunks)
      <4>1. CASE i < n
        BY Zenon, <3>3, <4>1
      <4>2. CASE i = n
        <5>1. SubSeq(BufferedChunks, 1, n) = BufferedChunks
          BY <3>1
        <5>2. (rFlash \o BufferedChunks) \o << >> = rFlash \o BufferedChunks
          BY <3>1
        <5> QED
          BY ZenonT(30), <3>1, <3>3, <4>2, <5>1, <5>2
      <4> QED
        BY <3>1, <4>1, <4>2
    <3>4. CASE \E i \in 0 .. n :
           /\ rFlash' = rFlash \o SubSeq(BufferedChunks, 1, i)
                               \o (IF i < n THEN BufferedChunks ELSE << >>)
           /\ rRewrote' = (rRewrote \/ i < n)
           /\ toBridge' = Acked(Append(toBridge, ClearAck), ClearAck)
           /\ IF rInc + 1 >= RGeo(rFile).incs
              THEN /\ rState' = "WAITING_END"
                   /\ UNCHANGED <<rInc, rRound, rBuf>>
              ELSE /\ rState' = "RECEIVING"
                   /\ rInc' = rInc + 1
                   /\ rRound' = 0
                   /\ rBuf' = EmptyBuffer
           /\ UNCHANGED <<rFile, rAcks, rRestart, rBoot, rRunning, rBuffered, rVerified>>
      <4>1. AcksGrow({ClearAck})
        BY ZenonT(30), <1>1, <2>1, <3>4, AcksGrowBy
      <4> QED
        BY <2>4, <3>3, <3>4, <4>1, ZenonT(30) DEF ReceiverEffect, Writes
    <3>5. n \in 0 .. n
      BY <3>1
    <3> QED
      BY <2>4, <3>2, <3>4, <3>5, ZenonT(30) DEF WriteIncrement, StartIncrement
  <2>5. CASE /\ rState = "RECEIVING" /\ rState' = "WRITING"
             /\ UNCHANGED <<toBridge, rFile, rInc, rBuf, rFlash, rRewrote, rBuffered>>
    <3>1. AcksGrow(NeutralAcks)
      BY Zenon, <1>1, <2>5, AcksGrowBy
    <3> QED
      BY <2>5, <3>1 DEF ReceiverEffect, Holds, Keeps, Written
  <2>6. CASE AbortTransfer(toBridge)
    BY <1>2, <2>6, Zenon DEF ReceiverEffect
  <2>7. CASE /\ rState = "RECEIVING" /\ Head(toRemote).num = rInc /\ ~BufferComplete
             /\ toBridge' = Acked(toBridge, ReportAck)
             /\ UNCHANGED <<rState, rFile, rInc, rBuf, rFlash, rRewrote, rBuffered>>
    <3>1. ReceivedBits \in SUBSET Nat
      <4>1. ChunksIn(RGeo(rFile), rInc) \in Nat
        BY Zenon, <2>7, BufferTyped
      <4> QED
        BY <4>1 DEF ReceivedBits
    <3>2. ReportAck \in Ack
      BY <2>1, <3>1, AcksTyped, Zenon DEF ReportAck
    <3>3. AcksGrow({ReportAck})
      BY Zenon, <1>1, <2>7, <3>2, AcksGrowBy
    <3> QED
      BY <2>1, <2>7, <3>3, Zenon DEF ReceiverEffect, Reports, Keeps
  <2>8. CASE /\ rState = "RECEIVING" /\ Head(toRemote).num = rInc /\ BufferComplete
             /\ \E ok \in AckResults(toBridge) :
                 IF ok THEN WriteIncrement(Append(toBridge, ClearAck), ClearAck)
                 ELSE /\ rState' = "WRITING"
                      /\ UNCHANGED <<toBridge, rFile, rInc, rRound, rBuf, rAcks, rRestart, rFlash,
                                     rBoot, rRunning, rRewrote, rBuffered, rVerified>>
    BY <2>1, <2>4, <2>5, <2>8, Zenon DEF Finishes
  <2> QED
    BY <1>6, <2>2, <2>3, <2>6, <2>7, <2>8, ZenonT(30) DEF HandleBlastComplete, ClearAck, ReportAck, HeadTx
<1>7. CASE HandleEnd
  <2>1. CASE UNCHANGED <<toBridge, rVars>>
    BY <1>1, <1>3, <2>1, AcksGrowBy, Zenon DEF ReceiverEffect
  <2>2. CASE /\ rState = "WAITING_END" /\ rState' = "VERIFYING"
             /\ UNCHANGED <<toBridge, rFile, rInc, rBuf, rFlash, rRewrote, rBuffered>>
    <3>1. AcksGrow(NeutralAcks)
      BY Zenon, <1>1, <2>2, AcksGrowBy
    <3> QED
      BY <2>2, <3>1 DEF ReceiverEffect, Holds, Keeps, Written
  <2>3. CASE /\ toBridge' = Acked(toBridge, AckOf("COMPLETE", 0, FALSE, {})) /\ ResetReceiver
             /\ UNCHANGED rBuffered
    <3>1. AcksGrow(NeutralAcks)
      BY Zenon, <1>1, <2>3, AcksGrowBy, AcksKnown
    <3> QED
      BY <2>3, <3>1, Zenon DEF ReceiverEffect, Quits, ResetReceiver
  <2> QED
    BY <1>7, <2>1, <2>2, <2>3, Zenon DEF HandleEnd
<1>8. CASE HandleAbort
  <2>1. AcksGrow(NeutralAcks)
    BY <1>1, <1>8, AcksGrowBy, ZenonT(30) DEF HandleAbort
  <2> QED
    BY <1>8, <2>1, Zenon DEF HandleAbort, ResetReceiver, Quits, ReceiverEffect
<1>9. CASE RepeatComplete
  <2>1. AcksGrow(NeutralAcks)
    BY <1>1, <1>9, AcksGrowBy, AcksKnown, Zenon DEF RepeatComplete
  <2> QED
    BY <1>9, <2>1, Zenon DEF RepeatComplete, ResetReceiver, Quits, Holds, Keeps, ReceiverEffect
<1>10. CASE ReceiverTimeout
  BY <1>2, <1>10, Zenon DEF ReceiverTimeout, ReceiverEffect
<1>11. CASE Restart
  BY <1>11, Zenon DEF Restart, ResetReceiver, Quits, ReceiverEffect
<1> QED
  BY <1>4, <1>5, <1>6, <1>7, <1>8, <1>9, <1>10, <1>11, ZenonT(30) DEF ReceiverNext

-----------------------------------------------------------------------------
(* Every step is a bridge step, a receiver step, or a loss (or a stutter).  *)

ByBridge == BridgeEffect /\ UNCHANGED rVars
ByReceiver == ReceiverEffect /\ FramesLeft /\ UNCHANGED <<txCounter, bVars>>
ByLink == FramesLeft /\ AcksLeft /\ UNCHANGED <<txCounter, bVars, rVars>>

\* The three kinds of step.
LEMMA StepCases ==
  ASSUME WellFormed, [Next]_vars
  PROVE  ByBridge \/ ByReceiver \/ ByLink
<1>1. TypeOK
  BY Zenon DEF WellFormed
<1>2. CASE (BridgeSteps \/ BridgeTimers) /\ UNCHANGED rVars
  BY <1>2, BridgeStepEffect, Zenon DEF ByBridge
<1>3. CASE ReceiverNext /\ UNCHANGED bVars
  BY <1>1, <1>3, ReceiverStepEffect, FramesTaken, QueuesLeft, Zenon DEF ByReceiver
<1>4. CASE (LoseFrame \/ LoseAck) /\ UNCHANGED <<bVars, rVars>>
  BY <1>1, <1>4, QueuesLeft, Zenon DEF LoseFrame, LoseAck, ByLink
<1>5. CASE UNCHANGED vars
  BY <1>1, <1>5, QueuesLeft, Zenon DEF ByLink, vars, linkVars
<1> QED
  BY <1>2, <1>3, <1>4, <1>5, Zenon DEF Next

\* What a bridge step may add to the frames.
NewFrame(e) ==
  \/ e = Abort \/ e = End
  \/ e \in DataFrames
  \/ Blasts /\ txCounter' = txCounter + 1 /\ e = BlastComplete(bInc, txCounter + 1)
  \/ /\ Announces /\ txCounter' = txCounter + 1 /\ bAnnTx' = txCounter + 1
     /\ Len(toRemote') = Len(toRemote) + 1
     /\ e = Announce(bFile', txCounter + 1)

\* Old frames stay where they are and new ones follow them.
LEMMA BridgeFrames ==
  ASSUME WellFormed, BridgeEffect
  PROVE  /\ Len(toRemote') >= Len(toRemote) /\ Len(toRemote) \in Nat /\ Len(toRemote') \in Nat
         /\ \A i \in FrameAt' :
              \/ i \in FrameAt /\ toRemote'[i] = toRemote[i]
              \/ i > Len(toRemote) /\ NewFrame(toRemote'[i])
<1>1. toRemote \in Seq(Frame) /\ Len(toRemote) \in Nat /\ txCounter \in Nat /\ toRemote' \in Seq(Frame)
      /\ Len(toRemote') \in Nat
  BY BridgeQueues DEF WellFormed, TypeOK, LinkTypeOK
<1>2. CASE Ends \/ ResendsEnd \/ (ActsOnGaps /\ bState' = "ENDING")
  <2>1. PICK new : Grows(new) /\ new \subseteq DataFrames \cup {Abort, End}
    BY <1>2, Zenon DEF Ends, ResendsEnd, ActsOnGaps
  <2> QED
    BY <1>1, <2>1, Zenon DEF Grows, NewFrame
<1>3. CASE Blasts
  <2>1. PICK new : /\ Grows(new)
                   /\ \/ new \subseteq DataFrames
                      \/ new \subseteq DataFrames \cup {BlastComplete(bInc, txCounter + 1)} /\ txCounter' = txCounter + 1
    BY <1>3, Zenon DEF Blasts
  <2> QED
    BY <1>1, <1>3, <2>1, Zenon DEF Grows, NewFrame
<1>4. CASE toRemote' = toRemote
  BY <1>1, <1>4 DEF FrameAt
<1>5. CASE /\ Announces /\ toRemote' = Append(toRemote, Announce(bFile', txCounter + 1))
           /\ txCounter' = txCounter + 1 /\ bAnnTx' = txCounter + 1
  <2>1. PICK e \in Frame : e = Announce(bFile', txCounter + 1)
    BY <1>1, <1>5, FramesTyped DEF Announces
  <2>2. /\ Len(toRemote') = Len(toRemote) + 1
        /\ \A i \in 1 .. Len(toRemote) : toRemote'[i] = toRemote[i]
        /\ toRemote'[Len(toRemote) + 1] = e
    BY SMTT(30), <1>1, <1>5, <2>1, AppendElements
  <2>3. \A i \in FrameAt' : i \in FrameAt \/ i = Len(toRemote) + 1
    BY <1>1, <2>2 DEF FrameAt
  <2> QED
    BY <1>1, <1>5, <2>1, <2>2, <2>3, SMTT(30) DEF NewFrame, FrameAt
<1> QED
  BY <1>2, <1>3, <1>4, <1>5, ZenonT(30) DEF BridgeEffect, Announces, IgnoresAck, Accepts, ActsOnGaps, TakesSourceChunk
=============================================================================
