------------------------- MODULE CommandLeafProofs --------------------------
(***************************************************************************)
(* What the steps of CommandDelivery do to the claims its invariant is     *)
(* about. Facts on counters, sequences and the reassembly of a fragment    *)
(* (Receive), then CommandInv is kept by every step that makes no new      *)
(* claim, applies nothing and sends no false ack (QuietStep), by the steps *)
(* of the session, and by every step of the leaf; the one that applies a   *)
(* command is the one where the order of the claims is needed.             *)
(***************************************************************************)
EXTENDS CommandDeliveryInv, TLAPS

-----------------------------------------------------------------------------
(* Counters, sequences, and one fragment against the table.                 *)

\* Counters below half the span compare as numbers do.
LEMMA NewerIsLarger ==
  ASSUME NEW a \in 0 .. CounterSpan \div 2, NEW b \in 0 .. CounterSpan \div 2, CounterIsNewer(a, b)
  PROVE  a > b
<1>1. CounterSpan \in Nat \ {0}
  BY Zenon, AssemblyAssumption
<1>2. PICK h \in Nat : h = CounterSpan \div 2 /\ 2 * h <= CounterSpan
  BY <1>1
<1> SUFFICES ASSUME a <= b PROVE FALSE
  BY SMTT(30), <1>1, <1>2
<1>3. CASE a = b
  <2>1. a - b = 0
    BY <1>3, <1>2
  <2>2. 0 % CounterSpan = 0
    BY <1>1
  <2> QED
    BY <2>1, <2>2, <1>2, SMTT(30) DEF CounterIsNewer
<1>4. CASE a < b
  <2>1. PICK d \in Nat : d = b - a /\ d <= h /\ d > 0 /\ a - b = -d
    BY <1>2, <1>4
  <2>2. d < CounterSpan
    BY <2>1, <1>2, <1>1
  <2>3. (-d) % CounterSpan = CounterSpan - d
    BY <2>1, <2>2, <1>1
  <2> QED
    BY <2>1, <2>3, <1>2, <1>1 DEF CounterIsNewer
<1> QED
  BY <1>2, <1>3, <1>4

\* The counter of a message's first fragment.
LEMMA BaseIsDifference ==
  ASSUME NEW tx \in Nat, NEW i \in Nat, tx - i \in 1 .. CounterSpan \div 2
  PROVE  MessageTxBase(tx, i) = tx - i
<1>1. CounterSpan \in Nat \ {0}
  BY Zenon, AssemblyAssumption
<1>2. PICK h \in Nat : h = CounterSpan \div 2 /\ 2 * h <= CounterSpan
  BY <1>1
<1>3. PICK n \in Nat : n = tx - i /\ n < CounterSpan
  BY <1>1, <1>2
<1>4. n % CounterSpan = n
  BY <1>1, <1>3
<1> QED
  BY <1>3, <1>4, Zenon DEF MessageTxBase

\* The sizes of the assembly table are unsigned.
LEMMA SizesWrap ==
  ASSUME NEW n \in Int
  PROVE  n % SizeSpan \in Nat
  BY AssemblyAssumption

-----------------------------------------------------------------------------
\* An element of a sequence.
LEMMA ElementOf ==
  ASSUME NEW S, NEW q \in Seq(S), NEW i \in 1 .. Len(q)
  PROVE  q[i] \in S
OBVIOUS

\* Two sequences written one behind the other, element by element.
LEMMA ConcatElements ==
  ASSUME NEW S, NEW p \in Seq(S), NEW q \in Seq(S)
  PROVE  /\ p \o q \in Seq(S)
         /\ Len(p \o q) = Len(p) + Len(q)
         /\ \A i \in 1 .. Len(p) + Len(q) : (p \o q)[i] = IF i <= Len(p) THEN p[i] ELSE q[i - Len(p)]
OBVIOUS

\* An entry erased from a queue leaves the others.
LEMMA WithoutKeeps ==
  ASSUME NEW S, NEW q \in Seq(S), NEW i \in 1 .. Len(q)
  PROVE  /\ Without(q, i) \in Seq(S)
         /\ Len(Without(q, i)) = Len(q) - 1
         /\ \A k \in 1 .. Len(q) - 1 : Without(q, i)[k] = IF k < i THEN q[k] ELSE q[k + 1]
<1> DEFINE p == SubSeq(q, 1, i - 1)
           r == SubSeq(q, i + 1, Len(q))
<1>1. p \in Seq(S) /\ Len(p) = i - 1 /\ \A k \in 1 .. i - 1 : p[k] = q[k]
  OBVIOUS
<1>2. r \in Seq(S) /\ Len(r) = Len(q) - i /\ \A k \in 1 .. Len(q) - i : r[k] = q[i + k]
  BY SMTT(30)
<1>3. Without(q, i) = p \o r
  BY Zenon DEF Without
<1> HIDE DEF p, r
<1>4. /\ p \o r \in Seq(S)
      /\ Len(p \o r) = Len(p) + Len(r)
      /\ \A k \in 1 .. Len(p) + Len(r) : (p \o r)[k] = IF k <= Len(p) THEN p[k] ELSE r[k - Len(p)]
  BY ONLY ZenonT(30), ConcatElements, <1>1, <1>2
<1>5. Len(p) + Len(r) = Len(q) - 1
  BY <1>1, <1>2
<1>6. ASSUME NEW k \in 1 .. Len(q) - 1 PROVE (p \o r)[k] = IF k < i THEN q[k] ELSE q[k + 1]
  <2>0. k < i \/ k >= i
    OBVIOUS
  <2>1. (p \o r)[k] = IF k <= Len(p) THEN p[k] ELSE r[k - Len(p)]
    BY Zenon, <1>4, <1>5
  <2>2. CASE k < i
    BY <2>1, <2>2, <1>1
  <2>3. CASE k >= i
    <3>1. (p \o r)[k] = r[k - (i - 1)]
      BY <2>1, <2>3, <1>1
    <3>2. k - (i - 1) \in 1 .. Len(q) - i /\ i + (k - (i - 1)) = k + 1
      BY <2>3
    <3>3. r[k - (i - 1)] = q[i + (k - (i - 1))]
      BY Zenon, <3>2, <1>2
    <3> QED
      BY <3>1, <3>2, <3>3, <2>3
  <2> QED
    BY Zenon, <2>0, <2>2, <2>3
<1> QED
  BY Zenon, <1>3, <1>4, <1>5, <1>6

-----------------------------------------------------------------------------
\* An entry of the table is not the absence of one.
LEMMA NoEntryApart ==
  NoEntry \notin Assemblies
<1> SUFFICES ASSUME NoEntry \in Assemblies PROVE FALSE
  BY Zenon
<1>1. DOMAIN NoEntry = {"none"}
  BY Zenon DEF NoEntry
<1>2. "active" \in DOMAIN NoEntry
  BY Zenon DEF Assemblies
<1> QED
  BY <1>1, <1>2

\* A fragment as CommandFragment hands it to Receive.
FragmentType == [entity : Entities, index : Nat, count : Nat, base : Nat, flag : {FALSE}, msg : Commands]

\* A part of an assembly that fragment f belongs to: f's own, or one that was there.
PartOf(old, f, p) ==
  \/ p = <<f.index, f.msg>>
  \/ old # NoEntry /\ old.active /\ old.base = f.base /\ old.count = f.count /\ p \in old.parts

\* The entry of a fragment's entity once it is admitted.
LEMMA AdmitEffect ==
  ASSUME NEW t \in Tables, NEW f \in FragmentType
  PROVE  /\ Admit(t, f) \in Tables
         /\ \A e \in Entities \ {f.entity} : Admit(t, f).asm[e] = t.asm[e]
         /\ Admit(t, f).asm[f.entity] \in Assemblies
         /\ \/ Admit(t, f).asm[f.entity] = Inactive
            \/ t.asm[f.entity] # NoEntry /\ Admit(t, f).asm[f.entity] = t.asm[f.entity]
<1>1. Inactive \in Assemblies
  BY Zenon DEF Inactive, Assemblies
<1>2. f.entity \in Entities /\ t.asm[f.entity] \in {NoEntry} \cup Assemblies /\ t.reserved \in Nat /\ f.count \in Nat
  BY Zenon DEF Tables, FragmentType
<1>3. (t.reserved + f.count) % SizeSpan \in Nat
  BY SMTT(30), <1>2, SizesWrap
<1>4. CASE t.asm[f.entity] = NoEntry
  <2>1. Admit(t, f) = [asm |-> [t.asm EXCEPT ![f.entity] = Inactive],
                       reserved |-> (t.reserved + f.count) % SizeSpan]
    BY <1>4, Zenon DEF Admit
  <2> QED
    BY <2>1, <1>1, <1>2, <1>3 DEF Tables
<1>5. CASE t.asm[f.entity] # NoEntry /\ Admit(t, f) = [t EXCEPT !.asm[f.entity] = Inactive]
  BY <1>5, <1>1, <1>2 DEF Tables
<1>6. CASE t.asm[f.entity] # NoEntry /\ Admit(t, f) = t
  BY Zenon, <1>6, <1>2
<1> QED
  BY <1>4, <1>5, <1>6, Zenon DEF Admit

\* An assembly that takes a fragment.
LEMMA StoreEffect ==
  ASSUME NEW a \in Assemblies, NEW f \in FragmentType, ~StoreRefused(a, f)
  PROVE  /\ RemoteStore(a, f) \in Assemblies
         /\ RemoteStore(a, f).active
         /\ RemoteStore(a, f).base = f.base /\ RemoteStore(a, f).count = f.count
         /\ \A p \in RemoteStore(a, f).parts :
              p = <<f.index, f.msg>> \/ (a.active /\ a.base = f.base /\ a.count = f.count /\ p \in a.parts)
<1> DEFINE b == IF a.active THEN a
                ELSE [active |-> TRUE, base |-> f.base, count |-> f.count, parts |-> {}, flag |-> f.flag]
<1>1. /\ b \in Assemblies /\ b.active /\ b.base = f.base /\ b.count = f.count
      /\ \A p \in b.parts : a.active /\ a.base = f.base /\ a.count = f.count /\ p \in a.parts
  BY Zenon DEF Assemblies, FragmentType, StoreRefused
<1> HIDE DEF b
<1>2. CASE RemoteStore(a, f) = b
  BY Zenon, <1>1, <1>2
<1>3. CASE RemoteStore(a, f) = [b EXCEPT !.parts = @ \cup {<<f.index, f.msg>>}]
  <2>1. b.parts \in SUBSET (Nat \X Commands) /\ <<f.index, f.msg>> \in Nat \X Commands
    BY <1>1, Zenon DEF Assemblies, FragmentType
  <2>2. b.parts \cup {<<f.index, f.msg>>} \in SUBSET (Nat \X Commands)
    BY Zenon, <2>1
  <2>3. /\ RemoteStore(a, f) \in Assemblies
        /\ RemoteStore(a, f).active
        /\ RemoteStore(a, f).base = b.base /\ RemoteStore(a, f).count = b.count
        /\ RemoteStore(a, f).parts = b.parts \cup {<<f.index, f.msg>>}
    BY <1>1, <1>3, <2>2, Zenon DEF Assemblies
  <2>4. \A p \in RemoteStore(a, f).parts : p = <<f.index, f.msg>> \/ p \in b.parts
    BY Zenon, <2>3
  <2>5. \A p \in RemoteStore(a, f).parts :
          p = <<f.index, f.msg>> \/ (a.active /\ a.base = f.base /\ a.count = f.count /\ p \in a.parts)
    BY Zenon, <1>1, <2>4
  <2> QED
    BY Zenon, <1>1, <2>3, <2>5
<1> QED
  BY <1>2, <1>3, Zenon DEF RemoteStore, b

\* An entry that is released.
LEMMA ReleaseEffect ==
  ASSUME NEW t \in Tables, NEW e \in Entities, t.asm[e] \in Assemblies
  PROVE  /\ Release(t, e) \in Tables /\ Release(t, e).asm[e] = NoEntry
         /\ \A d \in Entities \ {e} : Release(t, e).asm[d] = t.asm[d]
<1>1. t.asm \in [Entities -> {NoEntry} \cup Assemblies] /\ t.reserved \in Nat /\ t.asm[e].count \in Nat
  BY Zenon DEF Tables, Assemblies
<1>2. (t.reserved - t.asm[e].count) % SizeSpan \in Nat
  BY <1>1, SizesWrap
<1>3. Release(t, e).asm = [t.asm EXCEPT ![e] = NoEntry] /\ Release(t, e) \in Tables
  BY <1>1, <1>2, Zenon DEF Release, Tables
<1> QED
  BY Zenon, <1>1, <1>3

\* What a fragment does to the table of a leaf: the other entries stay, its own
\* holds parts of the message it belongs to, and so does a payload it completes.
LEMMA ReceiveEffect ==
  ASSUME NEW t \in Tables, NEW f \in FragmentType, NEW r, r = Receive(t, f, FALSE)
  PROVE  /\ r.table \in Tables
         /\ r.done \in BOOLEAN
         /\ \A e \in Entities \ {f.entity} : r.table.asm[e] = t.asm[e]
         /\ LET n == r.table.asm[f.entity]
                o == t.asm[f.entity]
            IN n # NoEntry /\ n.active /\ n # o =>
                 n.base = f.base /\ n.count = f.count /\ \A p \in n.parts : PartOf(o, f, p)
         /\ r.done =>
              \E parts \in SUBSET (Nat \X Commands) :
                /\ r.whole = {p[2] : p \in parts}
                /\ {p[1] : p \in parts} = 0 .. f.count - 1
                /\ \A p \in parts : PartOf(t.asm[f.entity], f, p)
<1> DEFINE u == Admit(t, f)
           a == u.asm[f.entity]
           s == RemoteStore(a, f)
           w == [u EXCEPT !.asm[f.entity] = s]
<1>1. /\ u \in Tables /\ \A e \in Entities \ {f.entity} : u.asm[e] = t.asm[e]
      /\ a \in Assemblies /\ f.entity \in Entities
      /\ a = Inactive \/ (t.asm[f.entity] # NoEntry /\ a = t.asm[f.entity])
  <2>1. f.entity \in Entities
    BY Zenon DEF FragmentType
  <2> QED
    BY Zenon, <2>1, AdmitEffect
<1>2. CASE r.table = t /\ ~r.done /\ r.done \in BOOLEAN
  BY Zenon, <1>1, <1>2
<1>3. CASE r.table = u /\ ~r.done /\ r.done \in BOOLEAN
  <2>1. a = t.asm[f.entity] \/ ~a.active
    BY <1>1 DEF Inactive
  <2> HIDE DEF u
  <2> QED
    BY Zenon, <1>1, <1>3, <2>1
<1>4. ASSUME ~StoreRefused(a, f)
      PROVE  /\ s \in Assemblies /\ s.active /\ s.base = f.base /\ s.count = f.count
             /\ \A p \in s.parts : PartOf(t.asm[f.entity], f, p)
  <2>1. /\ s \in Assemblies /\ s.active /\ s.base = f.base /\ s.count = f.count
        /\ \A p \in s.parts :
             p = <<f.index, f.msg>> \/ (a.active /\ a.base = f.base /\ a.count = f.count /\ p \in a.parts)
    BY SMTT(30), <1>1, <1>4, StoreEffect
  <2>2. a.active => t.asm[f.entity] # NoEntry /\ a = t.asm[f.entity]
    BY <1>1 DEF Inactive
  <2> QED
    BY <2>1, <2>2, ZenonT(30) DEF PartOf
<1>5. ASSUME ~StoreRefused(a, f)
      PROVE  /\ w \in Tables /\ w.asm[f.entity] = s
             /\ \A e \in Entities \ {f.entity} : w.asm[e] = t.asm[e]
  BY <1>1, <1>4, <1>5, Zenon DEF Tables
<1> HIDE DEF w
<1>6. CASE ~StoreRefused(a, f) /\ r.table = w /\ ~r.done /\ r.done \in BOOLEAN
  BY Zenon, <1>4, <1>5, <1>6
<1>7. CASE ~StoreRefused(a, f) /\ r.table = Release(w, f.entity) /\ r.done = TRUE /\ r.whole = Assembled(s) /\ Complete(s)
  <2>2. /\ r.table \in Tables /\ r.table.asm[f.entity] = NoEntry
        /\ \A e \in Entities \ {f.entity} : r.table.asm[e] = t.asm[e]
    <3>1. w \in Tables /\ f.entity \in Entities /\ w.asm[f.entity] \in Assemblies
      BY Zenon, <1>1, <1>4, <1>5, <1>7
    <3>2. \A e \in Entities \ {f.entity} : w.asm[e] = t.asm[e]
      BY Zenon, <1>5, <1>7
    <3>3. /\ Release(w, f.entity) \in Tables /\ Release(w, f.entity).asm[f.entity] = NoEntry
          /\ \A e \in Entities \ {f.entity} : Release(w, f.entity).asm[e] = w.asm[e]
      BY Zenon, <3>1, ReleaseEffect
    <3> QED
      BY Zenon, <3>2, <3>3, <1>7
  <2>3. s.parts \in SUBSET (Nat \X Commands) /\ r.whole = {p[2] : p \in s.parts}
    BY <1>4, <1>7, Zenon DEF Assemblies, Assembled
  <2>4. {p[1] : p \in s.parts} = 0 .. f.count - 1
    BY <1>4, <1>7, Zenon DEF Complete, Indices
  <2> HIDE DEF s
  <2> QED
    BY Zenon, <2>2, <2>3, <2>4, <1>4, <1>7
<1> QED
  BY <1>2, <1>3, <1>6, <1>7, Zenon DEF Receive, w

-----------------------------------------------------------------------------
(* Steps that make no new claim.                                            *)

\* A fragment of command c sent under counters from base.
FragmentOf(frame, c, base) ==
  /\ frame.body.msg = c /\ frame.body.entity = Target[c] /\ frame.body.count = Frags[c]
  /\ frame.body.index < Frags[c] /\ BaseOf(frame) = base

\* A frame to the leaf was on its way before, or is sent again from the queue.
DownKept ==
  \A i \in CmdAt' :
    \/ \E j \in CmdAt : down'[i] = down[j]
    \/ \E k \in QueueAt : FragmentOf(down'[i], cmdQ[k].cmd, cmdQ[k].base)

\* A part of an assembly was kept before, or is the fragment of a frame on its way.
TableKept ==
  \A e \in Assembling' : \A p \in rTable'.asm[e].parts :
    \/ /\ e \in Assembling /\ p \in rTable.asm[e].parts
       /\ rTable'.asm[e].base = rTable.asm[e].base /\ rTable'.asm[e].count = rTable.asm[e].count
    \/ \E j \in CmdAt :
         /\ rTable'.asm[e].base = BaseOf(down[j]) /\ rTable'.asm[e].count = down[j].body.count
         /\ e = down[j].body.entity /\ p = <<down[j].body.index, down[j].body.msg>>

\* An entry of the queue was there before.
QueueKept ==
  \A i \in QueueAt' : \E j \in QueueAt : cmdQ'[i].base = cmdQ[j].base /\ cmdQ'[i].cmd = cmdQ[j].cmd

\* An ack that takes a command out of the queue.
OkAck(frame) == frame.kind = "ACK" /\ frame.body.of = "COMMAND" /\ frame.body.result = "OK"

\* An ack with this reference erases no command that was not applied.
TrueAck(ref) == ref < bTx /\ \A x \in QueueClaims : x[1] = ref => WasApplied(x[2])

\* Such an ack is true, or was on its way before.
AcksKept ==
  \A i \in 1 .. Len(up') :
    OkAck(up'[i]) => TrueAck(up'[i].body.ref) \/ \E j \in 1 .. Len(up) : up'[i] = up[j]

\* Nothing that was issued is forgotten, and no claim becomes one of an issued command.
IssuedKept ==
  /\ \A c \in Commands : WasIssued(c) => WasIssued(c)'
  /\ \A c, d \in Commands : IssuedBefore(c, d) => IssuedBefore(c, d)'
  /\ refused \subseteq refused'
  /\ \A x \in Claims : WasIssued(x[2])' => WasIssued(x[2])

\* Nothing is applied; a restart of the leaf forgets what was.
AppliedKept ==
  /\ applied' = applied
  /\ \/ rDone' = rDone /\ boots' = boots
     \/ boots' = boots + 1 /\ rDone' = [e \in Entities |-> 0]

\* The session of the bridge: its counter grows, and a session that is new begins
\* with nothing in flight.
SessionKept ==
  /\ bKey' # 0 => bTx <= bTx' /\ (bKey = 0 => Claims' = {})
  /\ bKey' = 0 => cmdQ' = << >>

\* What makes the claims: frames, kept fragments, queue entries.
LEMMA ClaimantTypes ==
  ASSUME Typed
  PROVE  /\ \A i \in CmdAt : down[i] \in CommandFrames
         /\ \A e \in Assembling : rTable.asm[e] \in Assemblies
         /\ \A i \in QueueAt : cmdQ[i] \in [cmd : Commands, base : Nat, retry : Nat]
<1>1. ASSUME NEW i \in CmdAt PROVE down[i] \in CommandFrames
  <2>1. down[i] \in DownFrames /\ down[i].kind = "COMMAND"
    BY SMTT(30) DEF CmdAt, Typed
  <2> QED
    BY <2>1, Zenon DEF DownFrames, ConfigFrames, DeauthFrames
<1>2. ASSUME NEW e \in Assembling PROVE rTable.asm[e] \in Assemblies
  BY Zenon DEF Assembling, Typed, Tables
<1>3. ASSUME NEW i \in QueueAt PROVE cmdQ[i] \in [cmd : Commands, base : Nat, retry : Nat]
  <2>1. cmdQ \in Seq([cmd : Commands, base : Nat, retry : Nat])
    BY Zenon DEF Typed
  <2>2. i \in 1 .. Len(cmdQ)
    BY Zenon DEF QueueAt
  <2> QED
    BY Zenon, <2>1, <2>2, ElementOf
<1> QED
  BY Zenon, <1>1, <1>2, <1>3

\* Claims are made by commands.
LEMMA ClaimTypes ==
  ASSUME Typed
  PROVE  \A x \in Claims : x = <<x[1], x[2]>> /\ x[1] \in Int /\ x[2] \in Commands
<1>1. ASSUME NEW x \in FrameClaims PROVE x = <<x[1], x[2]>> /\ x[1] \in Int /\ x[2] \in Commands
  <2>1. PICK i \in CmdAt : x = <<BaseOf(down[i]), down[i].body.msg>>
    BY <1>1, Zenon DEF FrameClaims
  <2>2. down[i] \in CommandFrames
    BY Zenon, ClaimantTypes
  <2>3. BaseOf(down[i]) \in Int /\ down[i].body.msg \in Commands
    BY <2>2 DEF CommandFrames, BaseOf
  <2> QED
    BY Zenon, <2>1, <2>3
<1>2. ASSUME NEW x \in KeptClaims PROVE x = <<x[1], x[2]>> /\ x[1] \in Int /\ x[2] \in Commands
  <2>1. PICK e \in Assembling : \E p \in rTable.asm[e].parts : x = <<rTable.asm[e].base, p[2]>>
    BY <1>2, Zenon DEF KeptClaims
  <2>2. PICK p \in rTable.asm[e].parts : x = <<rTable.asm[e].base, p[2]>>
    BY Zenon, <2>1
  <2>3. rTable.asm[e].base \in Nat /\ p \in Nat \X Commands
    BY <2>2, ClaimantTypes, Zenon DEF Assemblies
  <2> QED
    BY <2>2, <2>3
<1>3. ASSUME NEW x \in QueueClaims PROVE x = <<x[1], x[2]>> /\ x[1] \in Int /\ x[2] \in Commands
  <2>1. PICK i \in QueueAt : x = <<cmdQ[i].base, cmdQ[i].cmd>>
    BY <1>3, Zenon DEF QueueClaims
  <2>2. cmdQ[i].base \in Nat /\ cmdQ[i].cmd \in Commands
    BY Zenon, <2>1, ClaimantTypes
  <2> QED
    BY <2>1, <2>2
<1> QED
  BY <1>1, <1>2, <1>3, Zenon DEF Claims, Air

\* What is kept makes no new claim.
LEMMA ClaimsShrink ==
  ASSUME DownKept, TableKept, QueueKept
  PROVE  Claims' \subseteq Claims /\ QueueClaims' \subseteq QueueClaims
<1>1. FrameClaims' \subseteq FrameClaims \cup QueueClaims
  <2> SUFFICES ASSUME NEW x \in FrameClaims' PROVE x \in FrameClaims \cup QueueClaims
    BY Zenon
  <2>1. PICK i \in CmdAt' : x = <<BaseOf(down'[i]), down'[i].body.msg>>
    BY Zenon DEF FrameClaims, BaseOf
  <2>2. CASE \E j \in CmdAt : down'[i] = down[j]
    BY <2>1, <2>2, Zenon DEF FrameClaims
  <2>3. CASE \E k \in QueueAt : FragmentOf(down'[i], cmdQ[k].cmd, cmdQ[k].base)
    BY <2>1, <2>3, Zenon DEF QueueClaims, FragmentOf
  <2> QED
    BY <2>1, <2>2, <2>3, Zenon DEF DownKept
<1>2. KeptClaims' \subseteq Air
  <2> SUFFICES ASSUME NEW x \in KeptClaims' PROVE x \in KeptClaims \/ x \in FrameClaims
    BY Zenon DEF Air
  <2>1. PICK e \in Assembling' : x \in {<<rTable'.asm[e].base, p[2]>> : p \in rTable'.asm[e].parts}
    BY Zenon DEF KeptClaims
  <2>2. PICK p \in rTable'.asm[e].parts : x = <<rTable'.asm[e].base, p[2]>>
    BY Zenon, <2>1
  <2>3. CASE e \in Assembling /\ p \in rTable.asm[e].parts /\ rTable'.asm[e].base = rTable.asm[e].base
    <3>1. x \in {<<rTable.asm[e].base, q[2]>> : q \in rTable.asm[e].parts}
      BY Zenon, <2>2, <2>3
    <3> QED
      BY <2>3, <3>1 DEF KeptClaims
  <2>4. ASSUME NEW j \in CmdAt, rTable'.asm[e].base = BaseOf(down[j]), p = <<down[j].body.index, down[j].body.msg>>
        PROVE  x \in FrameClaims
    BY <2>2, <2>4, Zenon DEF FrameClaims
  <2> QED
    BY <2>2, <2>3, <2>4, ZenonT(30) DEF TableKept
<1>3. QueueClaims' \subseteq QueueClaims
  <2> SUFFICES ASSUME NEW x \in QueueClaims' PROVE x \in QueueClaims
    BY Zenon
  <2>1. PICK i \in QueueAt' : x = <<cmdQ'[i].base, cmdQ'[i].cmd>>
    BY Zenon DEF QueueClaims
  <2>2. PICK j \in QueueAt : cmdQ'[i].base = cmdQ[j].base /\ cmdQ'[i].cmd = cmdQ[j].cmd
    BY Zenon DEF QueueKept
  <2> QED
    BY <2>1, <2>2, Zenon DEF QueueClaims
<1> QED
  BY <1>1, <1>2, <1>3, Zenon DEF Claims, Air

\* A step that makes no new claim keeps the fragments sound,
LEMMA KeepsFragments ==
  ASSUME Typed, FragmentsSound, ClaimsOrdered, DownKept, TableKept, IssuedKept
  PROVE  FragmentsSound'
<1>0. \A c \in Commands : WasIssued(c) => WasIssued(c)'
  BY Zenon DEF IssuedKept
<1>1. ASSUME NEW i \in CmdAt'
      PROVE  IsFragment(down[i].body.entity, down[i].body.index, down[i].body.count, down[i].body.msg)'
  <2>1. ASSUME NEW j \in CmdAt, down'[i] = down[j]
        PROVE  IsFragment(down[i].body.entity, down[i].body.index, down[i].body.count, down[i].body.msg)'
    <3>1. IsFragment(down[j].body.entity, down[j].body.index, down[j].body.count, down[j].body.msg)
      BY Zenon DEF FragmentsSound
    <3>2. down[j].body.msg \in Commands
      BY ClaimantTypes, Zenon DEF CommandFrames
    <3> QED
      BY <1>0, <2>1, <3>1, <3>2, Zenon DEF IsFragment
  <2>2. ASSUME NEW k \in QueueAt, FragmentOf(down'[i], cmdQ[k].cmd, cmdQ[k].base)
        PROVE  IsFragment(down[i].body.entity, down[i].body.index, down[i].body.count, down[i].body.msg)'
    <3>1. PICK c \in Commands : c = cmdQ[k].cmd /\ <<cmdQ[k].base, c>> \in QueueClaims
      BY ClaimantTypes, Zenon DEF QueueClaims
    <3>2. \A x \in QueueClaims : WasIssued(x[2])
      BY Zenon DEF ClaimsOrdered
    <3>3. WasIssued(c)
      BY Zenon, <3>1, <3>2
    <3>4. WasIssued(c)'
      BY Zenon, <1>0, <3>3
    <3> QED
      BY <2>2, <3>1, <3>4, Zenon DEF IsFragment, FragmentOf
  <2> QED
    BY <2>1, <2>2, Zenon DEF DownKept
<1>2. ASSUME NEW e \in Assembling', NEW p \in rTable'.asm[e].parts
      PROVE  IsFragment(e, p[1], rTable.asm[e].count, p[2])'
  <2>1. CASE /\ e \in Assembling /\ p \in rTable.asm[e].parts
             /\ rTable'.asm[e].count = rTable.asm[e].count
    <3>1. IsFragment(e, p[1], rTable.asm[e].count, p[2])
      BY <2>1, Zenon DEF FragmentsSound
    <3>2. p[2] \in Commands
      BY <2>1, ClaimantTypes, Zenon DEF Assemblies
    <3> QED
      BY <1>0, <2>1, <3>1, <3>2, Zenon DEF IsFragment
  <2>2. ASSUME NEW j \in CmdAt, rTable'.asm[e].count = down[j].body.count,
               e = down[j].body.entity, p = <<down[j].body.index, down[j].body.msg>>
        PROVE  IsFragment(e, p[1], rTable.asm[e].count, p[2])'
    <3>1. IsFragment(e, p[1], down[j].body.count, p[2])
      BY <2>2, Zenon DEF FragmentsSound
    <3>2. p[2] \in Commands
      BY <2>2, ClaimantTypes, Zenon DEF CommandFrames
    <3> QED
      BY <1>0, <2>2, <3>1, <3>2, Zenon DEF IsFragment
  <2> QED
    BY <1>2, <2>1, <2>2, Zenon DEF TableKept
<1> QED
  BY <1>1, <1>2, Zenon DEF FragmentsSound

\* the claims in order,
LEMMA KeepsClaims ==
  ASSUME Typed, ClaimsOrdered, DownKept, TableKept, QueueKept, IssuedKept, SessionKept, bTx' \in Nat
  PROVE  ClaimsOrdered'
<1>1. Claims' \subseteq Claims /\ QueueClaims' \subseteq QueueClaims /\ QueueClaims \subseteq Claims
  BY ClaimsShrink, Zenon DEF Claims
<1>2. \A x \in Claims : x[1] \in Int /\ x[2] \in Commands
  BY Zenon, ClaimTypes
<1>3. \A x \in Claims' : x[1] \in 1 .. CounterSpan \div 2 /\ (WasIssued(x[2])' \/ x[2] \in refused')
  BY <1>1, <1>2, Zenon DEF ClaimsOrdered, IssuedKept
<1>4. \A x \in QueueClaims' : WasIssued(x[2])'
  BY <1>1, <1>2, Zenon DEF ClaimsOrdered, IssuedKept
<1>5. bKey' # 0 => \A x \in Claims' : x[1] < bTx'
  <2>1. CASE bKey = 0
    BY <2>1, Zenon DEF SessionKept
  <2>2. CASE bKey # 0
    <3>1. bTx \in Nat
      BY Zenon DEF Typed
    <3>2. \A x \in Claims : x[1] < bTx
      BY <2>2, Zenon DEF ClaimsOrdered
    <3>3. bKey' # 0 => bTx <= bTx'
      BY Zenon DEF SessionKept
    <3> QED
      BY <3>1, <3>2, <3>3, <1>1, <1>2
  <2> QED
    BY Zenon, <2>1, <2>2
<1>6. bKey' = 0 => cmdQ' = << >>
  BY Zenon DEF SessionKept
<1>7. ASSUME NEW x \in Claims', NEW y \in Claims'
      PROVE  /\ x[1] = y[1] => x[2] = y[2]
             /\ x[1] < y[1] /\ WasIssued(x[2])' /\ WasIssued(y[2])' => IssuedBefore(x[2], y[2])'
  BY <1>1, <1>2, <1>7, ZenonT(30) DEF ClaimsOrdered, IssuedKept
<1> QED
  BY <1>3, <1>4, <1>5, <1>6, <1>7, Zenon DEF ClaimsOrdered

\* and the order of what is applied.
LEMMA KeepsOrder ==
  ASSUME Typed, OrderKept, DownKept, TableKept, QueueKept, IssuedKept, AppliedKept
  PROVE  OrderKept'
<1>1. Claims' \subseteq Claims
  BY Zenon, ClaimsShrink
<1>2. \A x \in Claims : x[1] \in Int /\ x[2] \in Commands
  BY Zenon, ClaimTypes
<1>3. boots \in Nat /\ rDone \in [Entities -> Nat]
  BY Zenon DEF Typed
<1>4. \A i \in AppliedAt : applied[i].boot \in Nat /\ applied[i].entity \in Entities /\ applied[i].payload \subseteq Commands
  <2>1. applied \in Seq([boot : Nat, entity : Entities, payload : SUBSET Commands])
    BY Zenon DEF Typed
  <2> SUFFICES ASSUME NEW i \in AppliedAt
               PROVE  applied[i] \in [boot : Nat, entity : Entities, payload : SUBSET Commands]
    BY Zenon
  <2>2. i \in 1 .. Len(applied)
    BY Zenon DEF AppliedAt
  <2> QED
    BY Zenon, <2>1, <2>2, ElementOf
<1>5. applied' = applied /\ AppliedAt' = AppliedAt
  BY Zenon DEF AppliedKept, AppliedAt
<1>6. \A e \in Entities : rDone'[e] <= CounterSpan \div 2
  <2>1. CounterSpan \div 2 \in Nat
    BY AssemblyAssumption
  <2> QED
    BY <2>1, <1>3 DEF AppliedKept, OrderKept
<1>7. ASSUME NEW i \in AppliedAt
      PROVE  applied[i].boot <= boots' /\ \E c \in Commands : WasIssued(c)' /\ applied[i].payload = {c}
  <2>1. applied[i].boot <= boots'
    BY <1>3, <1>4 DEF OrderKept, AppliedKept
  <2>2. \E c \in Commands : WasIssued(c)' /\ applied[i].payload = {c}
    BY Zenon DEF OrderKept, IssuedKept
  <2> QED
    BY ZenonT(30), <2>1, <2>2
<1>8. ASSUME NEW i \in AppliedAt, NEW x \in Claims',
             applied[i].boot = boots', Target[x[2]] = applied[i].entity,
             x[1] > rDone'[applied[i].entity], WasIssued(x[2])',
             NEW d \in applied[i].payload
      PROVE  IssuedBefore(d, x[2])'
  <2>1. boots' = boots /\ rDone' = rDone
    BY <1>3, <1>4, <1>8 DEF AppliedKept, OrderKept
  <2>2. WasIssued(x[2]) /\ x \in Claims /\ x[2] \in Commands /\ d \in Commands
    BY <1>1, <1>2, <1>4, <1>8, Zenon DEF IssuedKept
  <2>3. IssuedBefore(d, x[2])
    BY <1>8, <2>1, <2>2, Zenon DEF OrderKept
  <2> QED
    BY <2>2, <2>3, Zenon DEF IssuedKept
<1>9. ASSUME NEW i \in AppliedAt, NEW j \in AppliedAt, i < j,
             applied[i].boot = applied[j].boot, applied[i].entity = applied[j].entity,
             NEW c \in applied[i].payload, NEW d \in applied[j].payload
      PROVE  IssuedBefore(c, d)'
  <2>1. IssuedBefore(c, d)
    BY <1>9, Zenon DEF OrderKept
  <2> QED
    BY <2>1, <1>4, Zenon DEF IssuedKept
<1> QED
  BY <1>5, <1>6, <1>7, <1>8, <1>9 DEF OrderKept

\* A step that sends no ack and keeps the claims keeps the acks true.
LEMMA KeepsAcks ==
  ASSUME Typed, AcksTrue, DownKept, TableKept, QueueKept, AcksKept, AppliedKept,
         bTx <= bTx', bTx' \in Nat, up' \in Seq(UpFrames), ClaimsOrdered,
         \A c \in acked' : WasApplied(c)
  PROVE  AcksTrue'
<1>1. Claims' \subseteq Claims /\ QueueClaims' \subseteq QueueClaims
  BY Zenon, ClaimsShrink
<1>2. applied' = applied /\ \A c : WasApplied(c)' <=> WasApplied(c)
  BY Zenon DEF AppliedKept, WasApplied, AppliedAt
<1>3. rDone \in [Entities -> Nat] /\ bTx \in Nat \ {0}
  BY Zenon DEF Typed
<1>4. ASSUME NEW x \in Claims', x[1] = rDone'[Target[x[2]]] PROVE WasApplied(x[2])'
  <2>1. x \in Claims /\ x[1] # 0
    BY <1>1, <1>4 DEF ClaimsOrdered
  <2>2. Target[x[2]] \in Entities
    BY Zenon, <2>1, ClaimTypes, CommandAssumption
  <2>3. rDone' = rDone
    BY <1>4, <2>1, <2>2, ZenonT(30) DEF AppliedKept
  <2> QED
    BY <1>2, <1>4, <2>1, <2>3, ZenonT(30) DEF AcksTrue
<1>5. \A e \in Entities : rDone'[e] < bTx'
  BY <1>3 DEF AppliedKept, AcksTrue
<1>0. \A x \in Claims' : x[1] < bTx'
  BY <1>1, <1>3, ClaimTypes, SMTT(30) DEF AcksTrue
<1>6. ASSUME NEW i \in 1 .. Len(up'), OkAck(up'[i])
      PROVE  /\ up'[i].body.ref < bTx'
             /\ \A x \in QueueClaims' : x[1] = up'[i].body.ref => WasApplied(x[2])'
  <2>1. up'[i].body.ref \in Nat
    <3>1. up'[i] \in UpFrames
      OBVIOUS
    <3> QED
      BY <3>1, <1>6, Zenon DEF OkAck, UpFrames, AckFrames, BeatFrames
  <2>2. TrueAck(up'[i].body.ref)
    <3>1. ASSUME NEW j \in 1 .. Len(up), up'[i] = up[j] PROVE TrueAck(up'[i].body.ref)
      BY <1>6, <3>1, Zenon DEF AcksTrue, OkAck, TrueAck
    <3> QED
      BY <1>6, <3>1, Zenon DEF AcksKept
  <2> QED
    BY <1>1, <1>2, <1>3, <2>1, <2>2 DEF TrueAck
<1>7. \A c \in acked' : WasApplied(c)'
  BY Zenon, <1>2
<1> QED
  BY <1>0, <1>4, <1>5, <1>6, <1>7, Zenon DEF AcksTrue, OkAck

-----------------------------------------------------------------------------
(* What a step does to the frames, the acks, the table and the queue.       *)

\* The parts of a quiet step, with the types of what they leave.
SameScenario == hits'.sc = hits.sc

DownFine == DownKept /\ down' \in Seq(DownFrames) /\ Len(down') <= sc.cap
UpFine == (~hits.forgot => AcksKept) /\ up' \in Seq(UpFrames)
TableFine == (NotEvicted => TableKept) /\ rTable' \in Tables
QueueFine == QueueKept /\ cmdQ' \in Seq([cmd : Commands, base : Nat, retry : Nat])

\* The first frame of a sequence, and the rest.
LEMMA HeadAndTail ==
  ASSUME NEW S, NEW q \in Seq(S), q # << >>
  PROVE  /\ Len(q) \in Nat \ {0}
         /\ Head(q) = q[1] /\ Head(q) \in S
         /\ Tail(q) \in Seq(S) /\ Len(Tail(q)) = Len(q) - 1
         /\ \A i \in 1 .. Len(q) - 1 : Tail(q)[i] = q[i + 1]
OBVIOUS

\* A sequence with one more element.
LEMMA AppendElements ==
  ASSUME NEW S, NEW q \in Seq(S), NEW x \in S
  PROVE  /\ Append(q, x) \in Seq(S) /\ Len(Append(q, x)) = Len(q) + 1
         /\ \A i \in 1 .. Len(q) : Append(q, x)[i] = q[i]
         /\ Append(q, x)[Len(q) + 1] = x
OBVIOUS

\* The frames on their way to the leaf: one is taken, one that is no command is
\* sent, or one arrives again.
LEMMA DownSteps ==
  ASSUME Typed,
         \/ down' = down
         \/ down # << >> /\ down' = Tail(down)
         \/ \E f \in ConfigFrames \cup DeauthFrames : down' = Put(down, f)
         \/ down # << >> /\ Room(down) /\ down' = Append(down, Head(down))
  PROVE  DownFine
<1>1. down \in Seq(DownFrames) /\ Len(down) <= sc.cap /\ Len(down) \in Nat
  BY DEF Typed
<1>0. sc.cap \in Nat
  BY PairAssumption, Zenon DEF PairScenario, Typed, sc
<1>2. CASE down' = down
  BY <1>1, <1>2, Zenon DEF DownFine, DownKept, CmdAt
<1>3. CASE down # << >> /\ down' = Tail(down)
  <2>1. /\ Len(down) \in Nat \ {0} /\ down' \in Seq(DownFrames) /\ Len(down') = Len(down) - 1
        /\ \A i \in 1 .. Len(down) - 1 : down'[i] = down[i + 1]
    BY Zenon, <1>1, <1>3, HeadAndTail
  <2>2. DownKept
    <3> SUFFICES ASSUME NEW i \in CmdAt' PROVE \E j \in CmdAt : down'[i] = down[j]
      BY Zenon DEF DownKept
    <3>1. i \in 1 .. Len(down) - 1 /\ down'[i].kind = "COMMAND"
      BY <2>1, Zenon DEF CmdAt
    <3>2. down'[i] = down[i + 1] /\ i + 1 \in 1 .. Len(down)
      BY <2>1, <3>1
    <3>3. i + 1 \in CmdAt
      BY <3>1, <3>2, Zenon DEF CmdAt
    <3> QED
      BY Zenon, <3>2, <3>3
  <2> QED
    BY <1>0, <1>1, <2>1, <2>2 DEF DownFine
<1>4. ASSUME NEW f \in DownFrames, down' = Append(down, f), Room(down),
             f.kind = "COMMAND" => \E j \in CmdAt : f = down[j]
      PROVE  DownFine
  <2>1. /\ down' \in Seq(DownFrames) /\ Len(down') = Len(down) + 1
        /\ \A i \in 1 .. Len(down) : down'[i] = down[i]
        /\ down'[Len(down) + 1] = f
    BY <1>1, <1>4, AppendElements
  <2>2. DownKept
    <3> SUFFICES ASSUME NEW i \in CmdAt' PROVE \E j \in CmdAt : down'[i] = down[j]
      BY Zenon DEF DownKept
    <3>1. i \in 1 .. Len(down) + 1 /\ down'[i].kind = "COMMAND"
      BY <2>1, Zenon DEF CmdAt
    <3>2. CASE i = Len(down) + 1
      BY Zenon, <3>1, <3>2, <2>1, <1>4
    <3>3. CASE i # Len(down) + 1
      <4>1. i \in 1 .. Len(down) /\ down'[i] = down[i]
        BY <3>1, <3>3, <2>1, <1>1
      <4>2. i \in CmdAt
        BY <3>1, <4>1, Zenon DEF CmdAt
      <4> QED
        BY Zenon, <4>1, <4>2
    <3> QED
      BY Zenon, <3>2, <3>3
  <2>3. Len(down') <= sc.cap
    BY <1>0, <1>1, <1>4, <2>1, SMTT(30) DEF Room
  <2> QED
    BY <2>1, <2>2, <2>3, ZenonT(30) DEF DownFine
<1>5. ASSUME NEW f \in ConfigFrames \cup DeauthFrames, down' = Put(down, f) PROVE DownFine
  <2>1. f \in DownFrames /\ f.kind # "COMMAND"
    BY Zenon DEF DownFrames, ConfigFrames, DeauthFrames
  <2> QED
    BY <2>1, <1>2, <1>4, <1>5, Zenon DEF Put
<1>6. CASE down # << >> /\ Room(down) /\ down' = Append(down, Head(down))
  <2>1. Head(down) = down[1] /\ 1 \in 1 .. Len(down) /\ Head(down) \in DownFrames
    BY <1>1, <1>6, HeadAndTail
  <2>2. Head(down).kind = "COMMAND" => 1 \in CmdAt
    BY <2>1, Zenon DEF CmdAt
  <2> QED
    BY ZenonT(30), <1>4, <1>6, <2>1, <2>2
<1> QED
  BY Zenon, <1>2, <1>3, <1>5, <1>6

\* The frames on their way to the bridge, as long as none is a new ack of a command
\* with result OK.
LEMMA UpSteps ==
  ASSUME Typed,
         \/ up' = up
         \/ up # << >> /\ up' = Tail(up)
         \/ \E f \in UpFrames : ~OkAck(f) /\ up' = Put(up, f)
         \/ up # << >> /\ Room(up) /\ up' = Append(up, Head(up))
  PROVE  UpFine
<1>1. up \in Seq(UpFrames) /\ Len(up) \in Nat
  BY DEF Typed
<1>2. CASE up' = up
  BY <1>1, <1>2, Zenon DEF UpFine, AcksKept
<1>3. CASE up # << >> /\ up' = Tail(up)
  <2>1. /\ Len(up) \in Nat \ {0} /\ up' \in Seq(UpFrames) /\ Len(up') = Len(up) - 1
        /\ \A i \in 1 .. Len(up) - 1 : up'[i] = up[i + 1]
    BY Zenon, <1>1, <1>3, HeadAndTail
  <2>2. ASSUME NEW i \in 1 .. Len(up') PROVE up'[i] = up[i + 1] /\ i + 1 \in 1 .. Len(up)
    BY <2>1
  <2> QED
    BY <2>1, <2>2, Zenon DEF UpFine, AcksKept
<1>4. ASSUME NEW f \in UpFrames, up' = Append(up, f), OkAck(f) => \E j \in 1 .. Len(up) : f = up[j]
      PROVE  UpFine
  <2>1. /\ up' \in Seq(UpFrames) /\ Len(up') = Len(up) + 1
        /\ \A i \in 1 .. Len(up) : up'[i] = up[i]
        /\ up'[Len(up) + 1] = f
    BY <1>1, <1>4, AppendElements
  <2>2. ASSUME NEW i \in 1 .. Len(up'), OkAck(up'[i]) PROVE \E j \in 1 .. Len(up) : up'[i] = up[j]
    <3>1. i = Len(up) + 1 \/ i \in 1 .. Len(up)
      BY <2>1, <1>1
    <3> QED
      BY Zenon, <3>1, <2>1, <2>2, <1>4
  <2> QED
    BY <2>1, <2>2, Zenon DEF UpFine, AcksKept
<1>5. ASSUME NEW f \in UpFrames, ~OkAck(f), up' = Put(up, f) PROVE UpFine
  BY <1>2, <1>4, <1>5, Zenon DEF Put
<1>6. CASE up # << >> /\ Room(up) /\ up' = Append(up, Head(up))
  <2>1. Head(up) = up[1] /\ 1 \in 1 .. Len(up) /\ Head(up) \in UpFrames
    BY <1>1, <1>6, HeadAndTail
  <2> QED
    BY Zenon, <1>4, <1>6, <2>1
<1> QED
  BY Zenon, <1>2, <1>3, <1>5, <1>6

\* The assembly table: cleared, or one assembly given up.
LEMMA TableSteps ==
  ASSUME Typed,
         \/ rTable' = rTable
         \/ rTable' = EmptyTable
         \/ \E e \in Assembling : rTable' = Release(rTable, e)
  PROVE  TableFine
<1>1. rTable \in Tables
  BY Zenon DEF Typed
<1>2. CASE rTable' = rTable
  BY <1>1, <1>2, Zenon DEF TableFine, TableKept, Assembling
<1>3. CASE rTable' = EmptyTable
  BY <1>3, Zenon DEF TableFine, TableKept, Assembling, EmptyTable, Tables
<1>4. ASSUME NEW e \in Assembling, rTable' = Release(rTable, e) PROVE TableFine
  <2>1. e \in Entities /\ rTable.asm[e] \in Assemblies
    BY ClaimantTypes, Zenon DEF Assembling
  <2>2. /\ rTable' \in Tables /\ rTable'.asm[e] = NoEntry
        /\ \A d \in Entities \ {e} : rTable'.asm[d] = rTable.asm[d]
    BY Zenon, <1>1, <1>4, <2>1, ReleaseEffect
  <2> QED
    BY <2>2, Zenon DEF TableFine, TableKept, Assembling
<1> QED
  BY Zenon, <1>2, <1>3, <1>4

\* The command queue: emptied, one entry sent again, or one erased.
LEMMA QueueSteps ==
  ASSUME Typed,
         \/ cmdQ' = cmdQ
         \/ cmdQ' = << >>
         \/ \E i \in 1 .. Len(cmdQ) : cmdQ' = [cmdQ EXCEPT ![i].retry = @ + 1]
         \/ \E i \in 1 .. Len(cmdQ) : cmdQ' = Without(cmdQ, i)
  PROVE  QueueFine
<1> DEFINE Entry == [cmd : Commands, base : Nat, retry : Nat]
<1>1. cmdQ \in Seq(Entry) /\ Len(cmdQ) \in Nat
  BY DEF Typed
<1>2. CASE cmdQ' = cmdQ
  BY <1>1, <1>2, Zenon DEF QueueFine, QueueKept, QueueAt
<1>3. CASE cmdQ' = << >>
  BY <1>3 DEF QueueFine, QueueKept, QueueAt
<1>4. ASSUME NEW i \in 1 .. Len(cmdQ), cmdQ' = [cmdQ EXCEPT ![i].retry = @ + 1] PROVE QueueFine
  <2>1. cmdQ[i] \in Entry
    BY Zenon, <1>1, ElementOf
  <2>2. [cmdQ[i] EXCEPT !.retry = @ + 1] \in Entry
    BY SMTT(30), <2>1
  <2>3. cmdQ' = [cmdQ EXCEPT ![i] = [cmdQ[i] EXCEPT !.retry = @ + 1]]
    BY Zenon, <1>4
  <2> HIDE DEF Entry
  <2>4. cmdQ' \in Seq(Entry) /\ Len(cmdQ') = Len(cmdQ)
    BY <1>1, <2>2, <2>3
  <2>5. \A j \in 1 .. Len(cmdQ) : cmdQ'[j] = IF j = i THEN [cmdQ[i] EXCEPT !.retry = @ + 1] ELSE cmdQ[j]
    BY <1>1, <2>3
  <2> USE DEF Entry
  <2>6. \A j \in 1 .. Len(cmdQ) : cmdQ'[j].base = cmdQ[j].base /\ cmdQ'[j].cmd = cmdQ[j].cmd
    BY ZenonT(30), <2>1, <2>5
  <2> QED
    BY <2>4, <2>6, Zenon DEF QueueFine, QueueKept, QueueAt
<1>5. ASSUME NEW i \in 1 .. Len(cmdQ), cmdQ' = Without(cmdQ, i) PROVE QueueFine
  <2> HIDE DEF Entry
  <2>1. /\ cmdQ' \in Seq(Entry) /\ Len(cmdQ') = Len(cmdQ) - 1
        /\ \A k \in 1 .. Len(cmdQ) - 1 : cmdQ'[k] = IF k < i THEN cmdQ[k] ELSE cmdQ[k + 1]
    BY ZenonT(30), <1>1, <1>5, WithoutKeeps
  <2>2. ASSUME NEW k \in 1 .. Len(cmdQ') PROVE \E j \in 1 .. Len(cmdQ) : cmdQ'[k] = cmdQ[j]
    BY SMTT(30), <1>1, <2>1
  <2> QED
    BY <2>1, <2>2, Zenon DEF QueueFine, QueueKept, QueueAt, Entry
<1> QED
  BY Zenon, <1>2, <1>3, <1>4, <1>5

-----------------------------------------------------------------------------
(* Quiet steps, and the steps of the session.                               *)

\* A sequence without elements.
LEMMA EmptySequence ==
  ASSUME NEW S, NEW q \in Seq(S), 1 .. Len(q) = {}
  PROVE  q = << >>
<1>1. Len(q) = 0
  <2> SUFFICES ASSUME Len(q) # 0 PROVE FALSE
    BY Zenon
  <2>1. 1 \in 1 .. Len(q)
    OBVIOUS
  <2> QED
    BY Zenon, <2>1
<1> QED
  BY <1>1

\* A step that sends no command, applies none and acks none.
LEMMA QuietStep ==
  ASSUME CommandInv, Typed', SameScenario, hits.forgot => hits'.forgot,
         DownKept, NotEvicted' => TableKept, QueueKept, AppliedKept,
         NotEvicted' => IssuedKept /\ SessionKept,
         ~hits'.forgot => AcksKept /\ bTx <= bTx' /\ \A c \in acked' : WasApplied(c),
         rKey' = 0 => rTable' = EmptyTable
  PROVE  CommandInv'
<1>1. Typed /\ bTx' \in Nat /\ up' \in Seq(UpFrames)
  BY Zenon DEF CommandInv, Typed
<1>2. NotEvicted' => NotEvicted
  BY Zenon DEF NotEvicted, SameScenario, sc
<1>3. ~hits'.forgot => NotEvicted'
  BY Zenon DEF NotEvicted
<1>4. ASSUME NotEvicted' PROVE FragmentsSound' /\ ClaimsOrdered' /\ OrderKept'
  <2>1. FragmentsSound /\ ClaimsOrdered /\ OrderKept /\ IssuedKept /\ SessionKept /\ TableKept
    BY <1>2, <1>4, Zenon DEF CommandInv
  <2> QED
    BY ZenonT(30), <1>1, <2>1, KeepsFragments, KeepsClaims, KeepsOrder
<1>5. ASSUME ~hits'.forgot PROVE AcksTrue'
  <2>1. AcksTrue /\ ClaimsOrdered /\ AcksKept /\ TableKept /\ bTx <= bTx' /\ \A c \in acked' : WasApplied(c)
    BY <1>2, <1>3, <1>5, Zenon DEF CommandInv
  <2> QED
    BY Zenon, <1>1, <2>1, KeepsAcks
<1> QED
  BY <1>4, <1>5, Zenon DEF CommandInv

\* Nothing issued or refused.
LEMMA SameIssued ==
  ASSUME UNCHANGED <<issued, refused>>
  PROVE  IssuedKept
BY Zenon DEF IssuedKept, WasIssued, IssuedBefore, Queued

\* Nothing done to the session of the bridge.
LEMMA SameSession ==
  ASSUME Typed, ClaimsOrdered, bKey' = bKey, bTx <= bTx', QueueKept, cmdQ' \in Seq([cmd : Commands, base : Nat, retry : Nat])
  PROVE  SessionKept
<1>1. CASE bKey' # 0
  BY <1>1, Zenon DEF SessionKept
<1>2. CASE bKey' = 0
  <2>1. cmdQ = << >>
    BY <1>2, Zenon DEF ClaimsOrdered
  <2>2. QueueAt' = {}
    BY <2>1 DEF QueueKept, QueueAt
  <2>3. cmdQ' = << >>
    BY <2>2, EmptySequence, Zenon DEF QueueAt
  <2> QED
    BY <1>2, <2>3, Zenon DEF SessionKept
<1> QED
  BY Zenon, <1>1, <1>2

\* A quiet step inside a session, with the parts of the state it may touch.
LEMMA QuietInSession ==
  ASSUME CommandInv, hits' \in [sc : DOMAIN Scenarios, loss : Nat, dup : Nat, forgot : BOOLEAN],
         SameScenario, hits'.forgot = hits.forgot,
         bKey' = bKey, bTx' \in Nat \ {0}, bTx <= bTx', keys' \in Nat, rKey' \in Nat, rTx' \in Nat,
         DownFine, UpFine, TableFine, QueueFine,
         NotEvicted => IssuedKept, issued' \in Seq(Commands \cup Configs),
         acked' \subseteq Commands, ~hits.forgot => \A c \in acked' : WasApplied(c),
         AppliedKept, rLast' \in [valid : BOOLEAN, tx : Nat, result : Results],
         rKey' = 0 => rTable' = EmptyTable
  PROVE  CommandInv'
<1>1. Typed
  BY Zenon DEF CommandInv
<1>2. sc' = sc
  BY Zenon DEF SameScenario, sc
<1>3. rDone' \in [Entities -> Nat] /\ boots' \in Nat /\ applied' = applied
  <2>1. rDone \in [Entities -> Nat] /\ boots \in Nat
    BY <1>1, Zenon DEF Typed
  <2>2. [e \in Entities |-> 0] \in [Entities -> Nat]
    BY Zenon
  <2> QED
    BY <2>1, <2>2, SMTT(30) DEF AppliedKept
<1>4. bKey' \in Nat /\ applied' \in Seq([boot : Nat, entity : Entities, payload : SUBSET Commands])
  BY <1>1, <1>3, Zenon DEF Typed
<1>5. Typed'
  BY <1>2, <1>3, <1>4, Zenon DEF Typed, DownFine, UpFine, TableFine, QueueFine
<1>6. NotEvicted' => NotEvicted
  BY <1>2, Zenon DEF NotEvicted
<1>7. NotEvicted' => SessionKept
  BY <1>1, <1>6, SameSession, Zenon DEF CommandInv, QueueFine
<1> QED
  BY <1>5, <1>6, <1>7, QuietStep, Zenon DEF DownFine, UpFine, TableFine, QueueFine

\* Frames that are no commands.
LEMMA FrameTypes ==
  ASSUME Typed
  PROVE  /\ Frame("DEAUTH", 0, 1, Nothing) \in DeauthFrames
         /\ Frame("HEARTBEAT", rKey, rTx, Nothing) \in UpFrames /\ ~OkAck(Frame("HEARTBEAT", rKey, rTx, Nothing))
         /\ \A f \in Configs, n \in Nat : ConfigFrame(f, n) \in ConfigFrames
         /\ \A of \in {"COMMAND", "CONFIG"}, result \in Results, n \in Nat : AckFrame(of, result, n) \in UpFrames
<1>1. bKey \in Nat /\ rKey \in Nat /\ rTx \in Nat
  BY Zenon DEF Typed
<1>2. /\ Frame("DEAUTH", 0, 1, Nothing) \in DeauthFrames
      /\ Frame("HEARTBEAT", rKey, rTx, Nothing) \in UpFrames /\ ~OkAck(Frame("HEARTBEAT", rKey, rTx, Nothing))
  BY <1>1, Zenon DEF Frame, DeauthFrames, UpFrames, BeatFrames, OkAck
<1>3. ASSUME NEW f \in Configs, NEW n \in Nat PROVE ConfigFrame(f, n) \in ConfigFrames
  BY <1>1, Zenon DEF ConfigFrame, Frame, ConfigFrames
<1>4. ASSUME NEW of \in {"COMMAND", "CONFIG"}, NEW result \in Results, NEW n \in Nat
      PROVE  AckFrame(of, result, n) \in UpFrames
  BY <1>1, Zenon DEF AckFrame, Frame, UpFrames, AckFrames
<1> QED
  BY Zenon, <1>2, <1>3, <1>4

-----------------------------------------------------------------------------
Hits == [sc : DOMAIN Scenarios, loss : Nat, dup : Nat, forgot : BOOLEAN]

\* A step of the session and the radio alone.
LEMMA PathStep ==
  ASSUME CommandInv, UNCHANGED <<bQueues, rCommands>>, UNCHANGED <<bKey, bTx, rKey, keys>>,
         hits' \in Hits, SameScenario, hits'.forgot = hits.forgot, rTx' \in Nat, DownFine, UpFine
  PROVE  CommandInv'
<1>1. Typed /\ (rKey = 0 => rTable = EmptyTable)
  BY Zenon DEF CommandInv
<1>2. /\ bTx' \in Nat \ {0} /\ bTx <= bTx' /\ keys' \in Nat /\ rKey' \in Nat
      /\ issued' \in Seq(Commands \cup Configs) /\ acked' \subseteq Commands
      /\ rLast' \in [valid : BOOLEAN, tx : Nat, result : Results]
  BY <1>1 DEF Typed, bQueues, rCommands
<1>3. TableFine /\ QueueFine /\ IssuedKept /\ AppliedKept
  BY <1>1, TableSteps, QueueSteps, SameIssued, Zenon DEF bQueues, rCommands, AppliedKept
<1>4. ~hits.forgot => \A c \in acked' : WasApplied(c)
  BY Zenon DEF CommandInv, AcksTrue, bQueues
<1>5. rKey' = 0 => rTable' = EmptyTable
  BY <1>1, Zenon DEF rCommands
<1> QED
  BY <1>2, <1>3, <1>4, <1>5, QuietInSession, ZenonT(30) DEF Hits

\* What stays when hits does, or counts one more.
LEMMA HitsSteps ==
  ASSUME Typed,
         \/ hits' = hits
         \/ hits' = [hits EXCEPT !.loss = @ + 1]
         \/ hits' = [hits EXCEPT !.dup = @ + 1]
  PROVE  hits' \in Hits /\ SameScenario /\ hits'.forgot = hits.forgot
<1>1. hits \in Hits
  BY Zenon DEF Typed, Hits
<1> QED
  BY <1>1 DEF Hits, SameScenario

\* The steps of the session alone.
LEMMA SessionStepsKeep ==
  ASSUME CommandInv, SessionSteps, UNCHANGED <<bQueues, rCommands>>
  PROVE  CommandInv'
<1>1. Typed /\ rTx \in Nat
  BY Zenon DEF CommandInv, Typed
<1>2. CASE RejectUnknown
  <2>1. UpFine /\ DownFine
    BY <1>1, <1>2, UpSteps, DownSteps, FrameTypes, Zenon DEF RejectUnknown
  <2> QED
    BY <1>1, <1>2, <2>1, HitsSteps, PathStep, ZenonT(30) DEF RejectUnknown, bSession, rSession
<1>3. CASE HandleHeartbeat
  <2>1. UpFine /\ DownFine
    BY <1>1, <1>3, UpSteps, DownSteps, Zenon DEF HandleHeartbeat, UpIs
  <2> QED
    BY <1>1, <1>3, <2>1, HitsSteps, PathStep, Zenon DEF HandleHeartbeat, rSession
<1>4. CASE SendHeartbeat
  <2>1. UpFine /\ DownFine
    BY <1>1, <1>4, UpSteps, DownSteps, FrameTypes, ZenonT(30) DEF SendHeartbeat
  <2> QED
    BY <1>1, <1>4, <2>1, HitsSteps, PathStep DEF SendHeartbeat, bSession
<1>5. CASE OfflineTimeout
  <2>1. UpFine /\ DownFine
    BY <1>1, <1>5, UpSteps, DownSteps, Zenon DEF OfflineTimeout, path
  <2> QED
    BY <1>1, <1>5, <2>1, HitsSteps, PathStep, ZenonT(30) DEF OfflineTimeout, rSession, path
<1>6. CASE Radio
  <2>1. UpFine /\ DownFine
    BY <1>1, <1>6, UpSteps, DownSteps, Zenon DEF Radio, LoseDown, LoseUp, RepeatDown, RepeatUp
  <2>2. hits' \in Hits /\ SameScenario /\ hits'.forgot = hits.forgot
    BY <1>1, <1>6, HitsSteps, Zenon DEF Radio, LoseDown, LoseUp, RepeatDown, RepeatUp
  <2>3. UNCHANGED <<bSession, rSession, keys>>
    BY <1>6, Zenon DEF Radio, LoseDown, LoseUp, RepeatDown, RepeatUp
  <2> QED
    BY <1>1, <2>1, <2>2, <2>3, PathStep, Zenon DEF bSession, rSession
<1> QED
  BY <1>2, <1>3, <1>4, <1>5, <1>6, ZenonT(30) DEF SessionSteps

\* A new session begins with an empty path and an empty assembly table.
LEMMA RejoinKeeps ==
  ASSUME CommandInv, Rejoin, UNCHANGED <<bQueues, rCommands>>
  PROVE  CommandInv'
<1>1. Typed /\ keys \in Nat /\ bTx \in Nat \ {0} /\ rTx \in Nat
  BY Zenon DEF CommandInv, Typed
<1>2. /\ rTable = EmptyTable /\ rTable' = EmptyTable
      /\ down' = << >> /\ keys' = keys + 1 /\ bKey' = keys + 1 /\ rKey' = keys + 1
      /\ bTx' = bTx + 1 /\ rTx' = rTx + 2 /\ hits' = hits
      /\ up' = << Frame("HEARTBEAT", keys + 1, rTx + 1, Nothing) >>
  BY Zenon DEF CommandInv, Rejoin, JoinKeys, rCommands
<1>3. Frame("HEARTBEAT", keys + 1, rTx + 1, Nothing) \in UpFrames /\ ~OkAck(Frame("HEARTBEAT", keys + 1, rTx + 1, Nothing))
  BY <1>1 DEF Frame, UpFrames, BeatFrames, OkAck
<1>4. /\ up' \in Seq(UpFrames) /\ Len(up') = 1 /\ up'[1] = Frame("HEARTBEAT", keys + 1, rTx + 1, Nothing)
  BY SMTT(30), <1>2, <1>3
<1>5. AcksKept
  BY <1>3, <1>4 DEF AcksKept
<1>6. DownFine
  BY <1>1, <1>2, DownSteps, Zenon DEF Rejoin
<1>7. TableFine /\ QueueFine /\ IssuedKept /\ AppliedKept
  BY <1>1, TableSteps, QueueSteps, SameIssued, ZenonT(30) DEF bQueues, rCommands, AppliedKept
<1>8. Typed'
  <2>1. sc' = sc
    BY <1>2, Zenon DEF sc
  <2> QED
    BY <1>1, <1>2, <1>4, <1>6, <1>7, <2>1, SMTT(30) DEF Typed, bQueues, rCommands, DownFine, TableFine, QueueFine
<1>9. SameScenario /\ (NotEvicted' <=> NotEvicted)
  BY <1>2, Zenon DEF SameScenario, NotEvicted, sc
<1>10. ASSUME NotEvicted' PROVE SessionKept
  <2>1. ClaimsOrdered
    BY <1>9, <1>10, ZenonT(30) DEF CommandInv
  <2>2. bKey = 0 => QueueClaims' = {}
    BY <2>1 DEF ClaimsOrdered, QueueClaims, QueueAt, bQueues
  <2>3. FrameClaims' = {}
    BY <1>2 DEF FrameClaims, CmdAt
  <2>4. KeptClaims' = {}
    BY <1>2, Zenon DEF KeptClaims, Assembling, EmptyTable
  <2> QED
    BY <1>1, <1>2, <2>2, <2>3, <2>4 DEF SessionKept, Claims, Air
<1>11. ~hits.forgot => \A c \in acked' : WasApplied(c)
  BY Zenon DEF CommandInv, AcksTrue, bQueues
<1> QED
  BY <1>1, <1>2, <1>5, <1>6, <1>7, <1>8, <1>9, <1>10, <1>11, QuietStep, SMTT(30) DEF DownFine, TableFine, QueueFine

-----------------------------------------------------------------------------
(* Steps that apply no command.                                             *)

\* A step of the leaf that answers with no ack of a command, or with a true one.
LEMMA LeafStep ==
  ASSUME CommandInv, UNCHANGED <<bSession, keys, hits, bQueues>>, rKey' \in Nat, rTx' \in Nat,
         DownFine, UpFine, TableFine, AppliedKept, rLast' \in [valid : BOOLEAN, tx : Nat, result : Results],
         rKey' = 0 => rTable' = EmptyTable
  PROVE  CommandInv'
<1>1. Typed
  BY Zenon DEF CommandInv
<1>2. /\ bKey' = bKey /\ bTx' \in Nat \ {0} /\ bTx <= bTx' /\ keys' \in Nat
      /\ issued' \in Seq(Commands \cup Configs) /\ acked' \subseteq Commands
  BY <1>1 DEF Typed, bSession, bQueues
<1>3. QueueFine /\ IssuedKept
  BY <1>1, QueueSteps, SameIssued, Zenon DEF bQueues
<1>4. ~hits.forgot => \A c \in acked' : WasApplied(c)
  BY Zenon DEF CommandInv, AcksTrue, bQueues
<1>5. hits' \in Hits /\ SameScenario /\ hits'.forgot = hits.forgot
  BY Zenon, <1>1, HitsSteps
<1> QED
  BY <1>2, <1>3, <1>4, <1>5, QuietInSession, Zenon DEF Hits

\* The leaf loses its session: a restart, a deauthentication, a config.
LEMMA LeaveKeeps ==
  ASSUME CommandInv, UNCHANGED <<bSession, keys, hits, bQueues, applied>>, LeaveSession, ClearCommands,
         rTx' \in Nat, DownFine, UpFine,
         \/ UNCHANGED <<rDone, boots>>
         \/ boots' = boots + 1 /\ rDone' = [e \in Entities |-> 0]
  PROVE  CommandInv'
<1>1. Typed
  BY Zenon DEF CommandInv
<1>2. TableFine /\ rTable' = EmptyTable
  BY <1>1, TableSteps, Zenon DEF ClearCommands
<1>3. AppliedKept
  BY Zenon DEF AppliedKept
<1>4. rLast' \in [valid : BOOLEAN, tx : Nat, result : Results]
  BY Zenon DEF ClearCommands, NoConfig, Results
<1> QED
  BY <1>2, <1>3, <1>4, LeafStep, Zenon DEF LeaveSession

\* The leaf handles a config, which may end its session.
LEMMA HandleConfigKeeps ==
  ASSUME CommandInv, HandleConfig
  PROVE  CommandInv'
<1>1. /\ Typed /\ (rKey = 0 => rTable = EmptyTable) /\ rKey \in Nat /\ rTx \in Nat
      /\ down \in Seq(DownFrames) /\ rLast \in [valid : BOOLEAN, tx : Nat, result : Results]
  BY Zenon DEF CommandInv, Typed
<1> DEFINE frame == Head(down)
           f == frame.body.cfg
<1>2. frame.tx \in Nat /\ f \in Configs
  <2>1. frame \in DownFrames /\ frame.kind = "CONFIG"
    BY <1>1, HeadAndTail, Zenon DEF HandleConfig, DownIs
  <2>2. frame \in ConfigFrames
    BY <2>1, Zenon DEF DownFrames, CommandFrames, DeauthFrames
  <2> QED
    BY <2>2, Zenon DEF ConfigFrames
<1>3. DownFine
  BY <1>1, DownSteps, Zenon DEF HandleConfig, DownIs
<1>4. UNCHANGED <<bSession, keys, hits, bQueues, applied>>
  BY Zenon DEF HandleConfig
<1>5. ConfigResult(f) \in Results /\ rLast.result \in Results
  BY <1>1, Zenon DEF ConfigResult, Results
<1>6. \A result \in Results : AckFrame("CONFIG", result, frame.tx) \in UpFrames /\ ~OkAck(AckFrame("CONFIG", result, frame.tx))
  BY <1>1, <1>2, FrameTypes, Zenon DEF OkAck, AckFrame, Frame
<1> HIDE DEF f
<1>7. CASE /\ SendAck("CONFIG", rLast.result, frame.tx)
           /\ UNCHANGED <<rKey, rNormal, rSeen, rDone, rTable, rLast, boots>>
  <2>1. UpFine
    BY <1>1, <1>5, <1>6, <1>7, UpSteps, ZenonT(30) DEF SendAck
  <2>2. TableFine /\ AppliedKept
    BY <1>1, <1>4, <1>7, TableSteps, ZenonT(30) DEF AppliedKept
  <2> QED
    BY <1>1, <1>3, <1>4, <1>7, <2>1, <2>2, LeafStep, SMTT(30) DEF SendAck
<1>8. CASE up' = Put(up, AckFrame("CONFIG", ConfigResult(f), frame.tx)) /\ ConfigEffect(f, frame.tx)
  <2>1. UpFine
    BY Zenon, <1>1, <1>5, <1>6, <1>8, UpSteps
  <2>2. CASE LeaveSession /\ ClearCommands /\ (UNCHANGED <<rDone, boots>> \/ Restarted) /\ rTx' \in Nat
    BY <1>1, <1>3, <1>4, <2>1, <2>2, LeaveKeeps, ZenonT(30) DEF Restarted
  <2>3. CASE /\ rLast' = [valid |-> TRUE, tx |-> frame.tx, result |-> ConfigResult(f)]
             /\ rTx' = rTx + 1
             /\ UNCHANGED <<rKey, rDone, rTable, boots>>
    <3>1. TableFine /\ AppliedKept
      BY <1>1, <1>4, <2>3, TableSteps, Zenon DEF AppliedKept
    <3>2. rLast' \in [valid : BOOLEAN, tx : Nat, result : Results]
      BY Zenon, <1>2, <1>5, <2>3
    <3> QED
      BY SMTT(30), <1>1, <1>3, <1>4, <2>1, <2>3, <3>1, <3>2, LeafStep
  <2> QED
    BY <1>1, <1>8, <2>2, <2>3 DEF ConfigEffect, Restarted
<1>9. CASE UNCHANGED <<rSession, up, rDone, rTable, rLast, boots>>
  <2>1. UpFine
    BY Zenon, <1>1, <1>9, UpSteps
  <2>2. TableFine /\ AppliedKept
    BY <1>1, <1>4, <1>9, TableSteps, Zenon DEF AppliedKept
  <2> QED
    BY <1>1, <1>3, <1>4, <1>9, <2>1, <2>2, LeafStep, ZenonT(30) DEF rSession
<1> QED
  BY <1>7, <1>8, <1>9, ZenonT(30) DEF HandleConfig, f

\* The steps of the leaf that apply no command.
LEMMA QuietLeafKeeps ==
  ASSUME CommandInv,
         HandleDeauth \/ (\E e \in Entities : PruneCommand(e)) \/ GiveUp \/ RemoteRestart \/ RouteRecovery \/ RouteResumed
  PROVE  CommandInv'
<1>1. /\ Typed /\ (rKey = 0 => rTable = EmptyTable) /\ rKey \in Nat /\ rTx \in Nat
      /\ rLast \in [valid : BOOLEAN, tx : Nat, result : Results]
  BY Zenon DEF CommandInv, Typed
<1>2. CASE HandleDeauth
  <2>1. DownFine /\ UpFine
    BY <1>1, <1>2, DownSteps, UpSteps, ZenonT(30) DEF HandleDeauth, DownIs
  <2> QED
    BY <1>1, <1>2, <2>1, LeaveKeeps, ZenonT(30) DEF HandleDeauth
<1>3. ASSUME NEW e \in Entities, PruneCommand(e) PROVE CommandInv'
  <2>1. DownFine /\ UpFine
    BY <1>1, <1>3, DownSteps, UpSteps, ZenonT(30) DEF PruneCommand, pairVars, path
  <2>2. e \in Assembling /\ rTable' = Release(rTable, e)
    BY <1>3, Zenon DEF PruneCommand, Expired, Assembling
  <2>3. TableFine /\ AppliedKept
    BY <1>1, <1>3, <2>2, TableSteps, ZenonT(30) DEF PruneCommand, AppliedKept
  <2>4. rKey # 0
    BY <1>1, <2>2 DEF Assembling, EmptyTable
  <2> QED
    BY <1>1, <1>3, <2>1, <2>3, <2>4, LeafStep, ZenonT(30) DEF PruneCommand, pairVars, bSession, rSession, path
<1>4. CASE GiveUp
  <2>1. DownFine /\ UpFine
    BY <1>1, <1>4, DownSteps, UpSteps, ZenonT(30) DEF GiveUp, path
  <2> QED
    BY <1>1, <1>4, <2>1, LeaveKeeps, Zenon DEF GiveUp, path
<1>5. CASE RemoteRestart
  <2>1. DownFine /\ UpFine
    BY <1>1, <1>5, DownSteps, UpSteps, ZenonT(30) DEF RemoteRestart, path
  <2> QED
    BY <1>1, <1>5, <2>1, LeaveKeeps, ZenonT(30) DEF RemoteRestart, Restarted, path
<1>6. CASE RouteRecovery \/ RouteResumed
  <2>1. DownFine /\ UpFine
    BY <1>1, <1>6, DownSteps, UpSteps, FrameTypes, ZenonT(30) DEF RouteRecovery, RouteResumed, path
  <2>2. TableFine /\ AppliedKept
    BY <1>1, <1>6, TableSteps, Zenon DEF RouteRecovery, RouteResumed, rCommands, AppliedKept
  <2>3. UNCHANGED <<bSession, keys, hits, bQueues, rKey, rTable, rLast>> /\ rTx' \in Nat
    BY <1>1, <1>6 DEF RouteRecovery, RouteResumed, rCommands, path
  <2> QED
    BY ZenonT(30), <1>1, <2>1, <2>2, <2>3, LeafStep
<1> QED
  BY ZenonT(30), <1>2, <1>3, <1>4, <1>5, <1>6

-----------------------------------------------------------------------------
(* A frame of a command.                                                    *)

\* The frame a leaf handles, once it is accepted.
Arriving == Head(down)
ArrivingBase == MessageTxBase(Arriving.tx, Arriving.body.index)
ArrivingFragment ==
  [entity |-> Arriving.body.entity, index |-> Arriving.body.index, count |-> Arriving.body.count,
   base |-> ArrivingBase, flag |-> FALSE, msg |-> Arriving.body.msg]

\* What is known of a frame of a command that arrives: it makes a claim.
LEMMA ArrivingTypes ==
  ASSUME CommandInv, DownIs("COMMAND")
  PROVE  /\ 1 \in CmdAt /\ down[1] = Arriving /\ Arriving \in CommandFrames
         /\ ArrivingBase \in Nat
         /\ Arriving.body.entity \in Entities /\ Arriving.body.msg \in Commands
         /\ ArrivingFragment \in FragmentType
         /\ NotEvicted => /\ ArrivingBase = BaseOf(Arriving)
                          /\ ArrivingBase \in 1 .. CounterSpan \div 2
                          /\ <<ArrivingBase, Arriving.body.msg>> \in Claims
                          /\ IsFragment(Arriving.body.entity, Arriving.body.index, Arriving.body.count, Arriving.body.msg)
<1>1. Typed /\ down \in Seq(DownFrames)
  BY Zenon DEF CommandInv, Typed
<1>2. 1 \in 1 .. Len(down) /\ down[1] = Arriving /\ Arriving \in DownFrames /\ Arriving.kind = "COMMAND"
  BY <1>1, HeadAndTail DEF DownIs, Arriving
<1>3. 1 \in CmdAt
  BY <1>2, Zenon DEF CmdAt
<1>4. Arriving \in CommandFrames
  BY Zenon, <1>1, <1>2, <1>3, ClaimantTypes
<1>5. /\ Arriving.tx \in Nat /\ Arriving.body.index \in Nat /\ Arriving.body.count \in Nat
      /\ Arriving.body.entity \in Entities /\ Arriving.body.msg \in Commands
  BY <1>4, Zenon DEF CommandFrames
<1>6. ArrivingBase \in Nat
  BY <1>5, AssemblyAssumption DEF ArrivingBase, MessageTxBase
<1>7. ArrivingFragment \in FragmentType
  BY <1>5, <1>6, Zenon DEF ArrivingFragment, FragmentType
<1>8. ASSUME NotEvicted
      PROVE  /\ ArrivingBase = BaseOf(Arriving)
             /\ ArrivingBase \in 1 .. CounterSpan \div 2
             /\ <<ArrivingBase, Arriving.body.msg>> \in Claims
             /\ IsFragment(Arriving.body.entity, Arriving.body.index, Arriving.body.count, Arriving.body.msg)
  <2>1. ClaimsOrdered /\ FragmentsSound
    BY <1>8, Zenon DEF CommandInv
  <2>2. <<BaseOf(Arriving), Arriving.body.msg>> \in Claims
    BY <1>2, <1>3, Zenon DEF Claims, Air, FrameClaims
  <2>3. BaseOf(Arriving) \in 1 .. CounterSpan \div 2
    BY <2>1, <2>2, Zenon DEF ClaimsOrdered
  <2>4. ArrivingBase = BaseOf(Arriving)
    BY <1>5, <2>3, BaseIsDifference, Zenon DEF ArrivingBase, BaseOf
  <2> QED
    BY <1>2, <1>3, <2>1, <2>2, <2>3, <2>4, ZenonT(30) DEF FragmentsSound
<1> QED
  BY Zenon, <1>2, <1>3, <1>4, <1>5, <1>6, <1>7, <1>8

\* Taking the fragment makes no claim that the frame did not make.
LEMMA ReceiveKeepsTable ==
  ASSUME CommandInv, DownIs("COMMAND"), NEW r, r = Receive(rTable, ArrivingFragment, FALSE), rTable' = r.table
  PROVE  TableFine
<1> DEFINE f == ArrivingFragment
           e == f.entity
           n == rTable'.asm[e]
           o == rTable.asm[e]
<1>1. Typed /\ rTable \in Tables
  BY Zenon DEF CommandInv, Typed
<1>2. f \in FragmentType /\ e \in Entities
  BY ArrivingTypes, ZenonT(30) DEF ArrivingFragment
<1>3. /\ rTable' \in Tables
      /\ \A d \in Entities \ {e} : rTable'.asm[d] = rTable.asm[d]
      /\ n # NoEntry /\ n.active /\ n # o =>
           n.base = f.base /\ n.count = f.count /\ \A p \in n.parts : PartOf(o, f, p)
  BY ZenonT(60), <1>1, <1>2, ReceiveEffect
<1>4. /\ f.base = ArrivingBase /\ f.count = Arriving.body.count /\ e = Arriving.body.entity
      /\ f.index = Arriving.body.index /\ f.msg = Arriving.body.msg
  BY Zenon DEF ArrivingFragment
<1> HIDE DEF f
<1>5. ASSUME NotEvicted PROVE TableKept
  <2> SUFFICES ASSUME NEW d \in Assembling', NEW p \in rTable'.asm[d].parts
               PROVE  \/ /\ d \in Assembling /\ p \in rTable.asm[d].parts
                         /\ rTable'.asm[d].base = rTable.asm[d].base /\ rTable'.asm[d].count = rTable.asm[d].count
                      \/ \E j \in CmdAt :
                           /\ rTable'.asm[d].base = BaseOf(down[j]) /\ rTable'.asm[d].count = down[j].body.count
                           /\ d = down[j].body.entity /\ p = <<down[j].body.index, down[j].body.msg>>
    BY Zenon DEF TableKept
  <2>1. d \in Entities /\ rTable'.asm[d] # NoEntry /\ rTable'.asm[d].active
    BY Zenon DEF Assembling
  <2>2. CASE rTable'.asm[d] = rTable.asm[d]
    BY <2>1, <2>2, Zenon DEF Assembling
  <2>3. CASE rTable'.asm[d] # rTable.asm[d]
    <3>1. d = e /\ n.base = f.base /\ n.count = f.count /\ PartOf(o, f, p)
      BY Zenon, <1>3, <2>1, <2>3
    <3>2. CASE p = <<f.index, f.msg>>
      BY ZenonT(30), <1>4, <1>5, <3>1, <3>2, ArrivingTypes
    <3>3. CASE o # NoEntry /\ o.active /\ o.base = f.base /\ o.count = f.count /\ p \in o.parts
      BY <1>2, <3>1, <3>3, Zenon DEF Assembling
    <3> QED
      BY <3>1, <3>2, <3>3, Zenon DEF PartOf
  <2> QED
    BY Zenon, <2>2, <2>3
<1> QED
  BY <1>3, <1>5, Zenon DEF TableFine

\* A payload that is complete is one command, and that command was sent whole.
LEMMA CompletedPayload ==
  ASSUME CommandInv, NotEvicted, DownIs("COMMAND"), NEW r, r = Receive(rTable, ArrivingFragment, FALSE), r.done
  PROVE  r.whole = {Arriving.body.msg} /\ WasIssued(Arriving.body.msg)
<1> DEFINE f == ArrivingFragment
           m == Arriving.body.msg
           e == Arriving.body.entity
           o == rTable.asm[e]
<1>1. Typed /\ rTable \in Tables /\ ClaimsOrdered /\ FragmentsSound
  BY Zenon DEF CommandInv, Typed
<1>2. /\ f \in FragmentType /\ e \in Entities /\ <<ArrivingBase, m>> \in Claims /\ m \in Commands
      /\ IsFragment(e, Arriving.body.index, Arriving.body.count, m)
  BY Zenon, ArrivingTypes
<1>3. /\ f.base = ArrivingBase /\ f.count = Arriving.body.count /\ f.entity = e
      /\ f.index = Arriving.body.index /\ f.msg = m
  BY Zenon DEF ArrivingFragment
<1> HIDE DEF f
<1>4. PICK parts \in SUBSET (Nat \X Commands) :
        /\ r.whole = {p[2] : p \in parts}
        /\ {p[1] : p \in parts} = 0 .. f.count - 1
        /\ \A p \in parts : PartOf(o, f, p)
  <2>1. r = Receive(rTable, f, FALSE)
    BY Zenon DEF f
  <2>2. \E parts \in SUBSET (Nat \X Commands) :
          /\ r.whole = {p[2] : p \in parts}
          /\ {p[1] : p \in parts} = 0 .. f.count - 1
          /\ \A p \in parts : PartOf(rTable.asm[f.entity], f, p)
    BY ONLY ZenonT(30), r.done, <1>1, <1>2, <2>1, ReceiveEffect
  <2> QED
    BY Zenon, <1>3, <2>2
<1>5. f.count \in Nat \ {0}
  <2>1. f.count = Frags[m]
    BY <1>2, <1>3, Zenon DEF IsFragment
  <2> QED
    BY <1>2, <2>1, CommandAssumption, AssemblyAssumption
<1>6. ASSUME NEW p \in parts PROVE p[2] = m /\ (p[1] = f.count - 1 => WasIssued(m))
  <2>1. CASE p = <<f.index, f.msg>>
    BY <1>2, <1>3, <2>1, Zenon DEF IsFragment
  <2>2. CASE o # NoEntry /\ o.active /\ o.base = f.base /\ o.count = f.count /\ p \in o.parts
    <3>1. e \in Assembling
      BY <1>2, <2>2, ZenonT(30) DEF Assembling
    <3>2. <<ArrivingBase, p[2]>> \in {<<rTable.asm[e].base, q[2]>> : q \in rTable.asm[e].parts}
      BY Zenon, <1>3, <2>2
    <3>3. <<ArrivingBase, p[2]>> \in Claims
      BY <3>1, <3>2 DEF Claims, Air, KeptClaims
    <3>4. p[2] = m
      BY <1>1, <1>2, <3>3, Zenon DEF ClaimsOrdered
    <3>5. IsFragment(e, p[1], o.count, p[2])
      BY <1>1, <2>2, <3>1, Zenon DEF FragmentsSound
    <3> QED
      BY <2>2, <3>4, <3>5, Zenon DEF IsFragment
  <2> QED
    BY <1>4, <2>1, <2>2, Zenon DEF PartOf
<1>7. PICK p \in parts : p[1] = f.count - 1
  <2>1. f.count - 1 \in {p[1] : p \in parts}
    BY <1>4, <1>5
  <2> QED
    BY Zenon, <2>1
<1>8. WasIssued(m)
  BY Zenon, <1>6, <1>7
<1>9. r.whole = {m}
  BY Zenon, <1>4, <1>6, <1>7
<1> QED
  BY Zenon, <1>8, <1>9

\* The bookkeeping of a step in which the leaf applies a command.
Applies ==
  /\ DownIs("COMMAND") /\ down' = Tail(down)
  /\ rKey # 0 /\ Arriving.body.entity \in Known
  /\ CounterIsNewer(ArrivingBase, rDone[Arriving.body.entity])
  /\ \E r \in {Receive(rTable, ArrivingFragment, FALSE)} :
       /\ rTable' = r.table /\ r.done
       /\ applied' = Append(applied, [boot |-> boots, entity |-> Arriving.body.entity, payload |-> r.whole])
  /\ rDone' = [rDone EXCEPT ![Arriving.body.entity] = ArrivingBase]
  /\ up' = Put(up, AckFrame("COMMAND", "OK", ArrivingBase))
  /\ rTx' = rTx + 1
  /\ UNCHANGED <<bSession, rKey, keys, hits, bQueues, rLast, boots>>

\* The history of what was applied, with one more entry.
LEMMA AppliedMore ==
  ASSUME CommandInv, Applies
  PROVE  /\ applied' \in Seq([boot : Nat, entity : Entities, payload : SUBSET Commands])
         /\ Len(applied) \in Nat /\ Len(applied') = Len(applied) + 1
         /\ \A i \in 1 .. Len(applied) : applied'[i] = applied[i]
         /\ applied'[Len(applied) + 1].boot = boots
         /\ applied'[Len(applied) + 1].entity = Arriving.body.entity
         /\ NotEvicted => /\ applied'[Len(applied) + 1].payload = {Arriving.body.msg}
                          /\ WasIssued(Arriving.body.msg)
         /\ \A c : WasApplied(c) => WasApplied(c)'
         /\ NotEvicted => \A c : c = Arriving.body.msg => WasApplied(c)'
<1> DEFINE Entry == [boot : Nat, entity : Entities, payload : SUBSET Commands]
<1>1. applied \in Seq(Entry) /\ boots \in Nat /\ rTable \in Tables
  BY Zenon DEF CommandInv, Typed
<1>2. PICK r : /\ r = Receive(rTable, ArrivingFragment, FALSE) /\ r.done
               /\ applied' = Append(applied, [boot |-> boots, entity |-> Arriving.body.entity, payload |-> r.whole])
  BY Zenon DEF Applies
<1>3. Arriving.body.entity \in Entities /\ ArrivingFragment \in FragmentType
  BY ArrivingTypes, Zenon DEF Applies
<1>4. r.whole \subseteq Commands
  <2>1. \E parts \in SUBSET (Nat \X Commands) : r.whole = {p[2] : p \in parts}
    BY ZenonT(30), <1>1, <1>2, <1>3, ReceiveEffect
  <2> QED
    BY Zenon, <2>1
<1> DEFINE new == [boot |-> boots, entity |-> Arriving.body.entity, payload |-> r.whole]
<1>5. new \in Entry /\ new.boot = boots /\ new.entity = Arriving.body.entity /\ new.payload = r.whole
  BY Zenon, <1>1, <1>3, <1>4
<1>6. applied' = Append(applied, new)
  BY Zenon, <1>2
<1> HIDE DEF new, Entry
<1>7. /\ applied' \in Seq(Entry) /\ Len(applied) \in Nat /\ Len(applied') = Len(applied) + 1
      /\ \A i \in 1 .. Len(applied) : applied'[i] = applied[i]
      /\ applied'[Len(applied) + 1] = new
  BY <1>1, <1>5, <1>6, AppendElements
<1>8. ASSUME NotEvicted PROVE r.whole = {Arriving.body.msg} /\ WasIssued(Arriving.body.msg)
  BY <1>2, <1>8, CompletedPayload, Zenon DEF Applies
<1>9. ASSUME NEW c, WasApplied(c) PROVE WasApplied(c)'
  BY <1>7, <1>9 DEF WasApplied, AppliedAt
<1>10. ASSUME NotEvicted, NEW c, c = Arriving.body.msg PROVE WasApplied(c)'
  <2>1. Len(applied) + 1 \in 1 .. Len(applied')
    BY <1>7
  <2>2. applied'[Len(applied) + 1].payload = {c}
    BY ZenonT(30), <1>5, <1>7, <1>8, <1>10
  <2> QED
    BY <2>1, <2>2, Zenon DEF WasApplied, AppliedAt
<1> QED
  BY <1>5, <1>7, <1>8, <1>9, <1>10, Zenon DEF Entry

\* Applying a command keeps the order of what is applied,
LEMMA AppliesInOrder ==
  ASSUME CommandInv, NotEvicted, Applies, Claims' \subseteq Claims
  PROVE  OrderKept'
<1> DEFINE m == Arriving.body.msg
           e == Arriving.body.entity
           b == ArrivingBase
           new == Len(applied) + 1
<1>1. Typed /\ ClaimsOrdered /\ OrderKept /\ rDone \in [Entities -> Nat] /\ boots \in Nat
  BY Zenon DEF CommandInv, Typed
<1>2. /\ e \in Entities /\ b \in 1 .. CounterSpan \div 2 /\ <<b, m>> \in Claims /\ m \in Commands /\ Target[m] = e
  BY ArrivingTypes, Zenon DEF Applies, IsFragment
<1>3. b > rDone[e] /\ CounterSpan \div 2 \in Nat
  <2>1. CounterSpan \div 2 \in Nat
    BY AssemblyAssumption
  <2>2. rDone[e] \in 0 .. CounterSpan \div 2 /\ b \in 0 .. CounterSpan \div 2
    BY <1>1, <1>2, <2>1 DEF OrderKept
  <2> QED
    BY <2>1, <2>2, NewerIsLarger, Zenon DEF Applies
<1>4. /\ Len(applied) \in Nat /\ Len(applied') = new
      /\ \A i \in 1 .. Len(applied) : applied'[i] = applied[i]
      /\ applied'[new].boot = boots /\ applied'[new].entity = e /\ applied'[new].payload = {m}
      /\ WasIssued(m)
  BY Zenon, AppliedMore
<1>5. /\ rDone'[e] = b /\ \A d \in Entities : d # e => rDone'[d] = rDone[d]
      /\ \A d \in Entities : rDone'[d] >= rDone[d] /\ rDone'[d] \in Nat
  BY <1>1, <1>2, <1>3 DEF Applies
<1>6. boots' = boots /\ issued' = issued
  BY Zenon DEF Applies, bQueues
<1>7. \A c, d : (WasIssued(c)' <=> WasIssued(c)) /\ (IssuedBefore(c, d)' <=> IssuedBefore(c, d))
  BY <1>6, Zenon DEF WasIssued, Queued, IssuedBefore
<1>8. AppliedAt' = AppliedAt \cup {new} /\ \A i \in AppliedAt : i < new /\ i \in Nat /\ applied'[i] = applied[i]
  BY <1>4 DEF AppliedAt
<1> HIDE DEF m, e, b, new
<1>9. \A d \in Entities : rDone'[d] <= CounterSpan \div 2
  BY <1>1, <1>2, <1>5 DEF OrderKept
<1>10. ASSUME NEW i \in AppliedAt'
       PROVE  applied'[i].boot <= boots' /\ \E c \in Commands : WasIssued(c)' /\ applied'[i].payload = {c}
  <2>1. CASE i \in AppliedAt
    BY <1>1, <1>6, <1>7, <1>8, <2>1, ZenonT(30) DEF OrderKept
  <2>2. CASE i = new
    <3>1. applied'[i].boot <= boots'
      BY <1>1, <1>4, <1>6, <2>2
    <3>2. PICK c : c = m
      BY Zenon
    <3>3. c \in Commands /\ WasIssued(c) /\ applied'[i].payload = {c}
      BY Zenon, <1>2, <1>4, <2>2, <3>2
    <3> QED
      BY Zenon, <1>7, <3>1, <3>3
  <2> QED
    BY Zenon, <1>8, <2>1, <2>2
<1>11. ASSUME NEW i \in AppliedAt', NEW x \in Claims', applied'[i].boot = boots', Target[x[2]] = applied'[i].entity,
              x[1] > rDone'[applied'[i].entity], WasIssued(x[2])', NEW d \in applied'[i].payload
       PROVE  IssuedBefore(d, x[2])'
  <2>0. x \in Claims /\ x[1] \in Int /\ Target[x[2]] \in Entities
    BY Zenon, <1>1, <1>11, ClaimTypes, CommandAssumption
  <2>1. CASE i \in AppliedAt
    <3>1. x[1] > rDone[applied[i].entity]
      BY <1>1, <1>5, <1>8, <1>11, <2>0, <2>1
    <3>2. IssuedBefore(d, x[2])
      BY <1>1, <1>6, <1>7, <1>8, <1>11, <2>0, <2>1, <3>1, ZenonT(30) DEF OrderKept
    <3> QED
      BY Zenon, <1>7, <3>2
  <2>2. CASE i = new
    <3>1. d = m /\ x[1] > b
      BY Zenon, <1>4, <1>5, <1>11, <2>2
    <3>2. IssuedBefore(m, x[2])
      BY <1>1, <1>2, <1>4, <1>7, <1>11, <2>0, <3>1, ZenonT(30) DEF ClaimsOrdered
    <3> QED
      BY Zenon, <1>7, <3>1, <3>2
  <2> QED
    BY Zenon, <1>8, <2>1, <2>2
<1>12. ASSUME NEW i \in AppliedAt', NEW j \in AppliedAt', i < j,
              applied'[i].boot = applied'[j].boot, applied'[i].entity = applied'[j].entity,
              NEW c \in applied'[i].payload, NEW d \in applied'[j].payload
       PROVE  IssuedBefore(c, d)'
  <2>1. CASE i \in AppliedAt /\ j \in AppliedAt
    <3>1. IssuedBefore(c, d)
      BY <1>1, <1>8, <1>12, <2>1, Zenon DEF OrderKept
    <3> QED
      BY Zenon, <1>7, <3>1
  <2>2. CASE i \in AppliedAt /\ j = new
    <3>1. d = m /\ applied[i].boot = boots /\ applied[i].entity = e /\ c \in applied[i].payload
      BY ZenonT(30), <1>4, <1>8, <1>12, <2>2
    <3>2. IssuedBefore(c, m)
      BY <1>1, <1>2, <1>3, <1>4, <2>2, <3>1, SMTT(30) DEF OrderKept
    <3> QED
      BY Zenon, <1>7, <3>1, <3>2
  <2>3. CASE i = new
    <3>1. ~(i < j)
      BY <1>4, <1>8, <2>3 DEF new
    <3> QED
      BY Zenon, <1>12, <3>1
  <2> QED
    BY Zenon, <1>8, <2>1, <2>2, <2>3
<1> QED
  BY <1>9, <1>10, <1>11, <1>12, ZenonT(30) DEF OrderKept

\* and its ack is true.
LEMMA AppliesAndAcks ==
  ASSUME CommandInv, ~hits.forgot, Applies, Claims' \subseteq Claims, QueueClaims' \subseteq QueueClaims
  PROVE  AcksTrue'
<1> DEFINE m == Arriving.body.msg
           e == Arriving.body.entity
           b == ArrivingBase
           ack == AckFrame("COMMAND", "OK", b)
<1>0. NotEvicted
  BY Zenon DEF NotEvicted
<1>1. Typed /\ ClaimsOrdered /\ AcksTrue /\ rDone \in [Entities -> Nat] /\ bTx \in Nat /\ up \in Seq(UpFrames)
  BY <1>0, Zenon DEF CommandInv, Typed
<1>2. /\ e \in Entities /\ b \in Nat /\ <<b, m>> \in Claims /\ Target[m] = e
  BY <1>0, ArrivingTypes, Zenon DEF Applies, IsFragment
<1>3. b < bTx
  BY <1>1, <1>2, Zenon DEF AcksTrue
<1>4. \A x \in Claims : x[1] = b => x[2] = m
  BY <1>1, <1>2, Zenon DEF ClaimsOrdered
<1>5. (\A c : WasApplied(c) => WasApplied(c)') /\ (\A c : c = m => WasApplied(c)')
  BY Zenon, <1>0, AppliedMore
<1>6. /\ rDone'[e] = b /\ \A d \in Entities : d # e => rDone'[d] = rDone[d]
      /\ bTx' = bTx /\ acked' = acked
  BY <1>1, <1>2, Zenon DEF Applies, bSession, bQueues
<1>7. ack \in UpFrames /\ ack.body.ref = b
  <2>1. ack \in UpFrames
    BY <1>1, <1>2, FrameTypes, Zenon DEF Results
  <2> QED
    BY <2>1, Zenon DEF AckFrame, Frame
<1>8. up' = Put(up, ack)
  BY Zenon DEF Applies
<1> HIDE DEF m, e, b, ack
<1>9. ASSUME NEW x \in Claims' PROVE x[1] < bTx' /\ (x[1] = rDone'[Target[x[2]]] => WasApplied(x[2])')
  <2>1. x \in Claims /\ Target[x[2]] \in Entities /\ x[1] < bTx /\ (x[1] = rDone[Target[x[2]]] => WasApplied(x[2]))
    BY <1>1, <1>9, ClaimTypes, CommandAssumption, Zenon DEF AcksTrue
  <2>2. CASE Target[x[2]] = e
    BY ZenonT(30), <1>4, <1>5, <1>6, <2>1, <2>2
  <2>3. CASE Target[x[2]] # e
    BY ZenonT(30), <1>5, <1>6, <2>1, <2>3
  <2> QED
    BY Zenon, <2>2, <2>3
<1>10. \A d \in Entities : rDone'[d] < bTx'
  BY <1>1, <1>3, <1>6, ZenonT(30) DEF AcksTrue
<1>11. ASSUME NEW i \in 1 .. Len(up'), OkAck(up'[i])
       PROVE  /\ up'[i].body.ref < bTx'
              /\ \A x \in QueueClaims' : x[1] = up'[i].body.ref => WasApplied(x[2])'
  <2>1. CASE i \in 1 .. Len(up) /\ up'[i] = up[i]
    BY <1>1, <1>5, <1>6, <1>11, <2>1, ZenonT(30) DEF AcksTrue, OkAck
  <2>2. CASE up'[i] = ack
    <3>1. \A x \in QueueClaims' : x \in Claims
      BY Zenon DEF Claims
    <3> QED
      BY Zenon, <1>3, <1>4, <1>5, <1>6, <1>7, <2>2, <3>1
  <2>3. (i \in 1 .. Len(up) /\ up'[i] = up[i]) \/ up'[i] = ack
    <3>1. CASE up' = up
      BY Zenon, <3>1
    <3>2. CASE up' = Append(up, ack)
      <4>1. /\ Len(up') = Len(up) + 1 /\ Len(up) \in Nat
            /\ \A k \in 1 .. Len(up) : up'[k] = up[k]
            /\ up'[Len(up) + 1] = ack
        BY SMTT(30), <1>1, <1>7, <3>2, AppendElements
      <4>2. i \in 1 .. Len(up) \/ i = Len(up) + 1
        BY <4>1
      <4> QED
        BY Zenon, <4>1, <4>2
    <3> QED
      BY <1>8, <3>1, <3>2, Zenon DEF Put
  <2> QED
    BY Zenon, <2>1, <2>2, <2>3
<1>12. \A c \in acked' : WasApplied(c)'
  BY <1>1, <1>5, <1>6, Zenon DEF AcksTrue
<1> QED
  BY <1>9, <1>10, <1>11, <1>12, Zenon DEF AcksTrue, OkAck

\* The leaf applies a command.
LEMMA AppliesKeeps ==
  ASSUME CommandInv, Applies
  PROVE  CommandInv'
<1>1. Typed /\ rDone \in [Entities -> Nat] /\ rTx \in Nat
  BY Zenon DEF CommandInv, Typed
<1>2. DownFine
  BY <1>1, DownSteps, Zenon DEF Applies, DownIs
<1>3. TableFine
  BY ReceiveKeepsTable, Zenon DEF Applies
<1>4. QueueFine /\ IssuedKept
  BY <1>1, QueueSteps, SameIssued, Zenon DEF Applies, bQueues
<1>5. sc' = sc /\ hits' = hits /\ bKey' = bKey /\ bTx' = bTx /\ bTx \in Nat \ {0}
  BY <1>1, Zenon DEF Applies, sc, bSession, Typed
<1>6. Arriving.body.entity \in Entities /\ ArrivingBase \in Nat
  BY ArrivingTypes, Zenon DEF Applies
<1>7. rDone' \in [Entities -> Nat]
  BY <1>1, <1>6, Zenon DEF Applies
<1>8. up' \in Seq(UpFrames)
  <2>1. AckFrame("COMMAND", "OK", ArrivingBase) \in UpFrames
    BY <1>1, <1>6, FrameTypes, Zenon DEF Results
  <2>2. up \in Seq(UpFrames)
    BY <1>1, Zenon DEF Typed
  <2>3. Append(up, AckFrame("COMMAND", "OK", ArrivingBase)) \in Seq(UpFrames)
    BY ZenonT(30), <2>1, <2>2, AppendElements
  <2> QED
    BY <2>2, <2>3, ZenonT(30) DEF Applies, Put
<1>9. applied' \in Seq([boot : Nat, entity : Entities, payload : SUBSET Commands])
  BY Zenon, AppliedMore
<1>10. /\ keys' = keys /\ rKey' = rKey /\ issued' = issued /\ acked' = acked /\ rLast' = rLast /\ boots' = boots
       /\ rTx' \in Nat
  BY <1>1 DEF Applies, bQueues
<1>11. Typed'
  BY <1>1, <1>2, <1>3, <1>4, <1>5, <1>7, <1>8, <1>9, <1>10, ZenonT(30) DEF Typed, DownFine, TableFine, QueueFine
<1>12. NotEvicted' = NotEvicted
  BY <1>5, Zenon DEF NotEvicted
<1>13. ASSUME NotEvicted
       PROVE  /\ Claims' \subseteq Claims /\ QueueClaims' \subseteq QueueClaims
              /\ FragmentsSound' /\ ClaimsOrdered' /\ OrderKept'
  <2>1. FragmentsSound /\ ClaimsOrdered /\ DownKept /\ TableKept /\ QueueKept
    BY <1>2, <1>3, <1>4, <1>13, Zenon DEF CommandInv, DownFine, TableFine, QueueFine
  <2>2. Claims' \subseteq Claims /\ QueueClaims' \subseteq QueueClaims
    BY Zenon, <2>1, ClaimsShrink
  <2>3. SessionKept
    BY <1>1, <1>4, <1>5, <2>1, SameSession, SMTT(30) DEF QueueFine
  <2>4. FragmentsSound'
    BY Zenon, <1>1, <1>4, <2>1, KeepsFragments
  <2>5. ClaimsOrdered'
    BY ZenonT(30), <1>1, <1>4, <1>5, <2>1, <2>3, KeepsClaims
  <2>6. OrderKept'
    BY Zenon, <1>13, <2>2, AppliesInOrder
  <2> QED
    BY ZenonT(30), <2>2, <2>4, <2>5, <2>6
<1>14. ASSUME ~hits.forgot PROVE AcksTrue'
  <2>1. NotEvicted
    BY <1>14, Zenon DEF NotEvicted
  <2> QED
    BY Zenon, <1>13, <1>14, <2>1, AppliesAndAcks
<1>15. rKey' # 0
  BY <1>10, Zenon DEF Applies
<1> QED
  BY <1>5, <1>11, <1>12, <1>13, <1>14, <1>15, ZenonT(30) DEF CommandInv

\* A fragment of the message the leaf completed last is acked again.
LEMMA RepeatedAckTrue ==
  ASSUME CommandInv, DownIs("COMMAND"), ArrivingBase = rDone[Arriving.body.entity],
         up' = Put(up, AckFrame("COMMAND", "OK", ArrivingBase))
  PROVE  UpFine
<1> DEFINE ack == AckFrame("COMMAND", "OK", ArrivingBase)
<1>1. Typed /\ up \in Seq(UpFrames) /\ Len(up) \in Nat
  BY SMTT(30) DEF CommandInv, Typed
<1>2. ack \in UpFrames /\ ack.body.ref = ArrivingBase
  <2>1. ack \in UpFrames
    BY <1>1, ArrivingTypes, FrameTypes, Zenon DEF Results
  <2> QED
    BY <2>1, Zenon DEF AckFrame, Frame
<1>3. ASSUME ~hits.forgot PROVE TrueAck(ArrivingBase)
  <2>1. NotEvicted /\ AcksTrue
    BY <1>3, Zenon DEF NotEvicted, CommandInv
  <2>2. ClaimsOrdered
    BY <2>1, Zenon DEF CommandInv
  <2>3. /\ <<ArrivingBase, Arriving.body.msg>> \in Claims /\ Target[Arriving.body.msg] = Arriving.body.entity
    BY <2>1, ArrivingTypes, Zenon DEF IsFragment
  <2>4. ArrivingBase < bTx /\ WasApplied(Arriving.body.msg)
    BY <2>1, <2>3, Zenon DEF AcksTrue
  <2>5. ASSUME NEW x \in QueueClaims, x[1] = ArrivingBase PROVE WasApplied(x[2])
    <3>1. x \in Claims
      BY Zenon DEF Claims
    <3>2. x[2] = Arriving.body.msg
      BY <2>2, <2>3, <2>5, <3>1, ZenonT(30) DEF ClaimsOrdered
    <3> QED
      BY Zenon, <2>4, <3>2
  <2> QED
    BY <2>4, <2>5, Zenon DEF TrueAck
<1> HIDE DEF ack
<1>4. CASE up' = up
  BY ZenonT(30), <1>1, <1>4, UpSteps
<1>5. CASE up' = Append(up, ack)
  <2>0. up \in Seq(UpFrames) /\ ack \in UpFrames
    BY ZenonT(30), <1>1, <1>2
  <2>1. /\ up' \in Seq(UpFrames) /\ Len(up') = Len(up) + 1
        /\ \A k \in 1 .. Len(up) : up'[k] = up[k]
        /\ up'[Len(up) + 1] = ack
    BY ONLY SMTT(30), <1>5, <2>0, AppendElements
  <2>2. ASSUME ~hits.forgot, NEW i \in 1 .. Len(up')
        PROVE  TrueAck(up'[i].body.ref) \/ \E j \in 1 .. Len(up) : up'[i] = up[j]
    <3>1. i \in 1 .. Len(up) \/ i = Len(up) + 1
      BY <1>1, <2>1
    <3>2. TrueAck(ack.body.ref)
      BY ZenonT(30), <1>2, <1>3, <2>2
    <3>3. CASE i = Len(up) + 1
      BY ZenonT(30), <2>1, <3>2, <3>3
    <3>4. CASE i \in 1 .. Len(up)
      BY ZenonT(30), <2>1, <3>4
    <3> QED
      BY ZenonT(30), <3>1, <3>3, <3>4
  <2> QED
    BY <2>1, <2>2, Zenon DEF UpFine, AcksKept
<1> QED
  BY <1>4, <1>5, ZenonT(30) DEF Put, ack

\* The leaf takes a frame of a command.
LEMMA HandleCommandKeeps ==
  ASSUME CommandInv, HandleCommand
  PROVE  CommandInv'
<1>1. /\ Typed /\ (rKey = 0 => rTable = EmptyTable) /\ rKey \in Nat /\ rTx \in Nat
      /\ rLast \in [valid : BOOLEAN, tx : Nat, result : Results]
  BY Zenon DEF CommandInv, Typed
<1>2. DownIs("COMMAND") /\ down' = Tail(down) /\ DownFine
  BY <1>1, DownSteps, Zenon DEF HandleCommand, DownIs
<1>3. UNCHANGED <<bSession, rKey, keys, hits, bQueues, rLast, boots>>
  BY Zenon DEF HandleCommand
<1>4. Arriving.body.entity \in Entities /\ ArrivingBase \in Nat
  BY ZenonT(30), <1>2, ArrivingTypes
<1>5. ASSUME UpFine, UNCHANGED <<rDone, applied>>, rTx' \in Nat, TableFine, rKey # 0 \/ rTable' = rTable
      PROVE  CommandInv'
  <2>1. AppliedKept
    BY <1>3, <1>5, ZenonT(30) DEF AppliedKept
  <2> QED
    BY ZenonT(30), <1>1, <1>2, <1>3, <1>5, <2>1, LeafStep
<1>6. rTable' = rTable => TableFine
  BY ZenonT(30), <1>1, TableSteps
<1>7. up' = up => UpFine
  BY ZenonT(30), <1>1, UpSteps
<1>8. CASE UNCHANGED <<rSeen, rTx, up, rDone, rTable, applied>>
  BY ZenonT(30), <1>1, <1>5, <1>6, <1>7, <1>8
<1>9. CASE rKey # 0 /\ CommandFragment(Arriving)
  <2>1. CASE SendAck("COMMAND", "INVALID", ArrivingBase) /\ UNCHANGED <<rSeen, rDone, rTable, applied>>
    <3>1. AckFrame("COMMAND", "INVALID", ArrivingBase) \in UpFrames
      BY <1>1, <1>4, FrameTypes, ZenonT(30) DEF Results
    <3>2. ~OkAck(AckFrame("COMMAND", "INVALID", ArrivingBase))
      BY Zenon DEF OkAck, AckFrame, Frame
    <3>3. UpFine
      BY <1>1, <2>1, <3>1, <3>2, UpSteps, ZenonT(30) DEF SendAck
    <3>4. UNCHANGED <<rDone, applied, rTable>> /\ rTx' \in Nat
      BY <1>1, <2>1 DEF SendAck
    <3> QED
      BY ZenonT(30), <1>5, <1>6, <3>3, <3>4
  <2>2. CASE /\ ArrivingBase = rDone[Arriving.body.entity]
             /\ SendAck("COMMAND", "OK", ArrivingBase) /\ UNCHANGED <<rSeen, rDone, rTable, applied>>
    <3>1. UpFine
      BY <1>2, <2>2, RepeatedAckTrue, ZenonT(30) DEF SendAck
    <3>2. UNCHANGED <<rDone, applied, rTable>> /\ rTx' \in Nat
      BY <1>1, <2>2, SMTT(30) DEF SendAck
    <3> QED
      BY ZenonT(30), <1>5, <1>6, <3>1, <3>2
  <2>3. ASSUME Arriving.body.entity \in Known, CounterIsNewer(ArrivingBase, rDone[Arriving.body.entity]),
               NEW r, r = Receive(rTable, ArrivingFragment, FALSE), rTable' = r.table,
               IF r.done
                 THEN /\ rDone' = [rDone EXCEPT ![Arriving.body.entity] = ArrivingBase]
                      /\ applied' = Append(applied, [boot |-> boots, entity |-> Arriving.body.entity, payload |-> r.whole])
                      /\ SendAck("COMMAND", "OK", ArrivingBase)
                 ELSE UNCHANGED <<rDone, applied, rTx, up>>
        PROVE  CommandInv'
    <3>1. CASE r.done
      <4>1. Applies
        BY <1>2, <1>3, <1>9, <2>3, <3>1, ZenonT(30) DEF Applies, SendAck
      <4> QED
        BY Zenon, <4>1, AppliesKeeps
    <3>2. CASE ~r.done
      <4>1. TableFine
        BY Zenon, <1>2, <2>3, ReceiveKeepsTable
      <4> QED
        BY ZenonT(30), <1>1, <1>5, <1>7, <1>9, <2>3, <3>2, <4>1
    <3> QED
      BY ZenonT(30), <3>1, <3>2
  <2> QED
    BY <1>8, <1>9, <2>1, <2>2, <2>3, ZenonT(30) DEF CommandFragment, ArrivingBase, ArrivingFragment
<1> QED
  BY <1>8, <1>9, ZenonT(30) DEF HandleCommand, Arriving
=============================================================================
