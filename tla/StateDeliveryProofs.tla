------------------------- MODULE StateDeliveryProofs -------------------------
(***************************************************************************)
(* The path of the states implements ValueMirror when the radio repeats no *)
(* frame: whatever is lost, retried early, evicted or restarted, no view   *)
(* of an entity goes back to an older value.                               *)
(*                                                                         *)
(* The argument: the values of an entity that are under way form one line, *)
(* from the view of a sink over the bridge's value, the parts of an        *)
(* unfinished assembly and the frames in flight to the push the leaf waits *)
(* for, and no value in it is newer than one that is further back.         *)
(*                                                                         *)
(* The second half shows, from the same invariant and one about counters,  *)
(* what an ack that ends the wait of the leaf means.                       *)
(***************************************************************************)
EXTENDS StateDelivery, TLAPS

Sinks == {"MQTT", "API"}

Assemblies ==
  [active : BOOLEAN, base : Nat, count : Nat, parts : SUBSET (Nat \X Nat), flag : BOOLEAN]

Tables == [asm : [Entities -> {NoEntry} \cup Assemblies], reserved : Nat]

StateBody == [entity : Entities, index : Nat, count : Nat, msg : Nat]

UpFrames ==
  [kind : {"HEARTBEAT"}, key : Nat, tx : Int, body : {Nothing}] \cup
  [kind : {"STATE"}, key : Nat, tx : Int, body : StateBody]

Receipts == [entity : Entities, value : Nat, base : Nat, key : Nat]

LinkTyped ==
  /\ hits \in [sc : DOMAIN Scenarios, loss : Nat, dup : Nat, forgot : BOOLEAN]
  /\ bKey \in Nat /\ rKey \in Nat /\ keys \in Nat /\ rTx \in Int
  /\ up \in Seq(UpFrames)

LeafTyped ==
  /\ rVal \in [Entities -> 1 .. MaxValue] /\ rDirty \subseteq Entities
  /\ rPend \in [on : BOOLEAN, entity : Entities \cup {0}, value : Nat, base : Int, retry : Nat]
  /\ rPend.on => rPend.entity \in Entities

BridgeTyped ==
  /\ bTable \in Tables
  /\ shown \in [Entities -> Nat]
  /\ mqtt \in [Entities -> [value : Nat, dirty : BOOLEAN, ack : Nat]]
  /\ apiQ \in Seq(Receipts)
  /\ sinks \subseteq Sinks /\ ("API" \notin sinks => apiQ = << >>)
  /\ seen \in [Sinks -> [Entities -> Nat]]

Typed == LinkTyped /\ LeafTyped /\ BridgeTyped

\* The values of e in its unfinished assembly.
HeldIn(t, e) == IF t.asm[e] = NoEntry THEN {} ELSE Assembled(t.asm[e])

StateOf(frame, e) == frame.kind = "STATE" /\ frame.body.entity = e

\* No view has a newer value of e than v.
Behind(e, v) == shown[e] <= v /\ \A s \in Sinks : seen[s][e] <= v

ViewsInOrder(e) ==
  /\ Behind(e, rVal[e])
  /\ shown[e] # 0 => \A s \in Sinks : seen[s][e] <= shown[e]
  /\ mqtt[e].value = shown[e]
  /\ mqtt[e].dirty => shown[e] # 0

ApiInOrder(e) ==
  \A i \in 1 .. Len(apiQ) : apiQ[i].entity = e =>
    /\ seen["API"][e] <= apiQ[i].value /\ apiQ[i].value <= shown[e]
    /\ \A j \in 1 .. i : apiQ[j].entity = e => apiQ[j].value <= apiQ[i].value

HeldInOrder(e) ==
  \A v \in HeldIn(bTable, e) : v \in 1 .. rVal[e] /\ Behind(e, v)

FramesInOrder(e) ==
  \A i \in 1 .. Len(up) : StateOf(up[i], e) =>
    /\ up[i].body.msg \in 1 .. rVal[e] /\ Behind(e, up[i].body.msg)
    /\ \A v \in HeldIn(bTable, e) : v <= up[i].body.msg
    /\ \A j \in 1 .. i : StateOf(up[j], e) => up[j].body.msg <= up[i].body.msg

\* Nothing of e between the leaf and the views is newer than v.
Newest(e, v) ==
  /\ v \in 1 .. rVal[e] /\ Behind(e, v)
  /\ \A w \in HeldIn(bTable, e) : w <= v
  /\ \A i \in 1 .. Len(up) : StateOf(up[i], e) => up[i].body.msg <= v

PushInOrder(e) == rPend.on /\ rPend.entity = e => Newest(e, rPend.value)

InOrder(e) ==
  /\ ViewsInOrder(e) /\ ApiInOrder(e) /\ HeldInOrder(e) /\ FramesInOrder(e) /\ PushInOrder(e)

\* The inductive invariant.
MirrorInv == Typed /\ sc.dup = 0 /\ \A e \in Entities : InOrder(e)

-----------------------------------------------------------------------------
(* Sequences, and one fragment against the bridge's table.                  *)

\* The tail of a sequence, element by element.
LEMMA TailElements ==
  ASSUME NEW S, NEW q \in Seq(S), q # << >>
  PROVE  /\ Tail(q) \in Seq(S) /\ Len(Tail(q)) = Len(q) - 1 /\ Len(q) >= 1
         /\ \A i \in 1 .. Len(q) - 1 : Tail(q)[i] = q[i + 1]
         /\ Head(q) = q[1] /\ q[1] \in S
OBVIOUS

\* A sequence with one more element, element by element.
LEMMA AppendElements ==
  ASSUME NEW S, NEW q \in Seq(S), NEW x \in S
  PROVE  /\ Append(q, x) \in Seq(S) /\ Len(Append(q, x)) = Len(q) + 1
         /\ \A i \in 1 .. Len(q) : Append(q, x)[i] = q[i]
         /\ Append(q, x)[Len(q) + 1] = x
OBVIOUS

\* Two sequences written one behind the other, element by element.
LEMMA ConcatElements ==
  ASSUME NEW S, NEW p \in Seq(S), NEW q \in Seq(S)
  PROVE  /\ p \o q \in Seq(S)
         /\ Len(p \o q) = Len(p) + Len(q)
         /\ \A i \in 1 .. Len(p) + Len(q) : (p \o q)[i] = IF i <= Len(p) THEN p[i] ELSE q[i - Len(p)]
OBVIOUS

\* The sizes of the assembly table are unsigned.
LEMMA SizesWrap ==
  ASSUME NEW n \in Int
  PROVE  n % SizeSpan \in Nat
  BY AssemblyAssumption

\* A fragment as StateFragment hands it to Receive.
FragmentType == [entity : Entities, index : Nat, count : Nat, base : Nat, flag : {FALSE}, msg : Nat]

\* The entry of a fragment's entity once it is admitted.
LEMMA AdmitEffect ==
  ASSUME NEW t \in Tables, NEW f \in FragmentType
  PROVE  /\ Admit(t, f) \in Tables
         /\ \A e \in Entities \ {f.entity} : Admit(t, f).asm[e] = t.asm[e]
         /\ Admit(t, f).asm[f.entity] \in Assemblies
         /\ \/ Admit(t, f).asm[f.entity] = Inactive
            \/ t.asm[f.entity] # NoEntry /\ Admit(t, f).asm[f.entity] = t.asm[f.entity]
<1>1. Inactive \in Assemblies
  BY Zenon DEF Inactive, Assemblies
<1>2. f.entity \in Entities /\ t.asm[f.entity] \in {NoEntry} \cup Assemblies /\ t.reserved \in Nat /\ f.count \in Nat
  BY Zenon DEF Tables, FragmentType
<1>3. (t.reserved + f.count) % SizeSpan \in Nat
  BY <1>2, SizesWrap
<1>4. CASE t.asm[f.entity] = NoEntry
  <2>1. Admit(t, f) = [asm |-> [t.asm EXCEPT ![f.entity] = Inactive],
                       reserved |-> (t.reserved + f.count) % SizeSpan]
    BY <1>4, Zenon DEF Admit
  <2> QED
    BY <2>1, <1>1, <1>2, <1>3 DEF Tables
<1>5. CASE t.asm[f.entity] # NoEntry /\ Admit(t, f) = [t EXCEPT !.asm[f.entity] = Inactive]
  BY <1>5, <1>1, <1>2 DEF Tables
<1>6. CASE t.asm[f.entity] # NoEntry /\ Admit(t, f) = t
  BY Zenon, <1>6, <1>2
<1> QED
  BY <1>4, <1>5, <1>6, Zenon DEF Admit

\* An assembly at the bridge that takes a fragment.
LEMMA StoreEffect ==
  ASSUME NEW a \in Assemblies, NEW f \in FragmentType
  PROVE  /\ BridgeStore(a, f) \in Assemblies
         /\ Assembled(BridgeStore(a, f)) \subseteq Assembled(a) \cup {f.msg}
<1> DEFINE b == IF a.active THEN a
                ELSE [active |-> TRUE, base |-> f.base, count |-> f.count, parts |-> {}, flag |-> f.flag]
           c == IF f.index = f.count - 1 THEN [b EXCEPT !.flag = f.flag] ELSE b
<1>1. b \in Assemblies /\ b.parts \subseteq a.parts
  BY Zenon DEF Assemblies, FragmentType
<1> HIDE DEF b
<1>2. c \in Assemblies /\ c.parts \subseteq a.parts
  BY <1>1, Zenon DEF Assemblies, FragmentType
<1>3. BridgeStore(a, f) = IF f.index \in Indices(c) THEN c ELSE [c EXCEPT !.parts = @ \cup {<<f.index, f.msg>>}]
  BY Zenon DEF BridgeStore, b
<1> HIDE DEF c
<1>4. c.parts \in SUBSET (Nat \X Nat) /\ <<f.index, f.msg>> \in Nat \X Nat
  BY <1>2, Zenon DEF Assemblies, FragmentType
<1>5. c.parts \cup {<<f.index, f.msg>>} \in SUBSET (Nat \X Nat)
  BY Zenon, <1>4
<1>6. /\ BridgeStore(a, f) \in Assemblies
      /\ BridgeStore(a, f).parts \subseteq c.parts \cup {<<f.index, f.msg>>}
  BY <1>2, <1>3, <1>5, ZenonT(30) DEF Assemblies
<1>7. \A p \in BridgeStore(a, f).parts : p \in a.parts \/ p[2] = f.msg
  BY <1>2, <1>6
<1> QED
  BY <1>6, <1>7, Zenon DEF Assembled

\* An entry that is released.
LEMMA ReleaseEffect ==
  ASSUME NEW t \in Tables, NEW e \in Entities, t.asm[e] \in Assemblies
  PROVE  /\ Release(t, e) \in Tables /\ Release(t, e).asm[e] = NoEntry
         /\ \A d \in Entities \ {e} : Release(t, e).asm[d] = t.asm[d]
<1>1. t.asm \in [Entities -> {NoEntry} \cup Assemblies] /\ t.reserved \in Nat /\ t.asm[e].count \in Nat
  BY Zenon DEF Tables, Assemblies
<1>2. (t.reserved - t.asm[e].count) % SizeSpan \in Nat
  BY <1>1, SizesWrap
<1>3. Release(t, e).asm = [t.asm EXCEPT ![e] = NoEntry] /\ Release(t, e) \in Tables
  BY <1>1, <1>2, Zenon DEF Release, Tables
<1> QED
  BY Zenon, <1>1, <1>3

\* A fragment leaves the entries of the other entities as they are.
LEMMA ReceiveOthers ==
  ASSUME NEW t \in Tables, NEW f \in FragmentType, NEW e \in Entities, e # f.entity
  PROVE  Receive(t, f, TRUE).table.asm[e] = t.asm[e]
<1> DEFINE u == Admit(t, f)
           s == BridgeStore(u.asm[f.entity], f)
           w == [u EXCEPT !.asm[f.entity] = s]
           r == Receive(t, f, TRUE)
<1>1. u \in Tables /\ u.asm[e] = t.asm[e] /\ u.asm[f.entity] \in Assemblies /\ f.entity \in Entities
  BY AdmitEffect, ZenonT(60) DEF FragmentType
<1>2. s \in Assemblies
  <2> HIDE DEF u
  <2> QED
    BY Zenon, <1>1, StoreEffect
<1> HIDE DEF u, s
<1>3. w \in Tables /\ w.asm[e] = t.asm[e] /\ w.asm[f.entity] \in Assemblies
  BY <1>1, <1>2, Zenon DEF Tables
<1> HIDE DEF w
<1>4. Release(w, f.entity).asm[e] = t.asm[e]
  BY <1>1, <1>3, ReleaseEffect
<1>5. r.table \in {t, u, w, Release(w, f.entity)}
  BY Zenon DEF Receive, u, s, w
<1> HIDE DEF r
<1>6. r.table.asm[e] = t.asm[e]
  BY Zenon, <1>1, <1>3, <1>4, <1>5
<1> QED
  BY <1>6, Zenon DEF r

\* The entry of a fragment's entity holds nothing but what it held and the
\* fragment's value, and neither does a payload the fragment completes.
LEMMA ReceiveEffect ==
  ASSUME NEW t \in Tables, NEW f \in FragmentType, NEW r, r = Receive(t, f, TRUE)
  PROVE  /\ r.table \in Tables
         /\ r.done \in BOOLEAN
         /\ HeldIn(r.table, f.entity) \subseteq HeldIn(t, f.entity) \cup {f.msg}
         /\ r.done => /\ HeldIn(r.table, f.entity) = {}
                      /\ r.whole \subseteq HeldIn(t, f.entity) \cup {f.msg}
<1> DEFINE u == Admit(t, f)
           a == u.asm[f.entity]
           s == BridgeStore(a, f)
           w == [u EXCEPT !.asm[f.entity] = s]
<1>1. /\ u \in Tables /\ \A e \in Entities \ {f.entity} : u.asm[e] = t.asm[e]
      /\ a \in Assemblies /\ f.entity \in Entities
      /\ a = Inactive \/ (t.asm[f.entity] # NoEntry /\ a = t.asm[f.entity])
  <2>1. f.entity \in Entities
    BY Zenon DEF FragmentType
  <2> QED
    BY Zenon, <2>1, AdmitEffect
<1>2. Assembled(a) \subseteq HeldIn(t, f.entity)
  <2>1. Assembled(Inactive) = {}
    BY Zenon DEF Assembled, Inactive
  <2> HIDE DEF a
  <2> QED
    BY <1>1, <2>1, Zenon DEF HeldIn
<1>3. s \in Assemblies /\ Assembled(s) \subseteq HeldIn(t, f.entity) \cup {f.msg}
  <2> HIDE DEF a
  <2> QED
    BY Zenon, <1>1, <1>2, StoreEffect
<1>4. w \in Tables /\ w.asm[f.entity] = s /\ \A e \in Entities \ {f.entity} : w.asm[e] = t.asm[e]
  BY <1>1, <1>3, Zenon DEF Tables
<1>5. CASE r.table = t /\ r.done = FALSE
  BY Zenon, <1>5
<1>6. CASE r.table = u /\ r.done = FALSE
  <2>1. HeldIn(u, f.entity) \subseteq HeldIn(t, f.entity)
    <3>1. u.asm[f.entity] = NoEntry \/ HeldIn(u, f.entity) = Assembled(a)
      BY Zenon DEF HeldIn
    <3> QED
      BY <3>1, <1>2, Zenon DEF HeldIn
  <2> HIDE DEF u
  <2> QED
    BY ZenonT(30), <1>1, <1>6, <2>1
<1> HIDE DEF w
<1>7. CASE r.table = w /\ r.done = FALSE
  <2>1. HeldIn(w, f.entity) \subseteq Assembled(s)
    BY <1>4, Zenon DEF HeldIn
  <2> HIDE DEF s
  <2> QED
    BY ZenonT(30), <1>3, <1>4, <1>7, <2>1
<1>8. CASE r.table = Release(w, f.entity) /\ r.done = TRUE /\ r.whole = Assembled(s)
  <2> HIDE DEF s
  <2>1. w.asm[f.entity] \in Assemblies
    BY Zenon, <1>3, <1>4
  <2>2. /\ r.table \in Tables /\ r.table.asm[f.entity] = NoEntry
        /\ \A e \in Entities \ {f.entity} : r.table.asm[e] = w.asm[e]
    <3>1. /\ Release(w, f.entity) \in Tables /\ Release(w, f.entity).asm[f.entity] = NoEntry
          /\ \A e \in Entities \ {f.entity} : Release(w, f.entity).asm[e] = w.asm[e]
      BY ZenonT(30), <2>1, <1>1, <1>4, ReleaseEffect
    <3> QED
      BY Zenon, <3>1, <1>8
  <2>3. HeldIn(r.table, f.entity) = {}
    BY <2>2, Zenon DEF HeldIn
  <2> QED
    BY ZenonT(30), <2>2, <2>3, <1>3, <1>4, <1>8
<1> QED
  BY <1>5, <1>6, <1>7, <1>8, Zenon DEF Receive, w

-----------------------------------------------------------------------------
(* How a step moves the values of one entity.                               *)

\* The STATE frames of e in flight are those from before, in their places or
\* one further.
FramesKept(e) ==
  \E d \in {0, 1} : \A i \in 1 .. Len(up') :
    StateOf(up'[i], e) => i + d \in 1 .. Len(up) /\ up'[i] = up[i + d]

PushKept(e) == rPend'.on /\ rPend'.entity = e => rPend' = rPend

ApiKept(e) ==
  \/ apiQ' = << >>
  \/ /\ apiQ' = apiQ
     /\ seen'["API"][e] = seen["API"][e]
  \/ /\ \E x \in Receipts : x.entity # e /\ apiQ' = Append(apiQ, x)
     /\ seen'["API"][e] = seen["API"][e]
  \/ /\ apiQ # << >> /\ apiQ' = Tail(apiQ)
     /\ seen'["API"][e] = IF apiQ[1].entity = e THEN apiQ[1].value ELSE seen["API"][e]

\* A step that adds no value of e to those under way: views catch up with the
\* bridge, and values get lost.
NothingNew(e) ==
  /\ rVal[e] <= rVal'[e]
  /\ shown'[e] = shown[e] \/ (shown'[e] = 0 /\ apiQ' = << >>)
  /\ \A s \in Sinks : seen'[s][e] <= seen[s][e] \/ seen'[s][e] <= shown[e]
  /\ mqtt'[e].value = shown'[e]
  /\ mqtt'[e].dirty => shown'[e] # 0
  /\ HeldIn(bTable', e) \subseteq HeldIn(bTable, e)
  /\ FramesKept(e) /\ PushKept(e) /\ ApiKept(e)

\* The types of what InOrder compares.
LEMMA TypesOf ==
  ASSUME Typed, NEW e \in Entities
  PROVE  /\ rVal[e] \in Nat /\ shown[e] \in Nat /\ \A s \in Sinks : seen[s][e] \in Nat
         /\ Len(up) \in Nat /\ Len(apiQ) \in Nat
         /\ \A i \in 1 .. Len(up) : up[i] \in UpFrames
         /\ \A i \in 1 .. Len(up) : StateOf(up[i], e) => up[i].body.msg \in Nat
         /\ \A i \in 1 .. Len(apiQ) : apiQ[i] \in Receipts /\ apiQ[i].value \in Nat
         /\ HeldIn(bTable, e) \subseteq Nat
<1>1. rVal[e] \in Nat /\ shown[e] \in Nat /\ \A s \in Sinks : seen[s][e] \in Nat
  <2>1. /\ rVal \in [Entities -> 1 .. MaxValue] /\ MaxValue \in Nat
        /\ shown \in [Entities -> Nat] /\ seen \in [Sinks -> [Entities -> Nat]]
    BY StateAssumption, Zenon DEF Typed, LeafTyped, BridgeTyped
  <2>2. rVal[e] \in Nat
    BY <2>1
  <2> QED
    BY Zenon, <2>1, <2>2
<1>2. Len(up) \in Nat /\ \A i \in 1 .. Len(up) : up[i] \in UpFrames
  BY DEF Typed, LinkTyped
<1>3. Len(apiQ) \in Nat /\ \A i \in 1 .. Len(apiQ) : apiQ[i] \in Receipts
  BY DEF Typed, BridgeTyped
<1>4. \A i \in 1 .. Len(apiQ) : apiQ[i].value \in Nat
  BY <1>3, Zenon DEF Receipts
<1>5. \A i \in 1 .. Len(up) : StateOf(up[i], e) => up[i].body.msg \in Nat
  BY <1>2, Zenon DEF UpFrames, StateBody, StateOf
<1>6. HeldIn(bTable, e) \subseteq Nat
  <2>1. bTable.asm[e] \in {NoEntry} \cup Assemblies
    BY Zenon DEF Typed, BridgeTyped, Tables
  <2>2. CASE bTable.asm[e] = NoEntry
    BY <2>2, Zenon DEF HeldIn
  <2>3. CASE bTable.asm[e] \in Assemblies
    <3>1. bTable.asm[e].parts \subseteq Nat \X Nat
      BY <2>3, Zenon DEF Assemblies
    <3>2. \A p \in bTable.asm[e].parts : p[2] \in Nat
      BY Zenon, <3>1
    <3> QED
      BY <3>2, Zenon DEF HeldIn, Assembled
  <2> QED
    BY Zenon, <2>1, <2>2, <2>3
<1> QED
  BY ZenonT(30), <1>1, <1>2, <1>3, <1>4, <1>5, <1>6

\* Such a step keeps the order.
LEMMA NothingNewKeeps ==
  ASSUME Typed, Typed', NEW e \in Entities, InOrder(e), NothingNew(e)
  PROVE  InOrder(e)'
<1>1. /\ rVal[e] \in Nat /\ shown[e] \in Nat /\ \A s \in Sinks : seen[s][e] \in Nat
      /\ Len(up) \in Nat /\ Len(apiQ) \in Nat
      /\ \A i \in 1 .. Len(up) : StateOf(up[i], e) => up[i].body.msg \in Nat
      /\ \A i \in 1 .. Len(apiQ) : apiQ[i].value \in Nat
      /\ HeldIn(bTable, e) \subseteq Nat
  BY Zenon, TypesOf
<1>2. /\ rVal'[e] \in Nat /\ shown'[e] \in Nat /\ \A s \in Sinks : seen'[s][e] \in Nat
      /\ Len(up') \in Nat /\ Len(apiQ') \in Nat
  <2>1. /\ rVal' \in [Entities -> 1 .. MaxValue] /\ MaxValue \in Nat
        /\ shown' \in [Entities -> Nat] /\ seen' \in [Sinks -> [Entities -> Nat]]
        /\ up' \in Seq(UpFrames) /\ apiQ' \in Seq(Receipts)
    BY StateAssumption, Zenon DEF Typed, LinkTyped, LeafTyped, BridgeTyped
  <2>2. rVal'[e] \in Nat
    BY <2>1
  <2>3. Len(up') \in Nat /\ Len(apiQ') \in Nat
    BY <2>1
  <2> QED
    BY Zenon, <2>1, <2>2, <2>3
<1>3. ASSUME NEW v \in Nat, Behind(e, v) PROVE Behind(e, v)'
  <2>1. shown'[e] <= v
    BY <1>1, <1>2, <1>3, SMTT(30) DEF NothingNew, Behind
  <2>2. ASSUME NEW s \in Sinks PROVE seen'[s][e] <= v
    <3>1. seen[s][e] <= v /\ shown[e] <= v
      BY <1>3, Zenon DEF Behind
    <3>2. seen'[s][e] <= seen[s][e] \/ seen'[s][e] <= shown[e]
      BY Zenon DEF NothingNew
    <3> QED
      BY SMTT(30), <3>1, <3>2, <1>1, <1>2
  <2> QED
    BY <2>1, <2>2, Zenon DEF Behind
<1>4. ViewsInOrder(e)'
  <2>1. Behind(e, rVal'[e])
    BY <1>1, <1>2, SMTT(30) DEF InOrder, ViewsInOrder, Behind, NothingNew
  <2>2. Behind(e, rVal[e])'
    BY <1>1, <1>2, <2>1, SMTT(30) DEF NothingNew, Behind
  <2>3. shown'[e] # 0 => \A s \in Sinks : seen'[s][e] <= shown'[e]
    BY <1>1, <1>2, SMTT(30) DEF InOrder, ViewsInOrder, NothingNew
  <2>4. mqtt'[e].value = shown'[e] /\ (mqtt'[e].dirty => shown'[e] # 0)
    BY Zenon DEF NothingNew
  <2> QED
    BY <2>2, <2>3, <2>4, Zenon DEF ViewsInOrder
<1>5. ApiInOrder(e)'
  <2>0. "API" \in Sinks
    BY Zenon DEF Sinks
  <2>1. CASE apiQ' = << >>
    BY <2>1 DEF ApiInOrder
  <2>2. CASE apiQ' # << >> /\ apiQ' = apiQ /\ seen'["API"][e] = seen["API"][e]
    BY <2>2, Zenon DEF ApiInOrder, InOrder, NothingNew
  <2>3. CASE /\ apiQ' # << >> /\ apiQ # << >> /\ apiQ' = Tail(apiQ)
             /\ seen'["API"][e] = IF apiQ[1].entity = e THEN apiQ[1].value ELSE seen["API"][e]
    <3>1. Len(apiQ') = Len(apiQ) - 1 /\ \A i \in 1 .. Len(apiQ') : apiQ'[i] = apiQ[i + 1]
      <4>1. apiQ \in Seq(Receipts)
        BY Zenon DEF Typed, BridgeTyped
      <4> QED
        BY ZenonT(30), <4>1, <2>3, TailElements
    <3>2. shown'[e] = shown[e]
      BY <2>3, Zenon DEF NothingNew
    <3> SUFFICES ASSUME NEW i \in 1 .. Len(apiQ'), apiQ'[i].entity = e
                 PROVE  /\ seen'["API"][e] <= apiQ'[i].value /\ apiQ'[i].value <= shown'[e]
                        /\ \A j \in 1 .. i : apiQ'[j].entity = e => apiQ'[j].value <= apiQ'[i].value
      BY Zenon DEF ApiInOrder
    <3>3. i + 1 \in 1 .. Len(apiQ) /\ 1 \in 1 .. i + 1 /\ apiQ'[i] = apiQ[i + 1]
      <4>1. i \in Nat /\ i >= 1 /\ i <= Len(apiQ) - 1
        BY <3>1, <1>1
      <4> QED
        BY SMTT(30), <4>1, <3>1, <1>1
    <3>4. /\ seen["API"][e] <= apiQ[i + 1].value /\ apiQ[i + 1].value <= shown[e]
          /\ \A j \in 1 .. i + 1 : apiQ[j].entity = e => apiQ[j].value <= apiQ[i + 1].value
      BY <3>3, Zenon DEF ApiInOrder, InOrder
    <3>5. seen'["API"][e] <= apiQ[i + 1].value
      BY Zenon, <3>3, <3>4, <2>3
    <3>6. ASSUME NEW j \in 1 .. i PROVE j + 1 \in 1 .. i + 1 /\ apiQ'[j] = apiQ[j + 1]
      <4>1. j \in 1 .. Len(apiQ') /\ j + 1 \in 1 .. i + 1
        BY <1>2
      <4> QED
        BY Zenon, <4>1, <3>1
    <3> QED
      BY ZenonT(30), <3>2, <3>3, <3>4, <3>5, <3>6
  <2>4. ASSUME apiQ' # << >>, NEW x \in Receipts, x.entity # e, apiQ' = Append(apiQ, x),
               seen'["API"][e] = seen["API"][e]
        PROVE  ApiInOrder(e)'
    <3>1. /\ Len(apiQ') = Len(apiQ) + 1 /\ apiQ'[Len(apiQ) + 1] = x
          /\ \A i \in 1 .. Len(apiQ) : apiQ'[i] = apiQ[i]
      <4>1. apiQ \in Seq(Receipts)
        BY Zenon DEF Typed, BridgeTyped
      <4> QED
        BY <4>1, <2>4, AppendElements
    <3>2. shown'[e] = shown[e]
      BY <2>4, Zenon DEF NothingNew
    <3> SUFFICES ASSUME NEW i \in 1 .. Len(apiQ'), apiQ'[i].entity = e
                 PROVE  /\ seen'["API"][e] <= apiQ'[i].value /\ apiQ'[i].value <= shown'[e]
                        /\ \A j \in 1 .. i : apiQ'[j].entity = e => apiQ'[j].value <= apiQ'[i].value
      BY Zenon DEF ApiInOrder
    <3>3. i # Len(apiQ) + 1
      BY Zenon, <3>1, <2>4
    <3>4. i \in 1 .. Len(apiQ) /\ \A j \in 1 .. i : j \in 1 .. Len(apiQ)
      BY <3>1, <3>3, <1>1
    <3>5. apiQ'[i] = apiQ[i] /\ \A j \in 1 .. i : apiQ'[j] = apiQ[j]
      BY ZenonT(30), <3>1, <3>4
    <3> QED
      BY <3>2, <3>4, <3>5, <2>4, ZenonT(30) DEF ApiInOrder, InOrder
  <2> QED
    BY <2>1, <2>2, <2>3, <2>4, Zenon DEF NothingNew, ApiKept
<1>6. HeldInOrder(e)'
  <2> SUFFICES ASSUME NEW v \in HeldIn(bTable', e)
               PROVE  v \in 1 .. rVal'[e] /\ Behind(e, v)'
    BY Zenon DEF HeldInOrder
  <2>1. v \in HeldIn(bTable, e)
    BY Zenon DEF NothingNew
  <2>2. v \in 1 .. rVal[e] /\ Behind(e, v)
    BY <2>1, Zenon DEF InOrder, HeldInOrder
  <2>3. v \in Nat
    BY Zenon, <2>1, <1>1
  <2> QED
    BY <1>1, <1>2, <1>3, <2>2, <2>3 DEF NothingNew
<1>7. PICK d \in {0, 1} : \A i \in 1 .. Len(up') :
        StateOf(up'[i], e) => i + d \in 1 .. Len(up) /\ up'[i] = up[i + d]
  BY Zenon DEF NothingNew, FramesKept
<1>8. FramesInOrder(e)'
  <2> SUFFICES ASSUME NEW i \in 1 .. Len(up'), StateOf(up'[i], e)
               PROVE  /\ up'[i].body.msg \in 1 .. rVal'[e] /\ Behind(e, up[i].body.msg)'
                      /\ \A v \in HeldIn(bTable', e) : v <= up'[i].body.msg
                      /\ \A j \in 1 .. i : StateOf(up'[j], e) => up'[j].body.msg <= up'[i].body.msg
    BY Zenon DEF FramesInOrder, StateOf
  <2>1. i + d \in 1 .. Len(up) /\ up'[i] = up[i + d] /\ StateOf(up[i + d], e)
    BY Zenon, <1>7
  <2>2. /\ up[i + d].body.msg \in 1 .. rVal[e] /\ Behind(e, up[i + d].body.msg)
        /\ \A v \in HeldIn(bTable, e) : v <= up[i + d].body.msg
        /\ \A j \in 1 .. i + d : StateOf(up[j], e) => up[j].body.msg <= up[i + d].body.msg
    BY <2>1, Zenon DEF InOrder, FramesInOrder
  <2>3. PICK m \in Nat : m = up[i + d].body.msg
    BY Zenon, <2>1, <1>1
  <2>4. Behind(e, m)'
    BY ZenonT(30), <2>2, <2>3, <1>3
  <2>5. Behind(e, up[i].body.msg)'
    BY <2>4, <2>3, <2>1, ZenonT(30) DEF Behind
  <2>6. up'[i].body.msg \in 1 .. rVal'[e]
    BY <2>1, <2>2, <1>1, <1>2, SMTT(30) DEF NothingNew
  <2>7. \A v \in HeldIn(bTable', e) : v <= up'[i].body.msg
    BY <2>1, <2>2, Zenon DEF NothingNew
  <2>8. ASSUME NEW j \in 1 .. i, StateOf(up'[j], e) PROVE up'[j].body.msg <= up'[i].body.msg
    <3>1. j \in 1 .. Len(up')
      BY <1>2
    <3>2. up'[j] = up[j + d] /\ StateOf(up[j + d], e)
      BY ZenonT(30), <3>1, <2>8, <1>7
    <3>3. j + d \in 1 .. i + d
      BY <1>2
    <3> QED
      BY ZenonT(30), <3>2, <3>3, <2>1, <2>2
  <2> QED
    BY ZenonT(30), <2>5, <2>6, <2>7, <2>8
<1>9. PushInOrder(e)'
  <2> SUFFICES ASSUME rPend'.on, rPend'.entity = e PROVE Newest(e, rPend.value)'
    BY Zenon DEF PushInOrder
  <2>1. rPend' = rPend
    BY Zenon DEF NothingNew, PushKept
  <2>2. Newest(e, rPend.value)
    BY <2>1, Zenon DEF InOrder, PushInOrder
  <2>3. rPend.value \in Nat
    BY <1>1, <2>2 DEF Newest
  <2>4. Behind(e, rPend.value)'
    <3>1. PICK m \in Nat : m = rPend.value
      BY Zenon, <2>3
    <3>2. Behind(e, m)'
      BY <2>2, <3>1, <1>3, ZenonT(30) DEF Newest
    <3> QED
      BY <3>1, <3>2, <2>1, ZenonT(30) DEF Behind
  <2>5. rPend.value \in 1 .. rVal'[e]
    BY <1>1, <1>2, <2>2, SMTT(30) DEF Newest, NothingNew
  <2>6. \A w \in HeldIn(bTable', e) : w <= rPend.value
    BY <2>2, Zenon DEF Newest, NothingNew
  <2>7. \A i \in 1 .. Len(up') : StateOf(up'[i], e) => up'[i].body.msg <= rPend.value
    BY <2>2, <1>7, ZenonT(30) DEF Newest
  <2> QED
    BY <2>1, <2>4, <2>5, <2>6, <2>7, ZenonT(30) DEF Newest, StateOf
<1> QED
  BY <1>4, <1>5, <1>6, <1>8, <1>9, ZenonT(30) DEF InOrder

-----------------------------------------------------------------------------
(* A push of the leaf.                                                      *)

\* The frames of one value behind the ones that are in flight, and the push the
\* leaf waits for.
Pushed(e, v) ==
  /\ Len(up) <= Len(up')
  /\ \A i \in 1 .. Len(up) : up'[i] = up[i]
  /\ \A i \in Len(up) + 1 .. Len(up') :
       up'[i].kind = "STATE" /\ up'[i].body.entity = e /\ up'[i].body.msg = v
  /\ rPend'.on => rPend'.entity = e /\ rPend'.value = v

\* The frames of the value are numbered from the leaf's counter on, which moves past them.
Numbered ==
  /\ \A i \in Len(up) + 1 .. Len(up') : up'[i].tx - up'[i].body.index = rTx
  /\ rPend'.on => rPend'.base = rTx
  /\ Len(up) <= sc.cap => Len(up') <= sc.cap /\ rTx < rTx'

\* PushState sends nothing but frames of the value.
LEMMA PushEffect ==
  ASSUME Typed, NEW e \in Entities, NEW v \in 1 .. MaxValue, NEW n \in Nat, PushState(e, v, n)
  PROVE  /\ Pushed(e, v) /\ Numbered
         /\ up' \in Seq(UpFrames) /\ rTx' \in Int
         /\ hits' \in [sc : DOMAIN Scenarios, loss : Nat, dup : Nat, forgot : BOOLEAN] /\ hits'.sc = hits.sc
         /\ rPend' \in [on : BOOLEAN, entity : Entities \cup {0}, value : Nat, base : Int, retry : Nat]
         /\ rPend'.on => rPend'.entity \in Entities
         /\ rDirty' \subseteq Entities /\ rDirty' \subseteq rDirty \cup {e}
<1> DEFINE k == StateFrags[e][v]
           q == StateFrames(e, v)
           room == sc.cap - Len(up)
<1>1. k \in Nat /\ k >= 1 /\ v \in Nat
  BY StateAssumption, AssemblyAssumption
<1>2. /\ up \in Seq(UpFrames) /\ Len(up) \in Nat /\ rTx \in Int /\ rKey \in Nat
      /\ hits \in [sc : DOMAIN Scenarios, loss : Nat, dup : Nat, forgot : BOOLEAN]
      /\ rDirty \subseteq Entities
  BY SMTT(30) DEF Typed, LinkTyped, LeafTyped
<1>3. sc.cap \in Nat
  BY <1>2, PairAssumption, Zenon DEF sc, PairScenario
<1>4. /\ q \in Seq(UpFrames) /\ Len(q) = k
      /\ \A i \in 1 .. k : /\ q[i].kind = "STATE" /\ q[i].body.entity = e /\ q[i].body.msg = v
                          /\ q[i].tx - q[i].body.index = rTx
  <2>1. q = [i \in 1 .. k |-> [kind |-> "STATE", key |-> rKey, tx |-> rTx + i - 1,
               body |-> [entity |-> e, index |-> i - 1, count |-> k, msg |-> v]]]
    BY Zenon DEF StateFrames, Frame
  <2>2. ASSUME NEW i \in 1 .. k
        PROVE  [kind |-> "STATE", key |-> rKey, tx |-> rTx + i - 1,
                body |-> [entity |-> e, index |-> i - 1, count |-> k, msg |-> v]] \in UpFrames
    <3>1. rTx + i - 1 \in Int /\ i - 1 \in Nat
      BY <1>1, <1>2
    <3> HIDE DEF k
    <3> QED
      BY <3>1, <1>1, <1>2, Zenon DEF UpFrames, StateBody
  <2> HIDE DEF k, q
  <2>3. q \in [1 .. k -> UpFrames]
    BY Zenon, <2>1, <2>2
  <2>4. q \in Seq(UpFrames) /\ Len(q) = k
    BY <2>3, <1>1
  <2>5. \A i \in 1 .. k : /\ q[i].kind = "STATE" /\ q[i].body.entity = e /\ q[i].body.msg = v
                         /\ q[i].tx = rTx + i - 1 /\ q[i].body.index = i - 1
    BY ZenonT(30), <2>1
  <2>6. \A i \in 1 .. k : q[i].tx - q[i].body.index = rTx
    BY <2>5, <1>1, <1>2
  <2> QED
    BY ZenonT(30), <2>4, <2>5, <2>6
<1>5. ASSUME NEW m \in Nat, m <= k, NEW p, p = SubSeq(q, 1, m), up' = up \o p
      PROVE  /\ up' \in Seq(UpFrames) /\ Len(up') = Len(up) + m
             /\ \A i \in 1 .. Len(up) : up'[i] = up[i]
             /\ \A i \in Len(up) + 1 .. Len(up') :
                  /\ up'[i].kind = "STATE" /\ up'[i].body.entity = e /\ up'[i].body.msg = v
                  /\ up'[i].tx - up'[i].body.index = rTx
  <2> HIDE DEF k, q
  <2>1. p \in Seq(UpFrames) /\ Len(p) = m /\ \A i \in 1 .. m : p[i] = q[i]
    BY SMTT(30), <1>1, <1>4, <1>5
  <2>2. /\ up' \in Seq(UpFrames) /\ Len(up') = Len(up) + m
        /\ \A i \in 1 .. Len(up) + m : up'[i] = IF i <= Len(up) THEN up[i] ELSE p[i - Len(up)]
    BY ZenonT(30), <2>1, <1>2, <1>5, ConcatElements
  <2>3. \A i \in 1 .. Len(up) : up'[i] = up[i]
    BY <2>2, <1>2
  <2>4. ASSUME NEW i \in Len(up) + 1 .. Len(up')
        PROVE  /\ up'[i].kind = "STATE" /\ up'[i].body.entity = e /\ up'[i].body.msg = v
               /\ up'[i].tx - up'[i].body.index = rTx
    <3>1. i - Len(up) \in 1 .. m /\ i \in 1 .. Len(up) + m /\ ~(i <= Len(up)) /\ i - Len(up) \in 1 .. k
      BY SMTT(30), <2>2, <1>2, <1>5, <1>1
    <3>2. up'[i] = q[i - Len(up)]
      BY ZenonT(30), <3>1, <2>1, <2>2
    <3> QED
      BY ZenonT(30), <3>1, <3>2, <1>4
  <2> QED
    BY Zenon, <2>2, <2>3, <2>4
<1>6. CASE /\ k <= room /\ up' = up \o q /\ rTx' = rTx + k
           /\ rPend' = [on |-> TRUE, entity |-> e, value |-> v, base |-> rTx, retry |-> n]
           /\ UNCHANGED <<rDirty, hits>>
  <2>1. q = SubSeq(q, 1, k)
    <3> HIDE DEF k, q
    <3> QED
      BY <1>1, <1>4
  <2> HIDE DEF q
  <2>2. /\ up' \in Seq(UpFrames) /\ Len(up') = Len(up) + k
        /\ \A i \in 1 .. Len(up) : up'[i] = up[i]
        /\ \A i \in Len(up) + 1 .. Len(up') :
             /\ up'[i].kind = "STATE" /\ up'[i].body.entity = e /\ up'[i].body.msg = v
             /\ up'[i].tx - up'[i].body.index = rTx
    <3> HIDE DEF k
    <3>1. k <= k
      BY <1>1
    <3> QED
      BY ZenonT(30), <3>1, <2>1, <1>1, <1>5, <1>6
  <2>3. rPend' \in [on : BOOLEAN, entity : Entities \cup {0}, value : Nat, base : Int, retry : Nat]
    BY ZenonT(30), <1>1, <1>2, <1>6
  <2> HIDE DEF k
  <2>4. rTx' \in Int /\ Len(up) <= Len(up') /\ Len(up') <= sc.cap /\ rTx < rTx'
    <3>1. /\ k \in Nat /\ k >= 1 /\ rTx \in Int /\ Len(up) \in Nat /\ sc.cap \in Nat
          /\ k <= sc.cap - Len(up) /\ rTx' = rTx + k /\ Len(up') = Len(up) + k
      BY Zenon, <1>1, <1>2, <1>3, <1>6, <2>2
    <3> QED
      BY ONLY <3>1
  <2>6. Pushed(e, v)
    BY <2>2, <2>4, <1>6, ZenonT(30) DEF Pushed
  <2>7. Numbered
    BY <2>2, <2>4, <1>6, ZenonT(30) DEF Numbered
  <2> QED
    BY <2>2, <2>3, <2>4, <2>6, <2>7, <1>2, <1>6, ZenonT(30)
<1>7. CASE /\ ~(k <= room) /\ hits' = [hits EXCEPT !.loss = @ + 1]
           /\ up' = up \o SubSeq(q, 1, room) /\ rTx' = rTx + room + 1
           /\ rPend' = NotWaiting /\ rDirty' = rDirty \cup {e}
  <2>1. PICK m \in Nat : m <= k /\ SubSeq(q, 1, room) = SubSeq(q, 1, m) /\ (m = room \/ room < 0)
    <3>1. CASE room >= 0
      <4>1. room \in Nat /\ room <= k
        <5> HIDE DEF k
        <5> QED
          BY SMTT(30), <3>1, <1>1, <1>2, <1>3, <1>7
      <4> HIDE DEF room, k, q
      <4> QED
        BY Zenon, <4>1
    <3>2. CASE room < 0
      <4>1. SubSeq(q, 1, room) = << >> /\ SubSeq(q, 1, 0) = << >>
        <5> HIDE DEF q
        <5> QED
          BY SMTT(30), <3>2, <1>2, <1>3, <1>4
      <4>2. 0 \in Nat /\ 0 <= k
        <5> HIDE DEF k
        <5> QED
          BY <1>1
      <4> HIDE DEF room, k, q
      <4> QED
        BY Zenon, <3>2, <4>1, <4>2
    <3> QED
      BY SMTT(30), <3>1, <3>2, <1>2, <1>3
  <2> HIDE DEF q
  <2>2. /\ up' \in Seq(UpFrames) /\ Len(up') = Len(up) + m
        /\ \A i \in 1 .. Len(up) : up'[i] = up[i]
        /\ \A i \in Len(up) + 1 .. Len(up') :
             /\ up'[i].kind = "STATE" /\ up'[i].body.entity = e /\ up'[i].body.msg = v
             /\ up'[i].tx - up'[i].body.index = rTx
    BY Zenon, <2>1, <1>5, <1>7
  <2>3. rPend' \in [on : BOOLEAN, entity : Entities \cup {0}, value : Nat, base : Int, retry : Nat] /\ ~rPend'.on
    BY <1>7 DEF NotWaiting
  <2>4. rTx' \in Int
    BY SMTT(30), <1>2, <1>3, <1>7
  <2>5. hits' \in [sc : DOMAIN Scenarios, loss : Nat, dup : Nat, forgot : BOOLEAN] /\ hits'.sc = hits.sc
    <3>1. hits.loss + 1 \in Nat
      BY <1>2
    <3>2. hits' = [hits EXCEPT !.loss = hits.loss + 1]
      BY Zenon, <1>7
    <3> QED
      BY Zenon, <1>2, <3>1, <3>2
  <2> HIDE DEF k
  <2>6. Len(up) <= Len(up') /\ (Len(up) <= sc.cap => Len(up') <= sc.cap /\ rTx < rTx')
    <3>1. /\ m \in Nat /\ rTx \in Int /\ Len(up) \in Nat /\ sc.cap \in Nat
          /\ m = sc.cap - Len(up) \/ sc.cap - Len(up) < 0
          /\ rTx' = rTx + (sc.cap - Len(up)) + 1 /\ Len(up') = Len(up) + m
      BY Zenon, <2>1, <2>2, <1>2, <1>3, <1>7
    <3> QED
      BY ONLY <3>1
  <2>7. Pushed(e, v)
    BY <2>2, <2>3, <2>6, ZenonT(30) DEF Pushed
  <2>8. Numbered
    BY <2>2, <2>3, <2>6, ZenonT(30) DEF Numbered
  <2> QED
    BY <2>2, <2>3, <2>4, <2>5, <2>7, <2>8, <1>2, <1>7, ZenonT(30)
<1> QED
  BY <1>6, <1>7, ZenonT(30) DEF PushState

\* The order is kept when the value is the newest under way.
LEMMA PushKeeps ==
  ASSUME MirrorInv, Typed', NEW e \in Entities, NEW v \in Nat, Newest(e, v), Pushed(e, v),
         UNCHANGED <<rVal, bTable, shown, mqtt, apiQ, seen>>
  PROVE  \A d \in Entities : InOrder(d)'
<1> SUFFICES ASSUME NEW d \in Entities PROVE InOrder(d)'
  BY Zenon
<1>1. Typed /\ InOrder(d)
  BY Zenon DEF MirrorInv
<1>2. Len(up) \in Nat /\ Len(up') \in Nat
  <2>1. up \in Seq(UpFrames) /\ up' \in Seq(UpFrames)
    BY <1>1, Zenon DEF Typed, LinkTyped
  <2> QED
    BY <2>1
<1>3. CASE d # e
  <2>1. FramesKept(d)
    <3>1. ASSUME NEW i \in 1 .. Len(up'), StateOf(up'[i], d)
          PROVE  i + 0 \in 1 .. Len(up) /\ up'[i] = up[i + 0]
      <4>1. i \in 1 .. Len(up) \/ i \in Len(up) + 1 .. Len(up')
        BY <1>2
      <4>2. i \notin Len(up) + 1 .. Len(up')
        BY <3>1, <1>3, Zenon DEF Pushed, StateOf
      <4> QED
        BY <4>1, <4>2 DEF Pushed
    <3> QED
      BY <3>1, Zenon DEF FramesKept
  <2>2. PushKept(d)
    BY <1>3, Zenon DEF PushKept, Pushed
  <2>3. rVal[d] \in Nat /\ shown[d] \in Nat /\ \A s \in Sinks : seen[s][d] \in Nat
    BY ZenonT(30), <1>1, TypesOf
  <2>4. mqtt'[d].value = shown'[d] /\ (mqtt'[d].dirty => shown'[d] # 0)
    BY <1>1, ZenonT(30) DEF InOrder, ViewsInOrder
  <2>5. NothingNew(d)
    BY <2>1, <2>2, <2>3, <2>4 DEF NothingNew, ApiKept
  <2> QED
    BY Zenon, <1>1, <2>5, NothingNewKeeps
<1>4. CASE d = e
  <2>1. ViewsInOrder(e)'
    BY <1>1, <1>4, Zenon DEF InOrder, ViewsInOrder, Behind
  <2>2. ApiInOrder(e)'
    BY <1>1, <1>4, ZenonT(30) DEF InOrder, ApiInOrder
  <2>3. HeldInOrder(e)'
    BY <1>1, <1>4, Zenon DEF InOrder, HeldInOrder, Behind
  <2>4. Behind(e, v) /\ Behind(e, v)' /\ v \in 1 .. rVal[e] /\ \A w \in HeldIn(bTable, e) : w <= v
    BY ZenonT(30) DEF Newest, Behind
  <2>5. FramesInOrder(e)'
    <3> SUFFICES ASSUME NEW i \in 1 .. Len(up'), StateOf(up'[i], e)
                 PROVE  /\ up'[i].body.msg \in 1 .. rVal[e] /\ Behind(e, up'[i].body.msg)
                        /\ \A w \in HeldIn(bTable, e) : w <= up'[i].body.msg
                        /\ \A j \in 1 .. i : StateOf(up'[j], e) => up'[j].body.msg <= up'[i].body.msg
      BY Zenon DEF FramesInOrder, StateOf, Behind
    <3>1. CASE i \in 1 .. Len(up)
      <4>1. up'[i] = up[i] /\ \A j \in 1 .. i : up'[j] = up[j]
        BY <3>1, <1>2 DEF Pushed
      <4>2. StateOf(up[i], e)
        BY Zenon, <4>1
      <4> QED
        BY <3>1, <4>1, <4>2, <1>1, <1>4, ZenonT(30) DEF InOrder, FramesInOrder
    <3>2. CASE i \in Len(up) + 1 .. Len(up')
      <4>1. up'[i].body.msg = v
        BY <3>2, Zenon DEF Pushed
      <4>2. ASSUME NEW j \in 1 .. i, StateOf(up'[j], e) PROVE up'[j].body.msg <= v
        <5>1. j \in 1 .. Len(up) \/ j \in Len(up) + 1 .. Len(up')
          BY <1>2
        <5>2. CASE j \in 1 .. Len(up)
          BY <5>2, <4>2, Zenon DEF Pushed, Newest
        <5>3. CASE j \in Len(up) + 1 .. Len(up')
          BY <5>3 DEF Pushed
        <5> QED
          BY Zenon, <5>1, <5>2, <5>3
      <4> QED
        BY Zenon, <4>1, <4>2, <2>4
    <3> QED
      BY <3>1, <3>2, <1>2
  <2>6. PushInOrder(e)'
    <3> SUFFICES ASSUME rPend'.on PROVE Newest(e, rPend.value)'
      BY Zenon DEF PushInOrder
    <3>1. rPend'.value = v
      BY Zenon DEF Pushed
    <3>2. ASSUME NEW i \in 1 .. Len(up'), StateOf(up'[i], e) PROVE up'[i].body.msg <= v
      <4>1. i \in 1 .. Len(up) \/ i \in Len(up) + 1 .. Len(up')
        BY <1>2
      <4>2. CASE i \in 1 .. Len(up)
        BY <4>2, <3>2, Zenon DEF Pushed, Newest
      <4>3. CASE i \in Len(up) + 1 .. Len(up')
        BY <4>3 DEF Pushed
      <4> QED
        BY Zenon, <4>1, <4>2, <4>3
    <3> QED
      BY <3>1, <3>2, <2>4, Zenon DEF Newest, StateOf, Behind
  <2> QED
    BY <1>4, <2>1, <2>2, <2>3, <2>5, <2>6, ZenonT(30) DEF InOrder
<1> QED
  BY Zenon, <1>3, <1>4

-----------------------------------------------------------------------------
(* A fragment at the bridge.                                                *)

\* What handle_state_ does to the entity of the frame at the head: its value is
\* among those the assembly holds, or the message is complete and one of them
\* is published.
Assembling(e, m) ==
  /\ HeldIn(bTable', e) \subseteq HeldIn(bTable, e) \cup {m}
  /\ UNCHANGED <<shown, mqtt, apiQ>>

Publishing(e, m) ==
  /\ HeldIn(bTable', e) = {}
  /\ \E v \in HeldIn(bTable, e) \cup {m}, base \in Nat :
       /\ shown' = [shown EXCEPT ![e] = v]
       /\ mqtt' = [mqtt EXCEPT ![e] = [value |-> v, dirty |-> TRUE, ack |-> base]]
       /\ apiQ' = IF "API" \in sinks THEN
                    Append(apiQ, [entity |-> e, value |-> v, base |-> base, key |-> bKey])
                  ELSE apiQ

\* The frames behind the one at the head.
Shifted == up # << >> /\ up' = Tail(up)

\* The frame at the head is the oldest of its entity, and nothing the bridge has
\* is newer.
LEMMA HeadIsNext ==
  ASSUME Typed, NEW e \in Entities, InOrder(e), Shifted, StateOf(up[1], e), NEW m, m = up[1].body.msg
  PROVE  /\ m \in 1 .. rVal[e] /\ m \in Nat /\ Behind(e, m)
         /\ \A v \in HeldIn(bTable, e) : v <= m
         /\ \A i \in 1 .. Len(up') : StateOf(up'[i], e) => m <= up'[i].body.msg
         /\ rPend.on /\ rPend.entity = e => m <= rPend.value
<1>1. /\ up' \in Seq(UpFrames) /\ Len(up') = Len(up) - 1 /\ Len(up) >= 1
      /\ \A i \in 1 .. Len(up) - 1 : up'[i] = up[i + 1]
  <2>1. up \in Seq(UpFrames)
    BY Zenon DEF Typed, LinkTyped
  <2> QED
    BY <2>1, TailElements, Zenon DEF Shifted
<1>2. Len(up) \in Nat /\ 1 \in 1 .. Len(up)
  BY <1>1, TypesOf
<1>3. m \in Nat
  BY ZenonT(30), <1>2, TypesOf
<1>4. /\ m \in 1 .. rVal[e] /\ Behind(e, m) /\ \A v \in HeldIn(bTable, e) : v <= m
  BY <1>2, ZenonT(30) DEF InOrder, FramesInOrder
<1>5. ASSUME NEW i \in 1 .. Len(up'), StateOf(up'[i], e) PROVE m <= up'[i].body.msg
  <2>1. i + 1 \in 1 .. Len(up) /\ 1 \in 1 .. i + 1 /\ i \in 1 .. Len(up) - 1
    BY <1>1, <1>2
  <2>2. up'[i] = up[i + 1] /\ StateOf(up[i + 1], e)
    BY ZenonT(30), <2>1, <1>1, <1>5
  <2> QED
    BY <2>1, <2>2, ZenonT(30) DEF InOrder, FramesInOrder
<1>6. rPend.on /\ rPend.entity = e => m <= rPend.value
  BY <1>2, Zenon DEF InOrder, PushInOrder, Newest
<1> QED
  BY Zenon, <1>3, <1>4, <1>5, <1>6

\* A frame that only leaves keeps the frames in flight in order.
LEMMA ShiftKeeps ==
  ASSUME Typed, Shifted, NEW e \in Entities
  PROVE  FramesKept(e)
<1>1. /\ Len(up') = Len(up) - 1 /\ Len(up) \in Nat /\ \A i \in 1 .. Len(up) - 1 : up'[i] = up[i + 1]
  <2>1. up \in Seq(UpFrames)
    BY Zenon DEF Typed, LinkTyped
  <2> QED
    BY <2>1, TailElements DEF Shifted
<1>2. \A i \in 1 .. Len(up') : i + 1 \in 1 .. Len(up) /\ up'[i] = up[i + 1]
  BY <1>1
<1> QED
  BY <1>2, Zenon DEF FramesKept

\* A value that is held takes its place in the line.
LEMMA AssemblingKeeps ==
  ASSUME Typed, Typed', NEW e \in Entities, InOrder(e), Shifted, StateOf(up[1], e),
         Assembling(e, up[1].body.msg), UNCHANGED <<rVal, rPend, seen>>
  PROVE  InOrder(e)'
<1>1. PICK m : m = up[1].body.msg
  BY Zenon
<1>2. /\ m \in 1 .. rVal[e] /\ m \in Nat /\ Behind(e, m)
      /\ \A v \in HeldIn(bTable, e) : v <= m
      /\ \A i \in 1 .. Len(up') : StateOf(up'[i], e) => m <= up'[i].body.msg
      /\ rPend.on /\ rPend.entity = e => m <= rPend.value
  BY Zenon, <1>1, HeadIsNext
<1>3. ViewsInOrder(e)'
  BY Zenon DEF InOrder, ViewsInOrder, Behind, Assembling
<1>4. ApiInOrder(e)'
  BY Zenon DEF InOrder, ApiInOrder, Assembling
<1>5. HeldInOrder(e)'
  BY <1>1, <1>2, Zenon DEF InOrder, HeldInOrder, Behind, Assembling
<1>6. PICK d \in {0, 1} : \A i \in 1 .. Len(up') :
        StateOf(up'[i], e) => i + d \in 1 .. Len(up) /\ up'[i] = up[i + d]
  BY ShiftKeeps, ZenonT(30) DEF FramesKept
<1>7. FramesInOrder(e)'
  <2> SUFFICES ASSUME NEW i \in 1 .. Len(up'), StateOf(up'[i], e)
               PROVE  /\ up'[i].body.msg \in 1 .. rVal[e] /\ Behind(e, up'[i].body.msg)
                      /\ \A v \in HeldIn(bTable', e) : v <= up'[i].body.msg
                      /\ \A j \in 1 .. i : StateOf(up'[j], e) => up'[j].body.msg <= up'[i].body.msg
    BY Zenon DEF FramesInOrder, StateOf, Behind, Assembling
  <2>1. i + d \in 1 .. Len(up) /\ up'[i] = up[i + d] /\ StateOf(up[i + d], e)
    BY ZenonT(30), <1>6
  <2>2. /\ up[i + d].body.msg \in 1 .. rVal[e] /\ Behind(e, up[i + d].body.msg)
        /\ \A v \in HeldIn(bTable, e) : v <= up[i + d].body.msg
        /\ \A j \in 1 .. i + d : StateOf(up[j], e) => up[j].body.msg <= up[i + d].body.msg
    BY <2>1, Zenon DEF InOrder, FramesInOrder
  <2>3. m <= up'[i].body.msg
    BY Zenon, <1>2
  <2>4. ASSUME NEW j \in 1 .. i, StateOf(up'[j], e) PROVE up'[j].body.msg <= up'[i].body.msg
    <3>1. j \in 1 .. Len(up') /\ j + d \in 1 .. i + d
      BY SMTT(30) DEF Typed, LinkTyped
    <3>2. up'[j] = up[j + d] /\ StateOf(up[j + d], e)
      BY Zenon, <3>1, <2>4, <1>6
    <3> QED
      BY ZenonT(30), <3>1, <3>2, <2>1, <2>2
  <2> QED
    BY <2>1, <2>2, <2>3, <2>4, <1>1, ZenonT(30) DEF Assembling
<1>8. PushInOrder(e)'
  <2> SUFFICES ASSUME rPend.on, rPend.entity = e PROVE Newest(e, rPend.value)'
    BY Zenon DEF PushInOrder
  <2>1. Newest(e, rPend.value) /\ m <= rPend.value
    BY <1>2, Zenon DEF InOrder, PushInOrder
  <2>2. \A w \in HeldIn(bTable', e) : w <= rPend.value
    BY <2>1, <1>1, Zenon DEF Newest, Assembling
  <2>3. \A i \in 1 .. Len(up') : StateOf(up'[i], e) => up'[i].body.msg <= rPend.value
    BY <2>1, <1>6, Zenon DEF Newest
  <2> QED
    BY <2>1, <2>2, <2>3, Zenon DEF Newest, StateOf, Behind, Assembling
<1> QED
  BY <1>3, <1>4, <1>5, <1>7, <1>8, ZenonT(30) DEF InOrder

\* A value that is published leaves nothing older behind it.
LEMMA PublishingKeeps ==
  ASSUME Typed, Typed', NEW e \in Entities, InOrder(e), Shifted, StateOf(up[1], e),
         Publishing(e, up[1].body.msg), UNCHANGED <<rVal, rPend, seen>>
  PROVE  InOrder(e)' /\ shown[e] <= shown'[e] /\ shown'[e] <= rVal[e]
<1>1. PICK m : m = up[1].body.msg
  BY Zenon
<1>2. /\ m \in 1 .. rVal[e] /\ m \in Nat /\ Behind(e, m)
      /\ \A v \in HeldIn(bTable, e) : v <= m
      /\ \A i \in 1 .. Len(up') : StateOf(up'[i], e) => m <= up'[i].body.msg
      /\ rPend.on /\ rPend.entity = e => m <= rPend.value
  BY Zenon, <1>1, HeadIsNext
<1>3. PICK v \in HeldIn(bTable, e) \cup {m}, base \in Nat :
        /\ shown' = [shown EXCEPT ![e] = v]
        /\ mqtt' = [mqtt EXCEPT ![e] = [value |-> v, dirty |-> TRUE, ack |-> base]]
        /\ apiQ' = IF "API" \in sinks THEN
                     Append(apiQ, [entity |-> e, value |-> v, base |-> base, key |-> bKey])
                   ELSE apiQ
  BY <1>1, Zenon DEF Publishing
<1>4. v \in 1 .. rVal[e] /\ v \in Nat /\ v <= m /\ Behind(e, v)
  <2>1. v \in Nat
    BY Zenon, <1>2, TypesOf
  <2>2. v \in 1 .. rVal[e] /\ Behind(e, v) /\ v <= m
    BY <1>2 DEF InOrder, HeldInOrder
  <2> QED
    BY Zenon, <2>1, <2>2
<1>5. shown'[e] = v /\ mqtt'[e].value = v
  BY <1>3, Zenon DEF Typed, BridgeTyped
<1>6. ASSUME NEW w \in Nat, v <= w, Behind(e, w) PROVE Behind(e, w)'
  BY <1>5, <1>6, Zenon DEF Behind
<1>7. ViewsInOrder(e)'
  <2>1. Behind(e, rVal[e])'
    BY <1>4, <1>5 DEF InOrder, ViewsInOrder, Behind
  <2>2. \A s \in Sinks : seen'[s][e] <= shown'[e]
    BY <1>4, <1>5, ZenonT(30) DEF Behind
  <2>3. shown'[e] # 0
    BY <1>4, <1>5
  <2> QED
    BY <2>1, <2>2, <2>3, <1>5, ZenonT(30) DEF ViewsInOrder
<1>8. ApiInOrder(e)'
  <2>1. \A i \in 1 .. Len(apiQ) : apiQ[i].entity = e =>
          seen["API"][e] <= apiQ[i].value /\ apiQ[i].value <= v
    <3>1. ASSUME NEW i \in 1 .. Len(apiQ), apiQ[i].entity = e
          PROVE  seen["API"][e] <= apiQ[i].value /\ apiQ[i].value <= v
      <4>1. seen["API"][e] <= apiQ[i].value /\ apiQ[i].value <= shown[e] /\ shown[e] <= v
        BY <3>1, <1>4, Zenon DEF InOrder, ApiInOrder, Behind
      <4>2. apiQ[i].value \in Nat /\ shown[e] \in Nat
        BY Zenon, TypesOf
      <4> QED
        BY <4>1, <4>2, <1>4
    <3> QED
      BY ZenonT(30), <3>1
  <2>2. CASE apiQ' = apiQ
    BY <2>1, <2>2, <1>5, ZenonT(30) DEF InOrder, ApiInOrder
  <2>3. CASE apiQ' = Append(apiQ, [entity |-> e, value |-> v, base |-> base, key |-> bKey])
    <3> DEFINE x == [entity |-> e, value |-> v, base |-> base, key |-> bKey]
    <3>1. apiQ \in Seq(Receipts) /\ Len(apiQ) \in Nat /\ x \in Receipts
      BY <1>4 DEF Typed, BridgeTyped, LinkTyped, Receipts
    <3>2. x.entity = e /\ x.value = v
      BY Zenon
    <3> HIDE DEF x
    <3>3. /\ Len(apiQ') = Len(apiQ) + 1 /\ apiQ'[Len(apiQ) + 1] = x
          /\ \A i \in 1 .. Len(apiQ) : apiQ'[i] = apiQ[i]
      BY <2>3, <3>1, AppendElements DEF x
    <3> SUFFICES ASSUME NEW i \in 1 .. Len(apiQ'), apiQ'[i].entity = e
                 PROVE  /\ seen["API"][e] <= apiQ'[i].value /\ apiQ'[i].value <= v
                        /\ \A j \in 1 .. i : apiQ'[j].entity = e => apiQ'[j].value <= apiQ'[i].value
      BY <1>5, ZenonT(30) DEF ApiInOrder
    <3>4. CASE i \in 1 .. Len(apiQ)
      <4>1. \A j \in 1 .. i : apiQ'[j] = apiQ[j]
        BY <3>3, <3>1, <3>4
      <4>2. apiQ'[i] = apiQ[i]
        BY ZenonT(30), <3>3, <3>4
      <4> QED
        BY <4>1, <4>2, <3>4, <2>1, ZenonT(30) DEF InOrder, ApiInOrder
    <3>5. CASE i = Len(apiQ) + 1
      <4>1. apiQ'[i].value = v
        BY ZenonT(30), <3>2, <3>3, <3>5
      <4>2. seen["API"][e] <= v
        BY <1>4, ZenonT(30) DEF Behind, Sinks
      <4>3. ASSUME NEW j \in 1 .. i, apiQ'[j].entity = e PROVE apiQ'[j].value <= v
        <5>1. j \in 1 .. Len(apiQ) \/ j = Len(apiQ) + 1
          BY <3>1, <3>5
        <5>2. CASE j \in 1 .. Len(apiQ)
          BY ZenonT(30), <5>2, <4>3, <3>3, <2>1
        <5>3. CASE j = Len(apiQ) + 1
          BY SMTT(30), <5>3, <3>2, <3>3, <1>4
        <5> QED
          BY ZenonT(30), <5>1, <5>2, <5>3
      <4> QED
        BY SMTT(30), <4>1, <4>2, <4>3, <1>4
    <3> QED
      BY SMTT(30), <3>1, <3>3, <3>4, <3>5
  <2> QED
    BY ZenonT(30), <2>2, <2>3, <1>3
<1>9. HeldInOrder(e)'
  BY Zenon DEF HeldInOrder, Publishing
<1>10. PICK d \in {0, 1} : \A i \in 1 .. Len(up') :
        StateOf(up'[i], e) => i + d \in 1 .. Len(up) /\ up'[i] = up[i + d]
  BY ShiftKeeps, Zenon DEF FramesKept
<1>11. FramesInOrder(e)'
  <2> SUFFICES ASSUME NEW i \in 1 .. Len(up'), StateOf(up'[i], e)
               PROVE  /\ up'[i].body.msg \in 1 .. rVal[e] /\ Behind(e, up[i].body.msg)'
                      /\ \A j \in 1 .. i : StateOf(up'[j], e) => up'[j].body.msg <= up'[i].body.msg
    BY Zenon DEF FramesInOrder, StateOf, Publishing
  <2>1. i + d \in 1 .. Len(up) /\ up'[i] = up[i + d] /\ StateOf(up[i + d], e)
    BY ZenonT(30), <1>10
  <2>2. /\ up[i + d].body.msg \in 1 .. rVal[e] /\ Behind(e, up[i + d].body.msg)
        /\ \A j \in 1 .. i + d : StateOf(up[j], e) => up[j].body.msg <= up[i + d].body.msg
    BY <2>1, Zenon DEF InOrder, FramesInOrder
  <2>3. PICK w \in Nat : w = up'[i].body.msg
    BY ZenonT(30), <2>1, TypesOf
  <2>4. v <= w
    BY SMTT(30), <2>3, <1>2, <1>4
  <2>5. Behind(e, w)'
    BY ZenonT(30), <2>1, <2>2, <2>3, <2>4, <1>6
  <2>6. Behind(e, up[i].body.msg)'
    BY <2>3, <2>5, Zenon DEF Behind
  <2>7. ASSUME NEW j \in 1 .. i, StateOf(up'[j], e) PROVE up'[j].body.msg <= up'[i].body.msg
    <3>1. j \in 1 .. Len(up') /\ j + d \in 1 .. i + d
      BY SMTT(30) DEF Typed, LinkTyped
    <3>2. up'[j] = up[j + d] /\ StateOf(up[j + d], e)
      BY Zenon, <3>1, <2>7, <1>10
    <3> QED
      BY ZenonT(30), <3>1, <3>2, <2>1, <2>2
  <2> QED
    BY ZenonT(30), <2>1, <2>2, <2>6, <2>7
<1>12. PushInOrder(e)'
  <2> SUFFICES ASSUME rPend.on, rPend.entity = e PROVE Newest(e, rPend.value)'
    BY Zenon DEF PushInOrder
  <2>1. Newest(e, rPend.value) /\ m <= rPend.value
    BY <1>2, ZenonT(30) DEF InOrder, PushInOrder
  <2>2. PICK w \in Nat : w = rPend.value
    <3>1. rPend.value \in 1 .. rVal[e] /\ rVal[e] \in Nat
      BY <2>1, TypesOf, ZenonT(30) DEF Newest
    <3> QED
      BY <3>1
  <2>3. Behind(e, w)'
    BY <2>1, <2>2, <1>2, <1>4, <1>6, ZenonT(30) DEF Newest
  <2>4. Behind(e, rPend.value)'
    BY <2>2, <2>3, Zenon DEF Behind
  <2>5. \A i \in 1 .. Len(up') : StateOf(up'[i], e) => up'[i].body.msg <= rPend.value
    BY <2>1, <1>10, ZenonT(30) DEF Newest
  <2> QED
    BY <2>1, <2>4, <2>5, Zenon DEF Newest, StateOf, Publishing
<1> QED
  <2>1. shown[e] <= v /\ v <= rVal[e]
    BY <1>4 DEF Behind
  <2> QED
    BY <1>5, <1>7, <1>8, <1>9, <1>11, <1>12, <2>1, ZenonT(30) DEF InOrder

-----------------------------------------------------------------------------
(* The steps.                                                               *)

HitsType == [sc : DOMAIN Scenarios, loss : Nat, dup : Nat, forgot : BOOLEAN]

\* The views and the value do not move.
MirrorStutters == UNCHANGED <<rVal, shown, seen>>

\* A step of the mirror.
MirrorStep == Mirror!Next \/ UNCHANGED Mirror!vars

\* The entities' order from one step to the next.
LEMMA OrderKept ==
  ASSUME MirrorInv, Typed', hits'.sc = hits.sc,
         \A e \in Entities : InOrder(e)' \/ NothingNew(e)
  PROVE  MirrorInv'
<1>1. Typed /\ sc.dup = 0
  BY Zenon DEF MirrorInv
<1>2. sc' = sc
  BY Zenon DEF sc
<1>3. \A e \in Entities : InOrder(e)'
  <2> SUFFICES ASSUME NEW e \in Entities PROVE InOrder(e)'
    BY Zenon
  <2>1. InOrder(e)
    BY Zenon DEF MirrorInv
  <2> QED
    BY ZenonT(30), <2>1, <1>1, NothingNewKeeps
<1> QED
  BY <1>1, <1>2, <1>3, Zenon DEF MirrorInv

\* The STATE frames in flight stay, apart from one at the head.
UpKept ==
  \E d \in {0, 1} : \A i \in 1 .. Len(up') :
    up'[i].kind = "STATE" => i + d \in 1 .. Len(up) /\ up'[i] = up[i + d]

\* A step without a new value or a new view.
LEMMA QuietKeeps ==
  ASSUME MirrorInv, Typed', hits'.sc = hits.sc, UpKept, rPend' = rPend \/ ~rPend'.on,
         UNCHANGED <<shown, mqtt, seen>>, apiQ' = apiQ \/ apiQ' = << >>,
         \A e \in Entities : rVal[e] <= rVal'[e] /\ HeldIn(bTable', e) \subseteq HeldIn(bTable, e)
  PROVE  MirrorInv'
<1> SUFFICES ASSUME NEW e \in Entities PROVE NothingNew(e)
  BY Zenon, OrderKept
<1>1. Typed /\ InOrder(e)
  BY Zenon DEF MirrorInv
<1>2. FramesKept(e)
  BY Zenon DEF UpKept, FramesKept, StateOf
<1>3. PushKept(e)
  BY Zenon DEF PushKept
<1>4. ApiKept(e)
  BY Zenon DEF ApiKept
<1>5. shown[e] \in Nat /\ \A s \in Sinks : seen[s][e] \in Nat
  BY ZenonT(30), <1>1, TypesOf
<1>6. \A s \in Sinks : seen'[s][e] <= seen[s][e]
  BY <1>5
<1>7. mqtt'[e].value = shown'[e] /\ (mqtt'[e].dirty => shown'[e] # 0)
  BY <1>1, Zenon DEF InOrder, ViewsInOrder
<1> QED
  BY <1>2, <1>3, <1>4, <1>6, <1>7, ZenonT(30) DEF NothingNew

\* The path is as it was, has lost its head, or has one more heartbeat.
LEMMA PathKept ==
  ASSUME LinkTyped,
         \/ UNCHANGED up
         \/ up # << >> /\ up' = Tail(up)
         \/ \E key \in Nat, tx \in Int : up' = Put(up, Frame("HEARTBEAT", key, tx, Nothing))
         \/ \E key \in Nat, tx \in Int : up' = << Frame("HEARTBEAT", key, tx, Nothing) >>
  PROVE  UpKept /\ up' \in Seq(UpFrames)
<1>1. up \in Seq(UpFrames) /\ Len(up) \in Nat
  BY DEF LinkTyped
<1>2. CASE UNCHANGED up
  <2>1. \A i \in 1 .. Len(up') : i + 0 \in 1 .. Len(up) /\ up'[i] = up[i + 0]
    BY <1>1, <1>2
  <2> QED
    BY <1>1, <1>2, <2>1, ZenonT(30) DEF UpKept
<1>3. CASE up # << >> /\ up' = Tail(up)
  <2>1. up' \in Seq(UpFrames) /\ Len(up') = Len(up) - 1 /\ \A i \in 1 .. Len(up) - 1 : up'[i] = up[i + 1]
    BY ZenonT(30), <1>1, <1>3, TailElements
  <2>2. \A i \in 1 .. Len(up') : i + 1 \in 1 .. Len(up) /\ up'[i] = up[i + 1]
    BY <1>1, <2>1
  <2> QED
    BY <2>1, <2>2, Zenon DEF UpKept
<1>4. ASSUME NEW key \in Nat, NEW tx \in Int
      PROVE  /\ Frame("HEARTBEAT", key, tx, Nothing) \in UpFrames
             /\ Frame("HEARTBEAT", key, tx, Nothing).kind = "HEARTBEAT"
  BY Zenon DEF Frame, UpFrames
<1>5. ASSUME NEW x \in UpFrames, x.kind = "HEARTBEAT", up' = Append(up, x)
      PROVE  UpKept /\ up' \in Seq(UpFrames)
  <2>1. /\ up' \in Seq(UpFrames) /\ Len(up') = Len(up) + 1
        /\ \A i \in 1 .. Len(up) : up'[i] = up[i]
        /\ up'[Len(up) + 1] = x
    BY SMTT(30), <1>1, <1>5, AppendElements
  <2>2. ASSUME NEW i \in 1 .. Len(up'), up'[i].kind = "STATE"
        PROVE  i + 0 \in 1 .. Len(up) /\ up'[i] = up[i + 0]
    <3>1. i # Len(up) + 1
      BY Zenon, <2>1, <2>2, <1>5
    <3> QED
      BY <3>1, <2>1, <1>1
  <2> QED
    BY <2>1, <2>2, ZenonT(30) DEF UpKept
<1>6. ASSUME NEW x \in UpFrames, x.kind = "HEARTBEAT", up' = << x >>
      PROVE  UpKept /\ up' \in Seq(UpFrames)
  <2>1. up' \in Seq(UpFrames) /\ Len(up') = 1 /\ up'[1] = x
    BY <1>6
  <2>2. \A i \in 1 .. Len(up') : up'[i].kind # "STATE"
    BY <2>1, <1>6
  <2> QED
    BY <2>1, <2>2, ZenonT(30) DEF UpKept
<1>7. CASE \E key \in Nat, tx \in Int : up' = Put(up, Frame("HEARTBEAT", key, tx, Nothing))
  BY <1>2, <1>4, <1>5, <1>7, ZenonT(30) DEF Put
<1>8. CASE \E key \in Nat, tx \in Int : up' = << Frame("HEARTBEAT", key, tx, Nothing) >>
  BY Zenon, <1>4, <1>6, <1>8
<1> QED
  BY ZenonT(30), <1>2, <1>3, <1>7, <1>8

\* An empty table holds nothing.
LEMMA EmptyHolds ==
  EmptyTable \in Tables /\ \A e \in Entities : HeldIn(EmptyTable, e) = {}
BY Zenon DEF EmptyTable, Tables, HeldIn

\* The steps of the session.
LEMMA SessionMirror ==
  ASSUME MirrorInv, SessionSteps, UNCHANGED <<rStates, bStates>>
  PROVE  MirrorInv' /\ MirrorStutters
<1>1. LinkTyped /\ LeafTyped /\ BridgeTyped /\ Typed /\ sc.dup = 0
  BY Zenon DEF MirrorInv, Typed
<1>2. hits \in HitsType /\ rTx \in Int /\ rKey \in Nat /\ bKey \in Nat /\ keys \in Nat
  BY <1>1, Zenon DEF LinkTyped, HitsType
<1>3. ~RepeatDown /\ ~RepeatUp
  BY <1>1, <1>2, SMTT(30) DEF RepeatDown, RepeatUp, HitsType
<1>4. /\ \/ UNCHANGED up
         \/ up # << >> /\ up' = Tail(up)
         \/ \E key \in Nat, tx \in Int : up' = Put(up, Frame("HEARTBEAT", key, tx, Nothing))
      /\ UNCHANGED <<bKey, rKey, keys>> /\ rTx' \in Int
  BY <1>2, <1>3 DEF SessionSteps, RejectUnknown, HandleHeartbeat, SendHeartbeat, OfflineTimeout, Radio,
     LoseDown, LoseUp, bSession, rSession, path, UpIs
<1>5. hits' \in HitsType /\ hits'.sc = hits.sc
  <2>1. hits' = hits \/ hits' = [hits EXCEPT !.loss = hits.loss + 1]
    BY <1>3, Zenon DEF SessionSteps, RejectUnknown, HandleHeartbeat, SendHeartbeat, OfflineTimeout, Radio,
       LoseDown, LoseUp, path
  <2> QED
    BY <2>1, <1>2 DEF HitsType
<1>6. UpKept /\ up' \in Seq(UpFrames)
  BY ZenonT(30), <1>1, <1>4, PathKept
<1>7. LinkTyped'
  BY <1>2, <1>4, <1>5, <1>6, ZenonT(30) DEF LinkTyped, HitsType
<1>8. LeafTyped' /\ BridgeTyped'
  BY <1>1, Zenon DEF LeafTyped, BridgeTyped, rStates, bStates
<1>9. /\ UNCHANGED <<shown, mqtt, seen, rVal, rPend, apiQ, bTable>>
  BY ZenonT(30) DEF rStates, bStates
<1>10. \A e \in Entities : rVal[e] <= rVal'[e] /\ HeldIn(bTable', e) \subseteq HeldIn(bTable, e)
  BY <1>1, <1>9, TypesOf
<1> QED
  BY <1>5, <1>6, <1>7, <1>8, <1>9, <1>10, QuietKeeps, ZenonT(30) DEF Typed, MirrorStutters

\* The steps of the leaf that push nothing.
LeafQuiet ==
  \/ StateTimeout \/ RouteResumed \/ HandleStateAck \/ HandleDeauth \/ GiveUp \/ RemoteRestart

\* A timeout, an acknowledgement, a deauth, giving up or a restart of the leaf leaves every
\* value of an entity in its place in the line, and moves no sink.
LEMMA LeafQuietMirror ==
  ASSUME MirrorInv, LeafQuiet
  PROVE  MirrorInv' /\ MirrorStutters
<1>1. LinkTyped /\ LeafTyped /\ BridgeTyped /\ Typed
  BY Zenon DEF MirrorInv, Typed
<1>2. hits \in HitsType /\ rTx \in Int /\ rKey \in Nat /\ bKey \in Nat /\ keys \in Nat
  BY <1>1, Zenon DEF LinkTyped, HitsType
<1>3. /\ UNCHANGED bStates /\ UNCHANGED <<rVal, hits, bKey, keys>>
      /\ rKey' = rKey \/ rKey' = 0
      /\ rTx' = rTx \/ rTx' = rTx + 1 \/ rTx' = 1
      /\ UNCHANGED up \/ up' = Put(up, Frame("HEARTBEAT", rKey, rTx, Nothing))
      /\ rPend' = rPend \/ rPend' = NotWaiting
  BY Zenon DEF LeafQuiet, StateTimeout, RouteResumed, HandleStateAck, HandleDeauth, GiveUp, RemoteRestart,
     bSession, rSession, path, rStates, LeaveSession, ClearPush
<1>4. rDirty' \subseteq Entities
  <2>1. rDirty \subseteq Entities /\ (rPend.on => rPend.entity \in Entities)
    BY <1>1, Zenon DEF LeafTyped
  <2>2. sc.entities \subseteq Entities
    BY <1>2, StateAssumption, Zenon DEF sc, HitsType
  <2> QED
    BY <2>1, <2>2, Zenon DEF LeafQuiet, StateTimeout, RouteResumed, HandleStateAck, HandleDeauth, GiveUp, RemoteRestart,
       rStates
<1>5. UpKept /\ up' \in Seq(UpFrames)
  BY ZenonT(30), <1>1, <1>2, <1>3, PathKept
<1>6. LinkTyped'
  BY <1>2, <1>3, <1>5 DEF LinkTyped, HitsType
<1>7. LeafTyped'
  <2>1. /\ rVal' \in [Entities -> 1 .. MaxValue]
        /\ rPend' \in [on : BOOLEAN, entity : Entities \cup {0}, value : Nat, base : Int, retry : Nat]
        /\ rPend'.on => rPend'.entity \in Entities
    <3>1. CASE rPend' = rPend
      BY <3>1, <1>1, <1>3, ZenonT(30) DEF LeafTyped
    <3>2. CASE rPend' = NotWaiting
      BY <3>2, <1>1, <1>3 DEF LeafTyped, NotWaiting
    <3> QED
      BY ZenonT(30), <3>1, <3>2, <1>3
  <2> QED
    BY <2>1, <1>4, Zenon DEF LeafTyped
<1>8. BridgeTyped'
  BY <1>1, <1>3, Zenon DEF BridgeTyped, bStates
<1>9. UNCHANGED <<shown, mqtt, seen, apiQ, bTable>>
  BY <1>3, ZenonT(30) DEF bStates
<1>10. \A e \in Entities : rVal[e] <= rVal'[e] /\ HeldIn(bTable', e) \subseteq HeldIn(bTable, e)
  BY SMTT(30), <1>1, <1>3, <1>9, TypesOf
<1>11. rPend' = rPend \/ ~rPend'.on
  BY <1>3 DEF NotWaiting
<1> QED
  BY <1>3, <1>5, <1>6, <1>7, <1>8, <1>9, <1>10, <1>11, QuietKeeps, ZenonT(30) DEF Typed, MirrorStutters

\* A new value at the leaf.
LEMMA ChangeMirror ==
  ASSUME MirrorInv, NEW e \in Entities, Change(e) \/ Commanded(e)
  PROVE  MirrorInv' /\ rVal' = [rVal EXCEPT ![e] = @ + 1] /\ UNCHANGED <<shown, seen>>
<1>1. LinkTyped /\ LeafTyped /\ BridgeTyped /\ Typed
  BY Zenon DEF MirrorInv, Typed
<1>2. /\ UNCHANGED bStates /\ UNCHANGED <<hits, bKey, rKey, keys, rTx, up, rPend>>
      /\ rVal' = [rVal EXCEPT ![e] = @ + 1] /\ rVal[e] < MaxValue
      /\ rDirty' \in {rDirty \cup {e}, rDirty \ {e}}
  BY Zenon DEF Change, Commanded, pairVars, path, bSession, rSession
<1>3. UpKept
  BY ZenonT(30), <1>1, <1>2, PathKept
<1>4. LinkTyped'
  BY <1>1, <1>2, Zenon DEF LinkTyped
<1>5. BridgeTyped'
  BY <1>1, <1>2, Zenon DEF BridgeTyped, bStates
<1>6. rVal \in [Entities -> 1 .. MaxValue] /\ MaxValue \in Nat
  BY <1>1, StateAssumption, ZenonT(30) DEF LeafTyped
<1>7. rVal' \in [Entities -> 1 .. MaxValue] /\ \A d \in Entities : rVal[d] <= rVal'[d]
  BY <1>2, <1>6
<1>8. LeafTyped'
  <2>1. rDirty' \subseteq Entities
    BY <1>1, <1>2, Zenon DEF LeafTyped
  <2> QED
    BY <2>1, <1>1, <1>2, <1>7, ZenonT(30) DEF LeafTyped
<1>9. UNCHANGED <<shown, mqtt, seen, apiQ, bTable>>
  BY <1>2, Zenon DEF bStates
<1>10. \A d \in Entities : rVal[d] <= rVal'[d] /\ HeldIn(bTable', d) \subseteq HeldIn(bTable, d)
  BY Zenon, <1>7, <1>9
<1> QED
  BY <1>2, <1>3, <1>4, <1>5, <1>8, <1>9, <1>10, QuietKeeps, ZenonT(30) DEF Typed

\* A join, and the steps of the bridge that publish nothing.
BridgeQuiet ==
  \/ JoinStates \/ EvictSession
  \/ \E e \in Entities : PruneState(e)
  \/ \E d \in waiting : ExpireDelivery(d)
  \/ \E s \in Sinks : SinkDown(s)

\* A join, an eviction, a pruned or expired state or a sink that goes down leaves every value
\* of an entity in its place in the line, and moves no sink.
LEMMA BridgeQuietMirror ==
  ASSUME MirrorInv, BridgeQuiet
  PROVE  MirrorInv' /\ MirrorStutters
<1>1. LinkTyped /\ LeafTyped /\ BridgeTyped /\ Typed
  BY Zenon DEF MirrorInv, Typed
<1>2. hits \in HitsType /\ rTx \in Int /\ rKey \in Nat /\ bKey \in Nat /\ keys \in Nat /\ keys + 1 \in Nat /\ rTx + 1 \in Int
  BY <1>1 DEF LinkTyped, HitsType
<1>3. /\ UNCHANGED <<rVal, rPend, shown, mqtt, seen>>
      /\ bKey' \in {bKey, 0, keys + 1} /\ rKey' \in {rKey, keys + 1} /\ keys' \in {keys, keys + 1}
      /\ rTx' = rTx \/ rTx' = rTx + 2
      /\ UNCHANGED up \/ up' = << Frame("HEARTBEAT", keys + 1, rTx + 1, Nothing) >>
      /\ hits' = hits \/ hits' = [hits EXCEPT !.forgot = TRUE]
  BY Zenon DEF BridgeQuiet, JoinStates, EvictSession, PruneState, ExpireDelivery, SinkDown, Rejoin, JoinKeys, ForgetSession,
     pairVars, bSession, rSession, path, rStates
<1>4. rDirty' \subseteq Entities
  <2>1. rDirty \subseteq Entities
    BY <1>1, Zenon DEF LeafTyped
  <2>2. sc.entities \subseteq Entities
    BY <1>2, StateAssumption, ZenonT(30) DEF sc, HitsType
  <2> QED
    BY <2>1, <2>2, Zenon DEF BridgeQuiet, JoinStates, EvictSession, PruneState, ExpireDelivery, SinkDown, rStates
<1>5. UpKept /\ up' \in Seq(UpFrames)
  BY ZenonT(30), <1>1, <1>2, <1>3, PathKept
<1>6. hits' \in HitsType /\ hits'.sc = hits.sc
  BY <1>2, <1>3, Zenon DEF HitsType
<1>7. LinkTyped'
  BY <1>2, <1>3, <1>5, <1>6, SMTT(30) DEF LinkTyped, HitsType
<1>8. LeafTyped'
  BY <1>1, <1>3, <1>4, Zenon DEF LeafTyped
<1>9. /\ apiQ' = apiQ \/ apiQ' = << >>
      /\ sinks' \subseteq Sinks /\ ("API" \notin sinks' => apiQ' = << >>)
  <2>1. sinks \subseteq Sinks /\ ("API" \notin sinks => apiQ = << >>)
    BY <1>1, Zenon DEF BridgeTyped
  <2> QED
    BY <2>1, Zenon DEF BridgeQuiet, JoinStates, EvictSession, PruneState, ExpireDelivery, SinkDown, Sinks
<1>10. bTable' \in Tables /\ \A e \in Entities : HeldIn(bTable', e) \subseteq HeldIn(bTable, e)
  <2>1. bTable \in Tables
    BY <1>1, Zenon DEF BridgeTyped
  <2>2. CASE bTable' = bTable
    BY Zenon, <2>1, <2>2
  <2>3. CASE bTable' = EmptyTable
    BY Zenon, <2>3, EmptyHolds
  <2>4. ASSUME NEW e \in Entities, PruneState(e)
        PROVE  bTable' \in Tables /\ \A d \in Entities : HeldIn(bTable', d) \subseteq HeldIn(bTable, d)
    <3>1. bTable' = Release(bTable, e) /\ bTable.asm[e] \in Assemblies
      BY <2>1, <2>4, Zenon DEF PruneState, Expired, Tables
    <3>2. /\ bTable' \in Tables /\ bTable'.asm[e] = NoEntry
          /\ \A d \in Entities \ {e} : bTable'.asm[d] = bTable.asm[d]
      BY ZenonT(30), <3>1, <2>1, ReleaseEffect
    <3> QED
      BY <3>2, ZenonT(30) DEF HeldIn
  <2> QED
    BY <2>2, <2>3, <2>4, ZenonT(30) DEF BridgeQuiet, JoinStates, EvictSession, ExpireDelivery, SinkDown
<1>11. BridgeTyped'
  <2>1. apiQ' \in Seq(Receipts)
    <3>1. << >> \in Seq(Receipts) /\ apiQ \in Seq(Receipts)
      BY <1>1 DEF BridgeTyped
    <3> QED
      BY ZenonT(30), <3>1, <1>9
  <2> QED
    BY <2>1, <1>1, <1>3, <1>9, <1>10, ZenonT(30) DEF BridgeTyped
<1>12. \A e \in Entities : rVal[e] <= rVal'[e]
  BY <1>1, <1>3, TypesOf
<1> QED
  BY <1>3, <1>5, <1>6, <1>7, <1>8, <1>9, <1>10, <1>11, <1>12, QuietKeeps, ZenonT(30) DEF Typed, MirrorStutters

\* A set of numbers has a least member. The proof needs the library, which would be in
\* the way of every other proof: it is at the end (LeastMember).
WellOrdered == \A T \in SUBSET Nat : T # {} => \E k \in T : \A j \in T : k <= j

\* A push sends the leaf's value, or the one it waits for again.
LEMMA PushIs ==
  ASSUME MirrorInv, WellOrdered, SendState \/ RetryState
  PROVE  \E e \in Entities, v \in 1 .. MaxValue, n \in Nat :
           PushState(e, v, n) /\ Newest(e, v) /\ (e \in rDirty \/ (rPend.on /\ e = rPend.entity))
<1>1. LinkTyped /\ LeafTyped /\ BridgeTyped /\ Typed /\ \A e \in Entities : InOrder(e)
  BY Zenon DEF MirrorInv, Typed
<1>2. rVal \in [Entities -> 1 .. MaxValue] /\ MaxValue \in Nat
  BY <1>1, StateAssumption, ZenonT(30) DEF LeafTyped
<1>3. ASSUME NEW e \in Entities PROVE Newest(e, rVal[e])
  <2>1. rVal[e] \in 1 .. rVal[e] /\ rVal[e] \in Nat
    BY <1>2
  <2>2. Behind(e, rVal[e])
    BY <1>1, Zenon DEF InOrder, ViewsInOrder
  <2>3. \A w \in HeldIn(bTable, e) : w <= rVal[e]
    BY <1>1, <2>1, SMTT(30) DEF InOrder, HeldInOrder
  <2>4. \A i \in 1 .. Len(up) : StateOf(up[i], e) => up[i].body.msg <= rVal[e]
    BY <1>1, <2>1 DEF InOrder, FramesInOrder
  <2> QED
    BY <2>1, <2>2, <2>3, <2>4, ZenonT(30) DEF Newest
<1>4. CASE SendState
  <2>1. rDirty \subseteq Nat /\ rDirty # {} /\ rDirty \subseteq Entities
    BY <1>4, <1>1, StateAssumption, ZenonT(30) DEF SendState, LeafTyped
  <2>2. \E k \in rDirty : \A j \in rDirty : k <= j
    BY <2>1, Zenon DEF WellOrdered
  <2>5. FirstDirty \in rDirty
    BY <2>2, Zenon DEF FirstDirty
  <2>6. FirstDirty \in Entities /\ rVal[FirstDirty] \in 1 .. MaxValue
    BY Zenon, <2>1, <2>5, <1>2
  <2>7. PushState(FirstDirty, rVal[FirstDirty], 0)
    BY <1>4, Zenon DEF SendState
  <2>8. Newest(FirstDirty, rVal[FirstDirty])
    BY Zenon, <2>6, <1>3
  <2>9. 0 \in Nat
    BY Zenon
  <2> QED
    BY ZenonT(30), <2>5, <2>6, <2>7, <2>8, <2>9
<1>5. CASE RetryState
  <2> DEFINE e == rPend.entity
             v == IF e \in TextEntities THEN rVal[e] ELSE rPend.value
  <2>1. rPend.on /\ e = rPend.entity /\ e \in Entities /\ rPend.retry + 1 \in Nat
    BY <1>5, <1>1 DEF RetryState, LeafTyped
  <2>2. Newest(e, rPend.value)
    BY <2>1, <1>1, ZenonT(30) DEF InOrder, PushInOrder
  <2>3. Newest(e, v)
    BY ZenonT(30), <2>1, <2>2, <1>3
  <2>4. v \in 1 .. MaxValue
    <3>1. v \in 1 .. rVal[e] /\ rVal[e] \in 1 .. MaxValue
      BY <2>1, <2>3, <1>2, Zenon DEF Newest
    <3> HIDE DEF v
    <3> QED
      BY <3>1, <1>2
  <2>5. PushState(e, v, rPend.retry + 1)
    BY <1>5, Zenon DEF RetryState
  <2> HIDE DEF e, v
  <2> QED
    BY ZenonT(30), <2>1, <2>3, <2>4, <2>5
<1> QED
  BY ZenonT(30), <1>4, <1>5

\* It keeps the order.
LEMMA PushMirror ==
  ASSUME MirrorInv, WellOrdered, SendState \/ RetryState
  PROVE  MirrorInv' /\ MirrorStutters
<1>1. LinkTyped /\ LeafTyped /\ BridgeTyped /\ Typed /\ \A e \in Entities : InOrder(e)
  BY Zenon DEF MirrorInv, Typed
<1>2. MaxValue \in Nat
  BY StateAssumption, ZenonT(30)
<1>4. PICK e \in Entities, v \in 1 .. MaxValue, n \in Nat : PushState(e, v, n) /\ Newest(e, v)
  BY ZenonT(30), PushIs
<1>5. /\ UNCHANGED bStates /\ UNCHANGED <<rVal, bKey, rKey, keys>>
  BY Zenon DEF SendState, RetryState, bSession
<1>6. /\ Pushed(e, v)
      /\ up' \in Seq(UpFrames) /\ rTx' \in Int
      /\ hits' \in HitsType /\ hits'.sc = hits.sc
      /\ rPend' \in [on : BOOLEAN, entity : Entities \cup {0}, value : Nat, base : Int, retry : Nat]
      /\ rPend'.on => rPend'.entity \in Entities
      /\ rDirty' \subseteq Entities
  BY <1>1, <1>4, PushEffect, ZenonT(30) DEF HitsType
<1>7. LinkTyped' /\ LeafTyped' /\ BridgeTyped'
  <2>1. LinkTyped'
    BY <1>1, <1>5, <1>6, ZenonT(30) DEF LinkTyped, HitsType
  <2>2. LeafTyped'
    BY <1>1, <1>5, <1>6, Zenon DEF LeafTyped
  <2>3. BridgeTyped'
    BY <1>1, <1>5, ZenonT(30) DEF BridgeTyped, bStates
  <2> QED
    BY ZenonT(30), <2>1, <2>2, <2>3
<1>8. UNCHANGED <<shown, mqtt, seen, apiQ, bTable>>
  BY <1>5, Zenon DEF bStates
<1>9. \A d \in Entities : InOrder(d)'
  <2>1. v \in Nat
    BY <1>2
  <2> QED
    BY <2>1, <1>4, <1>5, <1>6, <1>7, <1>8, PushKeeps, ZenonT(30) DEF Typed
<1> QED
  BY <1>5, <1>6, <1>7, <1>8, <1>9, OrderKept, ZenonT(30) DEF Typed, MirrorStutters

-----------------------------------------------------------------------------
(* The steps that move a view.                                              *)

\* A view s of the entities catches up to values the leaf has had.
CaughtUp(old, new) ==
  \A e \in Entities : old[e] \in Nat /\ new[e] \in Nat /\ old[e] <= new[e] /\ new[e] <= rVal[e]

\* The bridge restarts with no values.
LEMMA RestartMirror ==
  ASSUME MirrorInv, BridgeRestart
  PROVE  MirrorInv' /\ UNCHANGED <<rVal, seen>> /\ shown' = [e \in Entities |-> 0]
<1>1. LinkTyped /\ LeafTyped /\ BridgeTyped /\ Typed
  BY Zenon DEF MirrorInv, Typed
<1>2. hits \in HitsType /\ rTx \in Int /\ rKey \in Nat /\ bKey \in Nat /\ keys \in Nat
  BY <1>1, Zenon DEF LinkTyped, HitsType
<1>3. /\ UNCHANGED <<rVal, rDirty, rPend, sinks, seen, up, rKey, rTx, keys>> /\ bKey' = 0
      /\ hits' = [hits EXCEPT !.forgot = TRUE]
      /\ bTable' = EmptyTable /\ apiQ' = << >> /\ shown' = [e \in Entities |-> 0]
      /\ mqtt' = [e \in Entities |-> [value |-> 0, dirty |-> FALSE, ack |-> NoAck]]
  BY Zenon DEF BridgeRestart, ForgetSession, rSession, rStates
<1>4. hits' \in HitsType /\ hits'.sc = hits.sc
  BY <1>2, <1>3, ZenonT(30) DEF HitsType
<1>5. UpKept /\ up' \in Seq(UpFrames)
  BY Zenon, <1>1, <1>3, PathKept
<1>6. LinkTyped' /\ LeafTyped'
  <2>1. LinkTyped'
    BY <1>2, <1>3, <1>4, <1>5, Zenon DEF LinkTyped, HitsType
  <2>2. LeafTyped'
    BY <1>1, <1>3, Zenon DEF LeafTyped
  <2> QED
    BY Zenon, <2>1, <2>2
<1>7. BridgeTyped'
  <2>1. shown' \in [Entities -> Nat] /\ mqtt' \in [Entities -> [value : Nat, dirty : BOOLEAN, ack : Nat]]
    BY <1>3, Zenon DEF NoAck
  <2>2. apiQ' \in Seq(Receipts)
    BY <1>3
  <2> QED
    BY <2>1, <2>2, <1>1, <1>3, EmptyHolds, ZenonT(30) DEF BridgeTyped
<1>8. ASSUME NEW e \in Entities PROVE NothingNew(e)
  <2>1. rVal[e] <= rVal'[e] /\ \A s \in Sinks : seen'[s][e] <= seen[s][e]
    BY SMTT(30), <1>1, <1>3, TypesOf
  <2>2. shown'[e] = 0 /\ mqtt'[e].value = 0 /\ ~mqtt'[e].dirty
    BY Zenon, <1>3
  <2>3. FramesKept(e)
    BY <1>5, Zenon DEF UpKept, FramesKept, StateOf
  <2>4. HeldIn(bTable', e) \subseteq HeldIn(bTable, e)
    BY Zenon, <1>3, EmptyHolds
  <2> QED
    BY <2>1, <2>2, <2>3, <2>4, <1>3, ZenonT(30) DEF NothingNew, PushKept, ApiKept
<1> QED
  BY <1>3, <1>4, <1>6, <1>7, <1>8, OrderKept, ZenonT(30) DEF Typed

\* The bridge gives a view what it has: only the sinks' views and their queues change.
LEMMA ViewStep ==
  ASSUME MirrorInv, BridgeTyped', UNCHANGED <<rStates, bKey, rKey, keys, rTx, up, hits, bTable, shown>>,
         \A e \in Entities :
           /\ \A s \in Sinks : seen'[s][e] = seen[s][e] \/ seen'[s][e] <= shown[e]
           /\ mqtt'[e].value = mqtt[e].value
           /\ mqtt'[e].dirty => mqtt[e].dirty \/ mqtt[e].value # 0
           /\ ApiKept(e)
  PROVE  MirrorInv'
<1>1. LinkTyped /\ LeafTyped /\ BridgeTyped /\ Typed
  BY Zenon DEF MirrorInv, Typed
<1>2. LinkTyped' /\ LeafTyped'
  BY <1>1, Zenon DEF LinkTyped, LeafTyped, rStates
<1>3. UpKept
  BY Zenon, <1>1, PathKept
<1>4. ASSUME NEW e \in Entities PROVE NothingNew(e)
  <2>1. InOrder(e) /\ rVal' = rVal /\ rPend' = rPend
    BY Zenon DEF MirrorInv, rStates
  <2>2. rVal[e] \in Nat /\ \A s \in Sinks : seen[s][e] \in Nat
    BY ZenonT(30), <1>1, TypesOf
  <2>3. rVal[e] <= rVal'[e] /\ \A s \in Sinks : seen'[s][e] <= seen[s][e] \/ seen'[s][e] <= shown[e]
    BY <2>1, <2>2
  <2>4. mqtt[e].value = shown[e] /\ (mqtt[e].dirty => shown[e] # 0)
    BY <2>1, Zenon DEF InOrder, ViewsInOrder
  <2>5. mqtt'[e].value = shown'[e] /\ (mqtt'[e].dirty => shown'[e] # 0)
    BY Zenon, <2>4
  <2>6. FramesKept(e)
    BY <1>3, Zenon DEF UpKept, FramesKept, StateOf
  <2> QED
    BY <2>1, <2>3, <2>5, <2>6, ZenonT(30) DEF NothingNew, PushKept
<1> QED
  BY <1>1, <1>2, <1>4, OrderKept, ZenonT(30) DEF Typed

\* A value published to MQTT.
LEMMA MqttMirror ==
  ASSUME MirrorInv, NEW e \in Entities, MqttPublish(e)
  PROVE  /\ MirrorInv' /\ UNCHANGED <<rVal, shown>>
         /\ seen' = [seen EXCEPT !["MQTT"] = seen'["MQTT"]]
         /\ CaughtUp(seen["MQTT"], seen'["MQTT"])
<1>1. BridgeTyped /\ Typed /\ InOrder(e)
  BY Zenon DEF MirrorInv, Typed
<1>2. /\ UNCHANGED <<rStates, bKey, rKey, keys, rTx, up, hits, bTable, shown, apiQ, sinks>>
      /\ seen' = [seen EXCEPT !["MQTT"][e] = mqtt[e].value]
      /\ mqtt' = [mqtt EXCEPT ![e].dirty = FALSE, ![e].ack = NoAck] /\ mqtt[e].dirty
  BY Zenon DEF MqttPublish, rSession
<1>3. /\ mqtt \in [Entities -> [value : Nat, dirty : BOOLEAN, ack : Nat]]
      /\ seen \in [Sinks -> [Entities -> Nat]] /\ "MQTT" \in Sinks /\ "API" \in Sinks
  BY <1>1, Zenon DEF BridgeTyped, Sinks
<1>4. /\ mqtt' \in [Entities -> [value : Nat, dirty : BOOLEAN, ack : Nat]]
      /\ \A d \in Entities : mqtt'[d].value = mqtt[d].value
  BY <1>2, <1>3, ZenonT(30) DEF NoAck
<1>5. \A d \in Entities : mqtt'[d].dirty => mqtt[d].dirty
  <2>1. \A d \in Entities \ {e} : mqtt'[d] = mqtt[d]
    BY ZenonT(30), <1>2, <1>3
  <2>2. ~mqtt'[e].dirty
    BY Zenon, <1>2, <1>3
  <2> QED
    BY Zenon, <2>1, <2>2
<1>6. /\ seen' \in [Sinks -> [Entities -> Nat]] /\ seen'["API"] = seen["API"]
      /\ seen'["MQTT"] = [seen["MQTT"] EXCEPT ![e] = mqtt[e].value]
      /\ seen' = [seen EXCEPT !["MQTT"] = seen'["MQTT"]]
  <2>1. mqtt[e].value \in Nat
    BY Zenon, <1>3
  <2> QED
    BY ZenonT(30), <2>1, <1>2, <1>3
<1>7. mqtt[e].value = shown[e] /\ shown[e] # 0 /\ shown[e] \in Nat
  <2>1. mqtt[e].value = shown[e] /\ shown[e] # 0
    BY <1>1, <1>2, Zenon DEF InOrder, ViewsInOrder
  <2> QED
    BY Zenon, <2>1, <1>1, TypesOf
<1>8. BridgeTyped'
  BY <1>1, <1>2, <1>4, <1>6, ZenonT(30) DEF BridgeTyped
<1>9. ASSUME NEW d \in Entities
      PROVE  /\ \A s \in Sinks : seen'[s][d] = seen[s][d] \/ seen'[s][d] <= shown[d]
             /\ ApiKept(d)
  <2>1. seen'["API"][d] = seen["API"][d]
    BY ZenonT(30), <1>6
  <2>2. seen'["MQTT"][d] = seen["MQTT"][d] \/ (d = e /\ seen'["MQTT"][d] = shown[d] /\ shown[d] <= shown[d])
    BY SMTT(30), <1>3, <1>6, <1>7
  <2>3. \A s \in Sinks : seen'[s][d] = seen[s][d] \/ seen'[s][d] <= shown[d]
    BY <2>1, <2>2 DEF Sinks
  <2> QED
    BY <2>1, <2>3, <1>2, Zenon DEF ApiKept
<1>10. MirrorInv'
  BY ZenonT(30), <1>2, <1>4, <1>5, <1>8, <1>9, ViewStep
<1>11. CaughtUp(seen["MQTT"], seen'["MQTT"])
  <2> SUFFICES ASSUME NEW d \in Entities
               PROVE  /\ seen["MQTT"][d] \in Nat /\ seen'["MQTT"][d] \in Nat
                      /\ seen["MQTT"][d] <= seen'["MQTT"][d] /\ seen'["MQTT"][d] <= rVal[d]
    BY Zenon DEF CaughtUp
  <2>1. InOrder(d) /\ Typed
    BY Zenon DEF MirrorInv
  <2>2. rVal[d] \in Nat /\ shown[d] \in Nat /\ seen["MQTT"][d] \in Nat
    BY Zenon, <2>1, <1>3, TypesOf
  <2>3. seen["MQTT"][d] <= rVal[d] /\ shown[d] <= rVal[d]
    BY <2>1, <1>3, ZenonT(30) DEF InOrder, ViewsInOrder, Behind
  <2>4. CASE d # e
    BY SMTT(30), <2>2, <2>3, <2>4, <1>3, <1>6
  <2>5. CASE d = e
    <3>1. seen'["MQTT"][d] = shown[d]
      BY ZenonT(30), <2>5, <1>3, <1>6, <1>7
    <3>2. seen["MQTT"][d] <= shown[d]
      BY <2>5, <1>1, <1>3, <1>7, ZenonT(30) DEF InOrder, ViewsInOrder
    <3> QED
      BY ZenonT(30), <3>1, <3>2, <2>2, <2>3
  <2> QED
    BY ZenonT(30), <2>4, <2>5
<1> QED
  BY <1>2, <1>6, <1>10, <1>11, ZenonT(30) DEF rStates

\* A value the API client takes.
LEMMA ApiMirror ==
  ASSUME MirrorInv, ApiReceipt
  PROVE  /\ MirrorInv' /\ UNCHANGED <<rVal, shown>>
         /\ seen' = [seen EXCEPT !["API"] = seen'["API"]]
         /\ CaughtUp(seen["API"], seen'["API"])
<1>1. BridgeTyped /\ Typed
  BY Zenon DEF MirrorInv, Typed
<1>2. /\ apiQ \in Seq(Receipts) /\ apiQ # << >>
      /\ seen \in [Sinks -> [Entities -> Nat]] /\ "MQTT" \in Sinks /\ "API" \in Sinks
  BY <1>1, Zenon DEF BridgeTyped, Sinks, ApiReceipt
<1>3. PICK m \in Receipts : m = apiQ[1] /\ Head(apiQ) = m
  BY Zenon, <1>2, TailElements
<1>4. /\ UNCHANGED <<rStates, bKey, rKey, keys, rTx, up, hits, bTable, shown, mqtt, sinks>>
      /\ seen' = [seen EXCEPT !["API"][m.entity] = m.value]
      /\ apiQ' = Tail(apiQ)
  BY <1>3, Zenon DEF ApiReceipt, rSession
<1>5. m.entity \in Entities /\ m.value \in Nat
  BY <1>3, Zenon DEF Receipts
<1>6. /\ seen' \in [Sinks -> [Entities -> Nat]] /\ seen'["MQTT"] = seen["MQTT"]
      /\ seen'["API"] = [seen["API"] EXCEPT ![m.entity] = m.value]
      /\ seen' = [seen EXCEPT !["API"] = seen'["API"]]
  BY ZenonT(30), <1>2, <1>4, <1>5
<1>7. BridgeTyped'
  <2>1. apiQ' \in Seq(Receipts)
    BY ZenonT(30), <1>2, <1>4, TailElements
  <2>2. "API" \notin sinks' => apiQ' = << >>
    BY <1>1, <1>2, <1>4, ZenonT(30) DEF BridgeTyped
  <2> QED
    BY <2>1, <2>2, <1>1, <1>4, <1>6, ZenonT(30) DEF BridgeTyped
<1>8. /\ seen["API"][m.entity] <= m.value /\ m.value <= shown[m.entity]
  <2>1. InOrder(m.entity)
    BY <1>5, Zenon DEF MirrorInv
  <2>2. 1 \in 1 .. Len(apiQ)
    BY <1>2
  <2> QED
    BY <2>1, <2>2, <1>3, Zenon DEF InOrder, ApiInOrder
<1>9. ASSUME NEW d \in Entities
      PROVE  /\ \A s \in Sinks : seen'[s][d] = seen[s][d] \/ seen'[s][d] <= shown[d]
             /\ ApiKept(d)
  <2>1. seen'["MQTT"][d] = seen["MQTT"][d]
    BY Zenon, <1>6
  <2>2. seen'["API"][d] = IF m.entity = d THEN m.value ELSE seen["API"][d]
    BY ZenonT(30), <1>2, <1>6
  <2>3. \A s \in Sinks : seen'[s][d] = seen[s][d] \/ seen'[s][d] <= shown[d]
    BY <2>1, <2>2, <1>8, Zenon DEF Sinks
  <2> QED
    BY <2>2, <2>3, <1>2, <1>3, <1>4, ZenonT(30) DEF ApiKept
<1>10. MirrorInv'
  BY ZenonT(30), <1>4, <1>7, <1>9, ViewStep
<1>11. CaughtUp(seen["API"], seen'["API"])
  <2> SUFFICES ASSUME NEW d \in Entities
               PROVE  /\ seen["API"][d] \in Nat /\ seen'["API"][d] \in Nat
                      /\ seen["API"][d] <= seen'["API"][d] /\ seen'["API"][d] <= rVal[d]
    BY Zenon DEF CaughtUp
  <2>1. InOrder(d) /\ Typed
    BY Zenon DEF MirrorInv
  <2>2. rVal[d] \in Nat /\ shown[d] \in Nat /\ seen["API"][d] \in Nat
    BY Zenon, <2>1, <1>2, TypesOf
  <2>3. seen["API"][d] <= rVal[d] /\ shown[d] <= rVal[d]
    BY <2>1, <1>2, Zenon DEF InOrder, ViewsInOrder, Behind
  <2>4. seen'["API"][d] = IF m.entity = d THEN m.value ELSE seen["API"][d]
    BY ZenonT(30), <1>2, <1>6
  <2> QED
    BY SMTT(30), <2>2, <2>3, <2>4, <1>5, <1>8
<1> QED
  BY <1>4, <1>6, <1>10, <1>11, ZenonT(30) DEF rStates

\* A sink that is back: MQTT is given everything again in later steps, an API
\* client at once.
LEMMA SinkUpMirror ==
  ASSUME MirrorInv, NEW s \in Sinks, SinkUp(s)
  PROVE  /\ MirrorInv' /\ UNCHANGED <<rVal, shown>>
         /\ seen' = [seen EXCEPT !["API"] = seen'["API"]]
         /\ CaughtUp(seen["API"], seen'["API"])
<1>1. BridgeTyped /\ Typed
  BY Zenon DEF MirrorInv, Typed
<1>2. /\ shown \in [Entities -> Nat] /\ mqtt \in [Entities -> [value : Nat, dirty : BOOLEAN, ack : Nat]]
      /\ seen \in [Sinks -> [Entities -> Nat]] /\ "MQTT" \in Sinks /\ "API" \in Sinks
  BY <1>1, Zenon DEF BridgeTyped, Sinks
<1>3. /\ UNCHANGED <<rStates, bKey, rKey, keys, rTx, up, hits, bTable, shown, apiQ>>
      /\ s \notin sinks /\ sinks' = sinks \cup {s}
      /\ mqtt' = IF s = "MQTT" THEN [e \in Entities |-> [mqtt[e] EXCEPT !.dirty = mqtt[e].value > 0]] ELSE mqtt
      /\ seen' = IF s = "API"
                   THEN [seen EXCEPT !["API"] = [e \in Entities |-> IF shown[e] = 0 THEN @[e] ELSE shown[e]]]
                   ELSE seen
  BY Zenon DEF SinkUp, pairVars, bSession, rSession, path
<1>4. /\ mqtt' \in [Entities -> [value : Nat, dirty : BOOLEAN, ack : Nat]]
      /\ \A e \in Entities : mqtt'[e].value = mqtt[e].value
  <2>1. CASE s # "MQTT"
    BY Zenon, <2>1, <1>2, <1>3
  <2>2. CASE s = "MQTT"
    <3>1. mqtt' = [e \in Entities |-> [mqtt[e] EXCEPT !.dirty = mqtt[e].value > 0]]
      BY ZenonT(30), <2>2, <1>3
    <3>2. \A e \in Entities : /\ [mqtt[e] EXCEPT !.dirty = mqtt[e].value > 0] \in [value : Nat, dirty : BOOLEAN, ack : Nat]
                             /\ [mqtt[e] EXCEPT !.dirty = mqtt[e].value > 0].value = mqtt[e].value
      <4>1. ASSUME NEW x \in [value : Nat, dirty : BOOLEAN, ack : Nat], NEW b \in BOOLEAN
            PROVE  [x EXCEPT !.dirty = b] \in [value : Nat, dirty : BOOLEAN, ack : Nat] /\ [x EXCEPT !.dirty = b].value = x.value
        BY Zenon
      <4>2. \A e \in Entities : mqtt[e] \in [value : Nat, dirty : BOOLEAN, ack : Nat] /\ (mqtt[e].value > 0) \in BOOLEAN
        BY <1>2
      <4> QED
        BY ZenonT(30), <4>1, <4>2
    <3> QED
      BY Zenon, <3>1, <3>2
  <2> QED
    BY Zenon, <2>1, <2>2
<1>5. \A e \in Entities : mqtt'[e].dirty => mqtt[e].dirty \/ mqtt[e].value # 0
  <2>1. CASE s # "MQTT"
    BY Zenon, <2>1, <1>3
  <2>2. CASE s = "MQTT"
    <3> SUFFICES ASSUME NEW e \in Entities PROVE mqtt'[e].dirty => mqtt[e].value # 0
      BY Zenon
    <3>1. mqtt'[e] = [mqtt[e] EXCEPT !.dirty = mqtt[e].value > 0] /\ mqtt[e] \in [value : Nat, dirty : BOOLEAN, ack : Nat]
      BY Zenon, <2>2, <1>2, <1>3
    <3>2. mqtt'[e].dirty = (mqtt[e].value > 0)
      BY Zenon, <3>1
    <3>3. (mqtt[e].value > 0) => mqtt[e].value # 0
      BY <3>1
    <3> QED
      BY Zenon, <3>2, <3>3
  <2> QED
    BY Zenon, <2>1, <2>2
<1>6. /\ seen' \in [Sinks -> [Entities -> Nat]] /\ seen'["MQTT"] = seen["MQTT"]
      /\ \/ seen'["API"] = seen["API"]
         \/ s = "API" /\ seen'["API"] = [e \in Entities |-> IF shown[e] = 0 THEN seen["API"][e] ELSE shown[e]]
      /\ seen' = [seen EXCEPT !["API"] = seen'["API"]]
  <2>1. CASE s # "API"
    BY ZenonT(30), <2>1, <1>2, <1>3
  <2>2. CASE s = "API"
    <3>1. seen' = [seen EXCEPT !["API"] = [e \in Entities |-> IF shown[e] = 0 THEN seen["API"][e] ELSE shown[e]]]
      BY Zenon, <2>2, <1>3
    <3>2. [e \in Entities |-> IF shown[e] = 0 THEN seen["API"][e] ELSE shown[e]] \in [Entities -> Nat]
      BY Zenon, <1>2
    <3> QED
      BY ZenonT(30), <3>1, <3>2, <2>2, <1>2
  <2> QED
    BY Zenon, <2>1, <2>2
<1>7. BridgeTyped'
  <2>1. sinks' \subseteq Sinks /\ ("API" \notin sinks' => apiQ' = << >>)
    BY <1>1, <1>3, Zenon DEF BridgeTyped
  <2> QED
    BY <2>1, <1>1, <1>3, <1>4, <1>6, ZenonT(30) DEF BridgeTyped
<1>8. ASSUME NEW d \in Entities
      PROVE  /\ \A v \in Sinks : seen'[v][d] = seen[v][d] \/ seen'[v][d] <= shown[d]
             /\ ApiKept(d)
  <2>1. seen'["API"][d] = seen["API"][d] \/ (s = "API" /\ seen'["API"][d] = shown[d] /\ shown[d] <= shown[d])
    BY SMTT(30), <1>2, <1>6
  <2>2. \A v \in Sinks : seen'[v][d] = seen[v][d] \/ seen'[v][d] <= shown[d]
    BY <2>1, <1>6 DEF Sinks
  <2>3. s = "API" => apiQ' = << >>
    BY <1>1, <1>3, Zenon DEF BridgeTyped
  <2> QED
    BY <2>1, <2>2, <2>3, <1>3, ZenonT(30) DEF ApiKept
<1>9. MirrorInv'
  BY ZenonT(30), <1>3, <1>4, <1>5, <1>7, <1>8, ViewStep
<1>10. CaughtUp(seen["API"], seen'["API"])
  <2> SUFFICES ASSUME NEW d \in Entities
               PROVE  /\ seen["API"][d] \in Nat /\ seen'["API"][d] \in Nat
                      /\ seen["API"][d] <= seen'["API"][d] /\ seen'["API"][d] <= rVal[d]
    BY Zenon DEF CaughtUp
  <2>1. InOrder(d) /\ Typed
    BY Zenon DEF MirrorInv
  <2>2. rVal[d] \in Nat /\ shown[d] \in Nat /\ seen["API"][d] \in Nat
    BY Zenon, <2>1, <1>2, TypesOf
  <2>3. seen["API"][d] <= rVal[d] /\ shown[d] <= rVal[d] /\ (shown[d] # 0 => seen["API"][d] <= shown[d])
    BY <2>1, <1>2, Zenon DEF InOrder, ViewsInOrder, Behind
  <2>4. seen'["API"][d] = seen["API"][d] \/ (shown[d] # 0 /\ seen'["API"][d] = shown[d])
    BY Zenon, <1>6
  <2> QED
    BY <2>2, <2>3, <2>4
<1> QED
  BY <1>3, <1>6, <1>9, <1>10, ZenonT(30) DEF rStates

\* A STATE frame at the bridge.
LEMMA StateMirror ==
  ASSUME MirrorInv, HandleState
  PROVE  /\ MirrorInv' /\ UNCHANGED <<rVal, seen>>
         /\ CaughtUp(shown, shown')
<1>1. LinkTyped /\ LeafTyped /\ BridgeTyped /\ Typed /\ \A d \in Entities : InOrder(d)
  BY Zenon DEF MirrorInv, Typed
<1>2. /\ UNCHANGED <<rVal, rDirty, rPend, bKey, rKey, keys, rTx, hits, sinks, seen>>
      /\ Shifted /\ Head(up).kind = "STATE"
  BY Zenon DEF HandleState, UpIs, Shifted, rSession, rStates
<1>3. PICK x \in UpFrames : x = up[1] /\ Head(up) = x
  BY <1>1, <1>2, TailElements, Zenon DEF LinkTyped, Shifted
<1>4. x.body \in StateBody /\ x.tx \in Int /\ x.kind = "STATE"
  BY <1>2, <1>3, Zenon DEF UpFrames
<1>5. PICK e \in Entities : e = x.body.entity /\ StateOf(up[1], e)
  BY <1>3, <1>4, Zenon DEF StateBody, StateOf
<1>6. PICK m \in Nat : m = x.body.msg /\ m = up[1].body.msg
  BY <1>3, <1>4, Zenon DEF StateBody
<1>7. UpKept /\ LinkTyped' /\ LeafTyped'
  <2>1. UpKept /\ up' \in Seq(UpFrames)
    BY <1>1, <1>2, PathKept, Zenon DEF Shifted
  <2>2. LinkTyped'
    BY <2>1, <1>1, <1>2, Zenon DEF LinkTyped
  <2>3. LeafTyped'
    BY <1>1, <1>2, ZenonT(30) DEF LeafTyped
  <2> QED
    BY ZenonT(30), <2>1, <2>2, <2>3
<1>8. ASSUME NEW d \in Entities PROVE shown[d] \in Nat /\ rVal[d] \in Nat /\ shown[d] <= rVal[d] /\ rVal[d] <= rVal'[d]
  <2>1. shown[d] \in Nat /\ rVal[d] \in Nat
    BY ZenonT(30), <1>1, TypesOf
  <2>2. shown[d] <= rVal[d]
    BY <1>1, Zenon DEF InOrder, ViewsInOrder, Behind
  <2> QED
    BY <2>1, <2>2, <1>2
<1>9. CASE UNCHANGED <<bTable, shown, mqtt, apiQ>>
  <2>1. BridgeTyped'
    BY <1>1, <1>2, <1>9, ZenonT(30) DEF BridgeTyped
  <2>2. MirrorInv'
    BY <2>1, <1>2, <1>7, <1>8, <1>9, QuietKeeps, ZenonT(30) DEF Typed
  <2>3. CaughtUp(shown, shown')
    BY <1>8, <1>9, SMTT(30) DEF CaughtUp
  <2> QED
    BY ZenonT(30), <2>2, <2>3, <1>2
<1> DEFINE base == MessageTxBase(x.tx, x.body.index)
           f == [entity |-> e, index |-> x.body.index, count |-> x.body.count,
                 base |-> base, flag |-> FALSE, msg |-> m]
<1>10. base \in Nat /\ f \in FragmentType /\ f.entity = e /\ f.msg = m
  <2>1. base \in Nat
    <3>1. x.tx - x.body.index \in Int /\ CounterSpan \in Nat \ {0}
      BY <1>4, AssemblyAssumption DEF StateBody
    <3> QED
      BY <3>1, SMTT(30) DEF MessageTxBase
  <2> HIDE DEF base
  <2> QED
    BY <2>1, <1>4, ZenonT(30) DEF FragmentType, StateBody
<1>11. ASSUME NEW r, r = Receive(bTable, f, TRUE), bTable' = r.table,
              \/ r.done /\ \E v \in r.whole : Publish(e, v, base)
              \/ ~r.done /\ UNCHANGED <<shown, mqtt, apiQ>>
       PROVE  MirrorInv' /\ CaughtUp(shown, shown')
  <2> HIDE DEF f, base
  <2>1. /\ bTable' \in Tables /\ r.done \in BOOLEAN
        /\ \A d \in Entities \ {e} : HeldIn(bTable', d) = HeldIn(bTable, d)
        /\ HeldIn(bTable', e) \subseteq HeldIn(bTable, e) \cup {m}
        /\ r.done => /\ HeldIn(bTable', e) = {}
                     /\ r.whole \subseteq HeldIn(bTable, e) \cup {m}
    <3>1. bTable \in Tables
      BY <1>1, Zenon DEF BridgeTyped
    <3>2. f \in FragmentType /\ f.entity = e /\ f.msg = m /\ r = Receive(bTable, f, TRUE)
      BY Zenon, <1>10, <1>11
    <3>3. ASSUME NEW d \in Entities, d # f.entity PROVE r.table.asm[d] = bTable.asm[d]
      BY ONLY ZenonT(30), <3>1, <3>2, <3>3, ReceiveOthers
    <3>4. /\ r.table \in Tables
          /\ r.done \in BOOLEAN
          /\ HeldIn(r.table, f.entity) \subseteq HeldIn(bTable, f.entity) \cup {f.msg}
          /\ r.done => /\ HeldIn(r.table, f.entity) = {}
                       /\ r.whole \subseteq HeldIn(bTable, f.entity) \cup {f.msg}
      BY ONLY Zenon, <3>1, <3>2, ReceiveEffect
    <3>5. \A d \in Entities \ {e} : HeldIn(bTable', d) = HeldIn(bTable, d)
      BY <3>2, <3>3, <1>11, ZenonT(30) DEF HeldIn
    <3> QED
      BY ZenonT(30), <3>2, <3>4, <3>5, <1>11
  <2>2. Assembling(e, m) \/ Publishing(e, m)
    BY <2>1, <1>10, <1>11, ZenonT(30) DEF Assembling, Publishing, Publish
  <2>3. BridgeTyped'
    <3>1. CASE Assembling(e, m)
      BY <3>1, <2>1, <1>1, <1>2, ZenonT(30) DEF BridgeTyped, Assembling
    <3>2. CASE Publishing(e, m)
      <4>1. PICK v \in HeldIn(bTable, e) \cup {m}, b \in Nat :
              /\ shown' = [shown EXCEPT ![e] = v]
              /\ mqtt' = [mqtt EXCEPT ![e] = [value |-> v, dirty |-> TRUE, ack |-> b]]
              /\ apiQ' = IF "API" \in sinks THEN
                           Append(apiQ, [entity |-> e, value |-> v, base |-> b, key |-> bKey])
                         ELSE apiQ
        BY <3>2, Zenon DEF Publishing
      <4>2. v \in Nat /\ bKey \in Nat
        BY <1>1, TypesOf, Zenon DEF LinkTyped
      <4>3. shown' \in [Entities -> Nat] /\ mqtt' \in [Entities -> [value : Nat, dirty : BOOLEAN, ack : Nat]]
        BY <4>1, <4>2, <1>1, ZenonT(30) DEF BridgeTyped
      <4>4. apiQ' \in Seq(Receipts)
        <5>1. [entity |-> e, value |-> v, base |-> b, key |-> bKey] \in Receipts
          BY <4>2, Zenon DEF Receipts
        <5> QED
          BY <5>1, <4>1, <1>1 DEF BridgeTyped
      <4>5. "API" \notin sinks' => apiQ' = << >>
        BY <4>1, <1>1, <1>2, ZenonT(30) DEF BridgeTyped
      <4> QED
        BY <4>3, <4>4, <4>5, <2>1, <1>1, <1>2, ZenonT(30) DEF BridgeTyped
    <3> QED
      BY Zenon, <2>2, <3>1, <3>2
  <2>4. Typed' /\ hits'.sc = hits.sc
    BY <2>3, <1>2, <1>7, Zenon DEF Typed
  <2>5. InOrder(e)' /\ shown[e] <= shown'[e] /\ shown'[e] <= rVal[e]
    <3>1. CASE Assembling(e, m)
      <4>1. InOrder(e)'
        BY ZenonT(30), <3>1, <2>4, <1>1, <1>2, <1>5, <1>6, AssemblingKeeps
      <4>2. shown' = shown
        BY <3>1, Zenon DEF Assembling
      <4> QED
        BY <4>1, <4>2, <1>8
    <3>2. CASE Publishing(e, m)
      BY ZenonT(30), <3>2, <2>4, <1>1, <1>2, <1>5, <1>6, PublishingKeeps
    <3> QED
      BY ZenonT(30), <2>2, <3>1, <3>2
  <2>6. ASSUME NEW d \in Entities, d # e PROVE NothingNew(d) /\ shown'[d] = shown[d]
    <3>1. /\ shown'[d] = shown[d] /\ mqtt'[d] = mqtt[d]
      <4>1. CASE Assembling(e, m)
        BY <4>1, Zenon DEF Assembling
      <4>2. CASE Publishing(e, m)
        BY <4>2, <2>6, <1>1, Zenon DEF Publishing, BridgeTyped
      <4> QED
        BY Zenon, <2>2, <4>1, <4>2
    <3>2. ApiKept(d)
      <4>1. CASE apiQ' = apiQ
        BY <4>1, <1>2, Zenon DEF ApiKept
      <4>2. ASSUME NEW x2 \in Receipts, x2.entity = e, apiQ' = Append(apiQ, x2) PROVE ApiKept(d)
        BY <4>2, <2>6, <1>2, Zenon DEF ApiKept
      <4>3. CASE Publishing(e, m) /\ apiQ' # apiQ
        <5>1. PICK v \in HeldIn(bTable, e) \cup {m}, b \in Nat :
                apiQ' = Append(apiQ, [entity |-> e, value |-> v, base |-> b, key |-> bKey])
          BY <4>3, Zenon DEF Publishing
        <5>2. v \in Nat /\ bKey \in Nat
          BY <1>1, TypesOf, Zenon DEF LinkTyped
        <5>3. /\ [entity |-> e, value |-> v, base |-> b, key |-> bKey] \in Receipts
              /\ [entity |-> e, value |-> v, base |-> b, key |-> bKey].entity = e
          BY <5>2, ZenonT(30) DEF Receipts
        <5> QED
          BY ZenonT(30), <5>1, <5>3, <4>2
      <4> QED
        BY <2>2, <4>1, <4>3, Zenon DEF Assembling
    <3>3. \A s \in Sinks : seen'[s][d] <= seen[s][d]
      BY <1>1, <1>2, TypesOf
    <3>4. mqtt'[d].value = shown'[d] /\ (mqtt'[d].dirty => shown'[d] # 0)
      BY <3>1, <1>1, Zenon DEF InOrder, ViewsInOrder
    <3>5. FramesKept(d)
      BY <1>7, Zenon DEF UpKept, FramesKept, StateOf
    <3>6. HeldIn(bTable', d) \subseteq HeldIn(bTable, d)
      BY Zenon, <2>1, <2>6
    <3> QED
      BY <3>1, <3>2, <3>3, <3>4, <3>5, <3>6, <1>2, <1>8, ZenonT(30) DEF NothingNew, PushKept
  <2>7. MirrorInv'
    BY ZenonT(30), <2>4, <2>5, <2>6, OrderKept
  <2>8. CaughtUp(shown, shown')
    <3> SUFFICES ASSUME NEW d \in Entities
                 PROVE  /\ shown[d] \in Nat /\ shown'[d] \in Nat
                        /\ shown[d] <= shown'[d] /\ shown'[d] <= rVal[d]
      BY Zenon DEF CaughtUp
    <3>1. shown'[d] \in Nat
      BY <2>3, Zenon DEF BridgeTyped
    <3>2. CASE d = e
      BY ZenonT(30), <3>1, <3>2, <2>5, <1>8
    <3>3. CASE d # e
      BY SMTT(30), <3>1, <3>3, <2>6, <1>8
    <3> QED
      BY Zenon, <3>2, <3>3
  <2> QED
    BY Zenon, <2>7, <2>8
<1>12. CASE ~ UNCHANGED <<bTable, shown, mqtt, apiQ>>
  <2>1. x.key = bKey /\ StateFragment(x)
    BY <1>3, <1>12, Zenon DEF HandleState
  <2>2. \E r \in {Receive(bTable, f, TRUE)} :
          /\ bTable' = r.table
          /\ IF r.done THEN \E v \in r.whole : Publish(e, v, base) ELSE UNCHANGED <<shown, mqtt, apiQ>>
    BY <2>1, <1>5, <1>6, <1>12, ZenonT(30) DEF StateFragment
  <2> HIDE DEF f, base
  <2>3. PICK r : /\ r = Receive(bTable, f, TRUE) /\ bTable' = r.table
                 /\ IF r.done THEN \E v \in r.whole : Publish(e, v, base) ELSE UNCHANGED <<shown, mqtt, apiQ>>
    BY Zenon, <2>2
  <2> QED
    BY ZenonT(30), <2>3, <1>2, <1>11
<1> QED
  BY Zenon, <1>9, <1>12

-----------------------------------------------------------------------------
(* The refinement.                                                          *)

\* One view that catches up is a step of the mirror.
LEMMA CatchUpStep ==
  ASSUME UNCHANGED rVal,
         \/ UNCHANGED seen /\ CaughtUp(shown, shown')
         \/ /\ UNCHANGED shown
            /\ \E s \in Sinks : seen' = [seen EXCEPT ![s] = seen'[s]] /\ CaughtUp(seen[s], seen'[s]),
         seen \in [Sinks -> [Entities -> Nat]]
  PROVE  MirrorStep
<1> DEFINE V == {"BRIDGE", "MQTT", "API"}
           view == [s \in V |-> IF s = "BRIDGE" THEN shown ELSE seen[s]]
           next == [s \in V |-> IF s = "BRIDGE" THEN shown' ELSE seen'[s]]
<1>1. SUFFICES \E s \in V : /\ \A e \in Entities : next[s][e] \in view[s][e] .. rVal[e]
                            /\ next = [view EXCEPT ![s] = next[s]]
  BY Zenon DEF MirrorStep, Mirror!Next, Mirror!CatchUp
<1>2. CASE UNCHANGED seen /\ CaughtUp(shown, shown')
  <2>1. view["BRIDGE"] = shown /\ next["BRIDGE"] = shown'
    BY Zenon
  <2>2. next = [view EXCEPT !["BRIDGE"] = next["BRIDGE"]]
    BY ZenonT(30), <1>2
  <2>3. \A e \in Entities : shown'[e] \in shown[e] .. rVal[e]
    BY <1>2 DEF CaughtUp
  <2> HIDE DEF view, next
  <2> QED
    BY Zenon, <2>1, <2>2, <2>3
<1>3. ASSUME UNCHANGED shown, NEW s \in Sinks, seen' = [seen EXCEPT ![s] = seen'[s]], CaughtUp(seen[s], seen'[s])
      PROVE  \E u \in V : /\ \A e \in Entities : next[u][e] \in view[u][e] .. rVal[e]
                          /\ next = [view EXCEPT ![u] = next[u]]
  <2>1. s \in V /\ view[s] = seen[s] /\ next[s] = seen'[s]
    BY Zenon DEF Sinks
  <2>2. next = [view EXCEPT ![s] = next[s]]
    <3>1. \A u \in Sinks \ {s} : seen'[u] = seen[u]
      BY Zenon, <1>3
    <3>2. \A u \in V : next[u] = [view EXCEPT ![s] = next[s]][u]
      BY <3>1, <2>1, <1>3, ZenonT(30) DEF Sinks
    <3> QED
      BY Zenon, <3>2
  <2>3. \A e \in Entities : seen'[s][e] \in seen[s][e] .. rVal[e]
    BY <1>3 DEF CaughtUp
  <2> HIDE DEF view, next
  <2> QED
    BY Zenon, <2>1, <2>2, <2>3
<1> QED
  BY Zenon, <1>2, <1>3

\* The initial states are initial states of the mirror.
LEMMA MirrorStart ==
  ASSUME Init, sc.dup = 0
  PROVE  MirrorInv /\ Mirror!Init
<1>1. PICK x \in DOMAIN Scenarios : hits = [sc |-> x, loss |-> 0, dup |-> 0, forgot |-> FALSE]
  BY Zenon DEF Init, PairInit
<1>2. hits \in HitsType /\ hits.sc \in DOMAIN Scenarios
  BY <1>1, Zenon DEF HitsType
<1>3. sc.entities \subseteq Entities
  BY <1>2, StateAssumption, ZenonT(30) DEF sc
<1>4. LinkTyped
  <2>1. up \in Seq(UpFrames)
    BY SMTT(30) DEF Init, PairInit
  <2> QED
    BY <2>1, <1>2, SMTT(30) DEF Init, PairInit, LinkTyped, HitsType
<1>5. LeafTyped
  BY <1>3, StateAssumption DEF Init, LeafTyped, NotWaiting
<1>6. BridgeTyped
  <2>1. shown \in [Entities -> Nat] /\ seen \in [Sinks -> [Entities -> Nat]]
    BY Zenon DEF Init, Sinks
  <2>2. mqtt \in [Entities -> [value : Nat, dirty : BOOLEAN, ack : Nat]]
    BY ZenonT(30) DEF Init, NoAck
  <2>3. apiQ \in Seq(Receipts) /\ apiQ = << >> /\ sinks \subseteq Sinks /\ bTable \in Tables
    BY EmptyHolds, SMTT(30) DEF Init, Sinks
  <2> QED
    BY <2>1, <2>2, <2>3, ZenonT(30) DEF BridgeTyped
<1>7. ASSUME NEW e \in Entities PROVE InOrder(e)
  <2>1. rVal[e] = 1 /\ shown[e] = 0 /\ \A s \in Sinks : seen[s][e] = 0
    BY Zenon DEF Init, Sinks
  <2>2. mqtt[e].value = 0 /\ ~mqtt[e].dirty
    BY ZenonT(30) DEF Init
  <2>3. ViewsInOrder(e)
    BY <2>1, <2>2 DEF ViewsInOrder, Behind
  <2>4. HeldIn(bTable, e) = {}
    BY EmptyHolds, Zenon DEF Init
  <2>5. Len(up) = 0 /\ Len(apiQ) = 0 /\ ~rPend.on
    BY Zenon DEF Init, PairInit, NotWaiting
  <2> QED
    BY <2>3, <2>4, <2>5 DEF InOrder, ApiInOrder, HeldInOrder, FramesInOrder, PushInOrder
<1>8. Mirror!Init
  <2>1. rVal = [e \in Entities |-> 1]
    BY Zenon DEF Init
  <2>2. [s \in {"BRIDGE", "MQTT", "API"} |-> IF s = "BRIDGE" THEN shown ELSE seen[s]]
          = [s \in {"BRIDGE", "MQTT", "API"} |-> [e \in Entities |-> 0]]
    BY Zenon DEF Init
  <2> QED
    BY <2>1, <2>2, Zenon DEF Mirror!Init
<1> QED
  BY <1>4, <1>5, <1>6, <1>7, <1>8, ZenonT(30) DEF MirrorInv, Typed

\* Every step keeps the invariant and is a step of the mirror.
LEMMA MirrorNext ==
  ASSUME MirrorInv, WellOrdered, [Next]_vars
  PROVE  MirrorInv' /\ MirrorStep
<1>0. seen \in [Sinks -> [Entities -> Nat]] /\ "MQTT" \in Sinks /\ "API" \in Sinks
  BY Zenon DEF MirrorInv, Typed, BridgeTyped, Sinks
<1>s. ASSUME MirrorStutters PROVE MirrorStep
  BY <1>s, Zenon DEF MirrorStutters, MirrorStep, Mirror!vars
<1>1. CASE UNCHANGED vars
  <2>1. UNCHANGED <<hits, bKey, rKey, keys, rTx, up, rVal, rDirty, rPend, bTable, shown, mqtt, apiQ, sinks, seen>>
    BY <1>1, Zenon DEF vars, pairVars, bSession, rSession, path, rStates, bStates
  <2>2. MirrorInv'
    <3>1. sc' = sc /\ Typed' /\ \A e \in Entities : InOrder(e)'
      <4>1. sc' = sc
        BY <2>1, Zenon DEF sc
      <4>2. Typed'
        BY <2>1, Zenon DEF MirrorInv, Typed, LinkTyped, LeafTyped, BridgeTyped
      <4>3. ASSUME NEW e \in Entities PROVE InOrder(e)'
        <5>1. InOrder(e)
          BY Zenon DEF MirrorInv
        <5> QED
          BY <5>1, <2>1, ZenonT(30) DEF InOrder, ViewsInOrder, ApiInOrder, HeldInOrder, FramesInOrder, PushInOrder, Newest, Behind,
             HeldIn, Assembled, StateOf
      <4> QED
        BY Zenon, <4>1, <4>2, <4>3
    <3> QED
      BY <3>1, Zenon DEF MirrorInv
  <2> QED
    BY <2>1, <2>2, <1>s, Zenon DEF MirrorStutters
<1>2. CASE SessionSteps /\ UNCHANGED <<rStates, bStates>>
  BY Zenon, <1>2, <1>s, SessionMirror
<1>3. CASE LeafQuiet
  BY Zenon, <1>3, <1>s, LeafQuietMirror
<1>4. CASE BridgeQuiet
  BY Zenon, <1>4, <1>s, BridgeQuietMirror
<1>5. CASE SendState \/ RetryState
  BY Zenon, <1>5, <1>s, PushMirror
<1>6. CASE \E e \in Entities : Change(e) \/ Commanded(e)
  <2>1. PICK e \in Entities : Change(e) \/ Commanded(e)
    BY Zenon, <1>6
  <2>2. MirrorInv' /\ rVal' = [rVal EXCEPT ![e] = @ + 1] /\ UNCHANGED <<shown, seen>>
    BY Zenon, <2>1, ChangeMirror
  <2>3. Mirror!Change(e)
    BY <2>2, Zenon DEF Mirror!Change
  <2> QED
    BY <2>2, <2>3, Zenon DEF MirrorStep, Mirror!Next
<1>7. CASE BridgeRestart
  <2>1. MirrorInv' /\ UNCHANGED <<rVal, seen>> /\ shown' = [e \in Entities |-> 0]
    BY Zenon, <1>7, RestartMirror
  <2>2. Mirror!Forget
    BY <2>1, Zenon DEF Mirror!Forget
  <2> QED
    BY <2>1, <2>2, Zenon DEF MirrorStep, Mirror!Next
<1>8. CASE HandleState
  BY ZenonT(30), <1>0, <1>8, StateMirror, CatchUpStep
<1>9. CASE \E e \in Entities : MqttPublish(e)
  <2>1. /\ MirrorInv' /\ UNCHANGED <<rVal, shown>>
        /\ seen' = [seen EXCEPT !["MQTT"] = seen'["MQTT"]] /\ CaughtUp(seen["MQTT"], seen'["MQTT"])
    BY Zenon, <1>9, MqttMirror
  <2> QED
    BY ZenonT(30), <2>1, <1>0, CatchUpStep
<1>10. CASE ApiReceipt \/ \E s \in Sinks : SinkUp(s)
  <2>1. /\ MirrorInv' /\ UNCHANGED <<rVal, shown>>
        /\ seen' = [seen EXCEPT !["API"] = seen'["API"]] /\ CaughtUp(seen["API"], seen'["API"])
    BY Zenon, <1>10, ApiMirror, SinkUpMirror
  <2> QED
    BY Zenon, <2>1, <1>0, CatchUpStep
<1> QED
  BY ZenonT(30), <1>1, <1>2, <1>3, <1>4, <1>5, <1>6, <1>7, <1>8, <1>9, <1>10
     DEF Next, RemoteSteps, BridgeSteps, LeafQuiet, BridgeQuiet, Sinks

-----------------------------------------------------------------------------
(* With MQTT connected, an ack that ends the leaf's wait means that the     *)
(* value it sent was given to MQTT, when the radio repeats no frame and no  *)
(* leaf is back from a restart while a delivery of its last boot is open.   *)
(*                                                                          *)
(* The argument: a counter is the name of a message.  Every counter that is *)
(* written down anywhere (on a frame, in an assembly, in an open delivery,  *)
(* in an ack) is older than the leaf's next one, so a new push has a name   *)
(* of its own; and whatever carries the name of the push that waits is      *)
(* about its entity and its value.                                          *)

Frames(q) == {q[i] : i \in 1 .. Len(q)}
StatesIn(q) == {f \in Frames(q) : f.kind = "STATE"}
AcksIn(q) == {f \in Frames(q) : f.kind = "ACK"}

BaseOf(f) == MessageTxBase(f.tx, f.body.index)

OpenIn(t) == {e \in Entities : t.asm[e] # NoEntry /\ t.asm[e].active}

Deliveries == [entity : Entities, base : Nat, required : SUBSET Sinks, delivered : SUBSET Sinks]

DownFrames ==
  [kind : {"DEAUTH"}, key : {0}, tx : Nat, body : {Nothing}] \cup
  [kind : {"ACK"}, key : Nat, tx : Nat, body : [of : {"STATE"}, ref : Nat]]

AckTyped ==
  /\ down \in Seq(DownFrames) /\ bTx \in Nat /\ bLast \in Nat /\ outages \in Nat
  /\ waiting \in SUBSET Deliveries /\ rBooted \in BOOLEAN /\ rTx \in Nat \ {0}
  /\ Len(up) <= sc.cap

\* The leaf pushes its own entities, and only once it has joined.
LeafSound ==
  /\ rDirty \subseteq sc.entities
  /\ rBooted => rKey = 0
  /\ rPend.on => ~rBooted /\ rPend.entity \in sc.entities /\ rPend.base \in Nat \ {0}

\* The leaf has used counter n since it started.
Used(n) == ~rBooted => n < rTx

\* n is the counter of the push the leaf waits for.
Awaited(n) == rPend.on /\ n = rPend.base

\* MQTT has got the pushed value, as long as it has been connected.
Got == outages = 0 => rPend.value <= seen["MQTT"][rPend.entity]

\* Fragments of message n hold the values V of entity e.
Cut(n, e, V) == Used(n) /\ (Awaited(n) => e = rPend.entity /\ V \subseteq {rPend.value})

\* Message n may be acked.
Given(n) == Used(n) /\ (Awaited(n) => Got)

\* A delivery that is open.
Handed(d) ==
  /\ Used(d.base)
  /\ Awaited(d.base) => /\ d.entity = rPend.entity /\ rPend.value <= shown[rPend.entity]
                        /\ "MQTT" \in d.delivered => Got
  /\ outages = 0 => "MQTT" \in d.required

Names ==
  /\ \A f \in StatesIn(up) : Cut(BaseOf(f), f.body.entity, {f.body.msg})
  /\ \A e \in OpenIn(bTable) : Cut(bTable.asm[e].base, e, Assembled(bTable.asm[e]))
  /\ \A d \in waiting : Handed(d)
  /\ Given(bLast)
  /\ \A f \in AcksIn(down) : Given(f.body.ref)

\* The inductive invariant, together with MirrorInv.
AckInv ==
  /\ "quick boot" \notin sc.around
  /\ AckTyped /\ LeafSound /\ Names
  /\ outages = 0 => "MQTT" \in sinks

-----------------------------------------------------------------------------
(* Queues.                                                                  *)

\* The head of a queue is taken.
LEMMA TakenFrames ==
  ASSUME NEW S, NEW q \in Seq(S), q # << >>
  PROVE  /\ Tail(q) \in Seq(S) /\ Frames(Tail(q)) \subseteq Frames(q)
         /\ Head(q) \in Frames(q) /\ Head(q) \in S
<1>1. /\ Tail(q) \in Seq(S) /\ Len(Tail(q)) = Len(q) - 1 /\ Len(q) >= 1 /\ Len(q) \in Nat
      /\ \A i \in 1 .. Len(q) - 1 : Tail(q)[i] = q[i + 1]
      /\ Head(q) = q[1] /\ q[1] \in S
  BY TailElements
<1>2. Head(q) \in Frames(q)
  BY <1>1 DEF Frames
<1>3. \A i \in 1 .. Len(Tail(q)) : i + 1 \in 1 .. Len(q) /\ Tail(q)[i] = q[i + 1]
  BY <1>1
<1>4. Frames(Tail(q)) \subseteq Frames(q)
  BY <1>3, Zenon DEF Frames
<1> QED
  BY <1>1, <1>2, <1>4, Zenon

\* A frame is sent, or finds no room.
LEMMA PutFrames ==
  ASSUME NEW S, NEW q \in Seq(S), NEW x \in S
  PROVE  Put(q, x) \in Seq(S) /\ Frames(Put(q, x)) \subseteq Frames(q) \cup {x}
<1>1. /\ Append(q, x) \in Seq(S) /\ Len(Append(q, x)) = Len(q) + 1 /\ Len(q) \in Nat
      /\ \A i \in 1 .. Len(q) : Append(q, x)[i] = q[i]
      /\ Append(q, x)[Len(q) + 1] = x
  BY AppendElements
<1>2. \A i \in 1 .. Len(Append(q, x)) : i \in 1 .. Len(q) \/ i = Len(q) + 1
  BY <1>1
<1>3. Frames(Append(q, x)) \subseteq Frames(q) \cup {x}
  BY <1>1, <1>2, Zenon DEF Frames
<1> QED
  BY <1>1, <1>3, Zenon DEF Put

-----------------------------------------------------------------------------
(* Steps that give no message a name and confirm none.                      *)

\* The push the leaf waits for stays, or the leaf stops waiting; the counter and
\* what MQTT has do not go back.
Steady ==
  /\ rPend' = rPend \/ ~rPend'.on
  /\ rBooted' = rBooted /\ rTx <= rTx' /\ outages <= outages'
  /\ rPend.on => seen["MQTT"][rPend.entity] <= seen'["MQTT"][rPend.entity]

\* The types of what the claims compare.
LEMMA ClaimTypes ==
  ASSUME MirrorInv, AckInv
  PROVE  /\ rPend.on \in BOOLEAN /\ rPend.value \in Nat /\ rTx \in Nat \ {0} /\ outages \in Nat
         /\ rPend.on => /\ rPend.entity \in Entities /\ rPend.base \in Nat \ {0}
                        /\ shown[rPend.entity] \in Nat /\ seen["MQTT"][rPend.entity] \in Nat
<1>1. /\ rPend \in [on : BOOLEAN, entity : Entities \cup {0}, value : Nat, base : Int, retry : Nat]
      /\ rPend.on => rPend.entity \in Entities
      /\ shown \in [Entities -> Nat] /\ seen \in [Sinks -> [Entities -> Nat]]
  BY Zenon DEF MirrorInv, Typed, LeafTyped, BridgeTyped
<1>2. "MQTT" \in Sinks
  BY Zenon DEF Sinks
<1>3. rTx \in Nat \ {0} /\ outages \in Nat /\ (rPend.on => rPend.base \in Nat \ {0})
  BY Zenon DEF AckInv, AckTyped, LeafSound
<1> QED
  BY <1>1, <1>2, <1>3, Zenon

\* Then claims stay true.
LEMMA SteadyKeeps ==
  ASSUME MirrorInv, MirrorInv', AckInv, AckTyped', LeafSound', Steady
  PROVE  /\ \A n \in Nat : Given(n) => Given(n)'
         /\ \A n \in Nat, e \in Entities : \A V : Cut(n, e, V) => Cut(n, e, V)'
         /\ \A d \in Deliveries : Handed(d) /\ shown' = shown => Handed(d)'
         /\ Given(0)'
<1>1. /\ rPend.on \in BOOLEAN /\ rPend.value \in Nat /\ rTx \in Nat \ {0} /\ outages \in Nat
      /\ rPend.on => /\ rPend.entity \in Entities /\ rPend.base \in Nat \ {0}
                     /\ shown[rPend.entity] \in Nat /\ seen["MQTT"][rPend.entity] \in Nat
  BY ClaimTypes
<1>2. seen' \in [Sinks -> [Entities -> Nat]] /\ "MQTT" \in Sinks
  BY Zenon DEF MirrorInv, Typed, BridgeTyped, Sinks
<1>3. rTx' \in Nat \ {0} /\ outages' \in Nat /\ (rPend'.on => rPend'.base \in Nat \ {0})
  BY Zenon DEF AckTyped, LeafSound
<1>4. ASSUME NEW n \in Nat, Used(n) PROVE Used(n)'
  <2>1. CASE rBooted
    BY <2>1, Zenon DEF Used, Steady
  <2>2. CASE ~rBooted
    <3>1. n < rTx /\ rTx <= rTx'
      BY <2>2, <1>4, Zenon DEF Used, Steady
    <3>2. n < rTx'
      BY ONLY <3>1, <1>1, <1>3, n \in Nat
    <3> QED
      BY <3>2, Zenon DEF Used
  <2> QED
    BY <2>1, <2>2, Zenon
<1>5. ASSUME NEW n \in Nat PROVE Awaited(n)' => Awaited(n) /\ rPend' = rPend
  BY Zenon DEF Awaited, Steady
<1>6. ASSUME rPend.on, rPend' = rPend, Got PROVE Got'
  <2> SUFFICES ASSUME outages' = 0 PROVE rPend.value <= seen'["MQTT"][rPend.entity]
    BY <1>6, Zenon DEF Got
  <2>1. outages = 0
    BY <1>1, <1>3 DEF Steady
  <2>2. rPend.value <= seen["MQTT"][rPend.entity] /\ seen["MQTT"][rPend.entity] <= seen'["MQTT"][rPend.entity]
    BY <2>1, <1>6, Zenon DEF Got, Steady
  <2>3. seen'["MQTT"][rPend.entity] \in Nat
    BY <1>1, <1>2, <1>6, Zenon
  <2> QED
    BY <2>2, <2>3, <1>1, <1>6
<1>7. ASSUME NEW n \in Nat, Given(n) PROVE Given(n)'
  BY <1>4, <1>5, <1>6, <1>7, Zenon DEF Given, Awaited
<1>8. ASSUME NEW n \in Nat, NEW e \in Entities, NEW V, Cut(n, e, V) PROVE Cut(n, e, V)'
  BY <1>4, <1>5, <1>8, Zenon DEF Cut
<1>9. ASSUME NEW d \in Deliveries, Handed(d), shown' = shown PROVE Handed(d)'
  <2>1. d.base \in Nat
    BY Zenon DEF Deliveries
  <2>2. Used(d.base)'
    BY <2>1, <1>4, <1>9, Zenon DEF Handed
  <2>3. ASSUME Awaited(d.base)'
        PROVE  /\ d.entity = rPend'.entity /\ rPend'.value <= shown'[rPend'.entity]
               /\ "MQTT" \in d.delivered => Got'
    <3>1. Awaited(d.base) /\ rPend' = rPend /\ rPend.on
      BY <2>1, <2>3, <1>5, Zenon DEF Awaited
    <3> QED
      BY <3>1, <1>6, <1>9, Zenon DEF Handed
  <2>4. outages' = 0 => "MQTT" \in d.required
    <3>1. outages' = 0 => outages = 0
      BY <1>1, <1>3 DEF Steady
    <3> QED
      BY <3>1, <1>9, Zenon DEF Handed
  <2> QED
    BY <2>2, <2>3, <2>4, Zenon DEF Handed
<1>10. Given(0)'
  <2>1. 0 < rTx' /\ (rPend'.on => rPend'.base # 0)
    BY <1>3
  <2> QED
    BY <2>1, Zenon DEF Given, Used, Awaited
<1> QED
  BY <1>7, <1>8, <1>9, <1>10, Zenon

\* Nothing new is claimed.
Calm ==
  /\ StatesIn(up') \subseteq StatesIn(up)
  /\ \A e \in OpenIn(bTable') : e \in OpenIn(bTable) /\ bTable'.asm[e] = bTable.asm[e]
  /\ waiting' \subseteq waiting /\ (shown' = shown \/ waiting' = {})
  /\ bLast' = bLast \/ bLast' = 0
  /\ AcksIn(down') \subseteq AcksIn(down)
  /\ outages' = 0 => sinks \subseteq sinks'

\* A frame or an assembly names a message by a number.
LEMMA NamesAreNumbers ==
  ASSUME MirrorInv
  PROVE  /\ \A f \in StatesIn(up) : f.body \in StateBody /\ f.tx \in Int /\ BaseOf(f) \in Nat
         /\ \A e \in OpenIn(bTable) : bTable.asm[e] \in Assemblies /\ bTable.asm[e].base \in Nat
<1>1. up \in Seq(UpFrames) /\ bTable \in Tables
  BY Zenon DEF MirrorInv, Typed, LinkTyped, BridgeTyped
<1>2. ASSUME NEW f \in StatesIn(up) PROVE f.body \in StateBody /\ f.tx \in Int /\ BaseOf(f) \in Nat
  <2>1. \A i \in 1 .. Len(up) : up[i] \in UpFrames
    BY <1>1
  <2>2. f \in UpFrames /\ f.kind = "STATE"
    BY <2>1, Zenon DEF StatesIn, Frames
  <2>3. f.body \in StateBody /\ f.tx \in Int
    BY <2>2, Zenon DEF UpFrames
  <2>4. f.body.index \in Nat
    BY <2>3, Zenon DEF StateBody
  <2>5. f.tx - f.body.index \in Int /\ CounterSpan \in Nat \ {0}
    BY <2>3, <2>4, AssemblyAssumption
  <2>6. BaseOf(f) \in Nat
    BY <2>5 DEF BaseOf, MessageTxBase
  <2> QED
    BY <2>3, <2>6, Zenon
<1>3. ASSUME NEW e \in OpenIn(bTable) PROVE bTable.asm[e] \in Assemblies /\ bTable.asm[e].base \in Nat
  BY <1>1, Zenon DEF OpenIn, Tables, Assemblies
<1> QED
  BY <1>2, <1>3, Zenon

\* The acks on their way to the leaf.
LEMMA AcksAreTyped ==
  ASSUME AckInv, NEW f \in AcksIn(down)
  PROVE  f.body.ref \in Nat
<1>1. down \in Seq(DownFrames)
  BY Zenon DEF AckInv, AckTyped
<1>2. \A i \in 1 .. Len(down) : down[i] \in DownFrames
  BY <1>1
<1>3. f \in DownFrames /\ f.kind = "ACK"
  BY <1>2, Zenon DEF AcksIn, Frames
<1> QED
  BY <1>3, Zenon DEF DownFrames

\* A calm step keeps the invariant.
LEMMA CalmKeeps ==
  ASSUME MirrorInv, MirrorInv', AckInv, AckTyped', LeafSound', sc' = sc, Steady, Calm
  PROVE  AckInv'
<1>1. /\ \A n \in Nat : Given(n) => Given(n)'
      /\ \A n \in Nat, e \in Entities : \A V : Cut(n, e, V) => Cut(n, e, V)'
      /\ \A d \in Deliveries : Handed(d) /\ shown' = shown => Handed(d)'
      /\ Given(0)'
  BY SteadyKeeps, Zenon
<1>2. Names /\ AckTyped
  BY Zenon DEF AckInv
<1>3. \A f \in StatesIn(up') : Cut(BaseOf(f), f.body.entity, {f.body.msg})'
  <2> SUFFICES ASSUME NEW f \in StatesIn(up') PROVE Cut(BaseOf(f), f.body.entity, {f.body.msg})'
    BY Zenon
  <2>1. f \in StatesIn(up)
    BY Zenon DEF Calm
  <2>2. BaseOf(f) \in Nat /\ f.body.entity \in Entities
    BY <2>1, NamesAreNumbers, Zenon DEF StateBody
  <2>3. Cut(BaseOf(f), f.body.entity, {f.body.msg})
    BY <2>1, <1>2, Zenon DEF Names
  <2> QED
    BY <2>2, <2>3, <1>1, Zenon
<1>4. \A e \in OpenIn(bTable') : Cut(bTable.asm[e].base, e, Assembled(bTable.asm[e]))'
  <2> SUFFICES ASSUME NEW e \in OpenIn(bTable') PROVE Cut(bTable.asm[e].base, e, Assembled(bTable.asm[e]))'
    BY Zenon
  <2>1. e \in OpenIn(bTable) /\ bTable'.asm[e] = bTable.asm[e]
    BY Zenon DEF Calm
  <2>2. PICK n, V : n \in Nat /\ n = bTable.asm[e].base /\ V = Assembled(bTable.asm[e]) /\ Cut(n, e, V)
    BY <2>1, <1>2, NamesAreNumbers, Zenon DEF Names
  <2>3. e \in Entities
    BY <2>1, Zenon DEF OpenIn
  <2>4. Cut(n, e, V)'
    BY <2>2, <2>3, <1>1, Zenon
  <2> QED
    BY <2>1, <2>2, <2>4, Zenon DEF Cut, Used, Awaited, Assembled
<1>5. \A d \in waiting' : Handed(d)'
  <2> SUFFICES ASSUME NEW d \in waiting' PROVE Handed(d)'
    BY Zenon
  <2>1. d \in waiting /\ shown' = shown
    BY Zenon DEF Calm
  <2>2. d \in Deliveries /\ Handed(d)
    BY <2>1, <1>2, Zenon DEF AckTyped, Names
  <2> QED
    BY <2>1, <2>2, <1>1, Zenon
<1>6. Given(bLast)'
  <2>1. CASE bLast' = 0
    BY <2>1, <1>1, Zenon DEF Given, Used, Awaited
  <2>2. CASE bLast' = bLast
    <3>1. PICK n \in Nat : n = bLast /\ Given(n)
      BY <1>2, Zenon DEF AckTyped, Names
    <3>2. Given(n)'
      BY <3>1, <1>1, Zenon
    <3> QED
      BY <3>1, <3>2, <2>2, Zenon DEF Given, Used, Awaited
  <2> QED
    BY <2>1, <2>2, Zenon DEF Calm
<1>7. \A f \in AcksIn(down') : Given(f.body.ref)'
  <2> SUFFICES ASSUME NEW f \in AcksIn(down') PROVE Given(f.body.ref)'
    BY Zenon
  <2>1. f \in AcksIn(down)
    BY Zenon DEF Calm
  <2>2. f.body.ref \in Nat
    BY <2>1, AcksAreTyped
  <2> QED
    BY <2>1, <2>2, <1>1, <1>2, Zenon DEF Names
<1>8. outages' = 0 => "MQTT" \in sinks'
  <2>1. outages' = 0 => outages = 0
    <3>1. outages \in Nat /\ outages' \in Nat /\ outages <= outages'
      BY <1>2, Zenon DEF AckTyped, Steady
    <3> QED
      BY <3>1
  <2> QED
    BY <2>1, Zenon DEF AckInv, Calm
<1>9. Names'
  BY <1>3, <1>4, <1>5, <1>6, <1>7, Zenon DEF Names, OpenIn
<1> QED
  BY <1>8, <1>9, Zenon DEF AckInv

-----------------------------------------------------------------------------
(* The quiet steps.                                                         *)

\* Scenarios are typed, and a step that counts a fault keeps its own.
LEMMA ScenarioStays ==
  ASSUME MirrorInv,
         \/ hits' = hits
         \/ hits' = [hits EXCEPT !.loss = @ + 1]
         \/ hits' = [hits EXCEPT !.forgot = TRUE]
  PROVE  sc' = sc /\ sc.cap \in Nat \ {0}
<1>1. hits \in [sc : DOMAIN Scenarios, loss : Nat, dup : Nat, forgot : BOOLEAN]
  BY Zenon DEF MirrorInv, Typed, LinkTyped
<1>2. hits'.sc = hits.sc
  BY <1>1, Zenon
<1>3. sc.cap \in Nat \ {0}
  BY <1>1, PairAssumption, Zenon DEF sc, PairScenario
<1> QED
  BY <1>2, <1>3, Zenon DEF sc

UpCalm ==
  \/ up' = up
  \/ up # << >> /\ up' = Tail(up)
  \/ up' = Put(up, Frame("HEARTBEAT", rKey, rTx, Nothing))

DownCalm ==
  \/ down' = down
  \/ down # << >> /\ down' = Tail(down)
  \/ down' = Put(down, Frame("DEAUTH", 0, 1, Nothing))

\* No STATE is sent.
LEMMA UpStays ==
  ASSUME MirrorInv, AckInv, UpCalm
  PROVE  StatesIn(up') \subseteq StatesIn(up) /\ Len(up') <= sc.cap
<1>1. up \in Seq(UpFrames) /\ rKey \in Nat /\ rTx \in Int /\ Len(up) <= sc.cap
  BY Zenon DEF MirrorInv, Typed, LinkTyped, AckInv, AckTyped
<1>2. sc.cap \in Nat
  BY ScenarioStays, PairAssumption, Zenon DEF MirrorInv, Typed, LinkTyped, sc, PairScenario
<1>3. CASE up' = up
  BY <1>1, <1>3, Zenon
<1>4. CASE up # << >> /\ up' = Tail(up)
  <2>1. Frames(up') \subseteq Frames(up)
    BY <1>1, <1>4, TakenFrames, Zenon
  <2>2. Len(up') = Len(up) - 1 /\ Len(up) \in Nat
    BY <1>1, <1>4
  <2>3. Len(up') <= sc.cap
    BY ONLY <2>2, <1>1, <1>2
  <2> QED
    BY <2>1, <2>3, Zenon DEF StatesIn
<1>5. CASE up' = Put(up, Frame("HEARTBEAT", rKey, rTx, Nothing))
  <2> DEFINE x == Frame("HEARTBEAT", rKey, rTx, Nothing)
  <2>1. x \in UpFrames /\ x.kind = "HEARTBEAT"
    BY <1>1, Zenon DEF Frame, UpFrames
  <2>2. up' = Put(up, x)
    BY <1>5
  <2> HIDE DEF x
  <2>3. Frames(up') \subseteq Frames(up) \cup {x}
    BY <1>1, <2>1, <2>2, PutFrames, Zenon
  <2>4. StatesIn(up') \subseteq StatesIn(up)
    BY <2>1, <2>3, Zenon DEF StatesIn
  <2>5. Len(up') <= sc.cap
    <3>1. CASE up' = up
      BY <3>1, <1>1, Zenon
    <3>2. CASE Len(up) < sc.cap /\ up' = Append(up, x)
      <4>1. Len(up') = Len(up) + 1 /\ Len(up) \in Nat
        BY <3>2, <1>1, <2>1, AppendElements
      <4> QED
        BY ONLY <4>1, <3>2, <1>2
    <3> QED
      BY <2>2, <3>1, <3>2, Zenon DEF Put, Room
  <2> QED
    BY <2>4, <2>5, Zenon
<1> QED
  BY <1>3, <1>4, <1>5, Zenon DEF UpCalm

\* No ack is sent.
LEMMA DownStays ==
  ASSUME AckInv, DownCalm
  PROVE  down' \in Seq(DownFrames) /\ AcksIn(down') \subseteq AcksIn(down)
<1>1. down \in Seq(DownFrames)
  BY Zenon DEF AckInv, AckTyped
<1>2. CASE down' = down
  BY <1>1, <1>2, Zenon
<1>3. CASE down # << >> /\ down' = Tail(down)
  BY <1>1, <1>3, TakenFrames, Zenon DEF AcksIn
<1>4. CASE down' = Put(down, Frame("DEAUTH", 0, 1, Nothing))
  <2> DEFINE x == Frame("DEAUTH", 0, 1, Nothing)
  <2>1. x \in DownFrames /\ x.kind = "DEAUTH"
    <3>1. 1 \in Nat
      OBVIOUS
    <3> QED
      BY <3>1, Zenon DEF Frame, DownFrames
  <2>2. down' = Put(down, x)
    BY <1>4
  <2> HIDE DEF x
  <2> QED
    BY <1>1, <2>1, <2>2, PutFrames, Zenon DEF AcksIn
<1> QED
  BY <1>2, <1>3, <1>4, Zenon DEF DownCalm

\* What a quiet step of the session or of the leaf may do.
LeafCalm ==
  /\ UpCalm /\ DownCalm
  /\ UNCHANGED <<bTable, waiting, shown, outages, sinks, seen, bLast, rBooted, bTx>>
  /\ rTx' = rTx \/ rTx' = rTx + 1
  /\ rPend' = rPend \/ rPend' = NotWaiting
  /\ rKey' = rKey \/ rKey' = 0
  /\ rDirty' \subseteq sc.entities

\* Then the invariant is kept.
LEMMA LeafCalmKeeps ==
  ASSUME MirrorInv, MirrorInv', AckInv, sc' = sc, LeafCalm
  PROVE  AckInv'
<1>1. StatesIn(up') \subseteq StatesIn(up) /\ Len(up') <= sc.cap
  BY UpStays, Zenon DEF LeafCalm
<1>2. down' \in Seq(DownFrames) /\ AcksIn(down') \subseteq AcksIn(down)
  BY DownStays, Zenon DEF LeafCalm
<1>3. rTx \in Nat \ {0} /\ rTx' \in Nat \ {0} /\ rTx <= rTx'
  <2>1. rTx \in Nat \ {0} /\ (rTx' = rTx \/ rTx' = rTx + 1)
    BY Zenon DEF AckInv, AckTyped, LeafCalm
  <2> QED
    BY <2>1
<1>4. AckTyped'
  BY <1>1, <1>2, <1>3, Zenon DEF AckInv, AckTyped, LeafCalm
<1>5. ~NotWaiting.on
  BY Zenon DEF NotWaiting
<1>6. LeafSound'
  BY <1>5, Zenon DEF AckInv, LeafSound, LeafCalm
<1>7. Steady
  <2>1. outages \in Nat
    BY Zenon DEF AckInv, AckTyped
  <2>2. outages <= outages'
    BY <2>1 DEF LeafCalm
  <2>3. rPend.on => seen["MQTT"][rPend.entity] <= seen'["MQTT"][rPend.entity]
    BY ClaimTypes DEF LeafCalm
  <2> QED
    BY <2>2, <2>3, <1>3, <1>5, Zenon DEF Steady, LeafCalm
<1>8. Calm
  BY <1>1, <1>2, Zenon DEF Calm, LeafCalm
<1> QED
  BY <1>4, <1>6, <1>7, <1>8, CalmKeeps, Zenon

\* The steps of the session.
LEMMA SessionAck ==
  ASSUME MirrorInv, MirrorInv', AckInv, SessionSteps, UNCHANGED <<rStates, bStates>>
  PROVE  AckInv'
<1>1. sc.dup = 0 /\ hits.dup \in Nat
  BY Zenon DEF MirrorInv, Typed, LinkTyped
<1>2. ~RepeatDown /\ ~RepeatUp
  <2>1. ~(hits.dup < sc.dup)
    BY <1>1
  <2> QED
    BY <2>1, Zenon DEF RepeatDown, RepeatUp
<1>3. hits' = hits \/ hits' = [hits EXCEPT !.loss = @ + 1]
  BY <1>2, Zenon DEF SessionSteps, RejectUnknown, HandleHeartbeat, SendHeartbeat, OfflineTimeout, Radio,
     LoseDown, LoseUp, path
<1>4. rDirty \subseteq sc.entities
  BY Zenon DEF AckInv, LeafSound
<1>5. /\ UpCalm /\ DownCalm /\ bTx' = bTx /\ rKey' = rKey /\ (rTx' = rTx \/ rTx' = rTx + 1)
  BY <1>2, Zenon DEF SessionSteps, RejectUnknown, HandleHeartbeat, SendHeartbeat, OfflineTimeout, Radio,
     LoseDown, LoseUp, path, bSession, rSession, UpCalm, DownCalm, UpIs
<1>6. LeafCalm
  BY <1>4, <1>5, Zenon DEF LeafCalm, rStates, bStates
<1> QED
  BY <1>3, <1>6, ScenarioStays, LeafCalmKeeps, Zenon

\* A timeout, an ack, a deauth, giving up, a new route or a new value at the leaf.
LEMMA LeafAck ==
  ASSUME MirrorInv, MirrorInv', AckInv,
         \/ StateTimeout \/ RouteResumed \/ HandleStateAck \/ HandleDeauth \/ GiveUp
         \/ \E e \in Entities : Change(e) \/ Commanded(e)
  PROVE  AckInv'
<1>1. rDirty \subseteq sc.entities /\ (rPend.on => rPend.entity \in sc.entities)
  BY Zenon DEF AckInv, LeafSound
<1>2. /\ hits' = hits /\ UNCHANGED bStates /\ UNCHANGED <<rBooted, bTx>>
  BY Zenon DEF StateTimeout, RouteResumed, HandleStateAck, HandleDeauth, GiveUp, Change, Commanded,
     pairVars, bSession, rSession, path, rStates
<1>3. /\ rTx' = rTx \/ rTx' = rTx + 1
      /\ rPend' = rPend \/ rPend' = NotWaiting
      /\ rKey' = rKey \/ rKey' = 0
      /\ rDirty' \subseteq sc.entities
  BY <1>1, Zenon DEF StateTimeout, RouteResumed, HandleStateAck, HandleDeauth, GiveUp, Change, Commanded,
     pairVars, bSession, rSession, path, rStates, LeaveSession, ClearPush
<1>4. UpCalm /\ DownCalm
  BY Zenon DEF StateTimeout, RouteResumed, HandleStateAck, HandleDeauth, GiveUp, Change, Commanded,
     pairVars, path, UpCalm, DownCalm, DownIs
<1>5. LeafCalm
  BY <1>2, <1>3, <1>4, Zenon DEF LeafCalm, bStates
<1> QED
  BY <1>2, <1>5, ScenarioStays, LeafCalmKeeps, Zenon

\* What a quiet step of the bridge may do.
BridgeCalm ==
  /\ UNCHANGED <<up, down, rKey, rTx, rDirty, rPend, rBooted>>
  /\ bTx' = bTx \/ bTx' = 1
  /\ \A e \in OpenIn(bTable') : e \in OpenIn(bTable) /\ bTable'.asm[e] = bTable.asm[e]
  /\ waiting' \subseteq waiting /\ (shown' = shown \/ waiting' = {})
  /\ bLast' = bLast \/ bLast' = 0
  /\ (outages' = outages /\ sinks \subseteq sinks') \/ outages' = outages + 1
  /\ seen'["MQTT"] = seen["MQTT"]

\* Then the invariant is kept.
LEMMA BridgeCalmKeeps ==
  ASSUME MirrorInv, MirrorInv', AckInv, sc' = sc, BridgeCalm
  PROVE  AckInv'
<1>1. outages \in Nat /\ rTx \in Nat \ {0} /\ bTx \in Nat
  BY Zenon DEF AckInv, AckTyped
<1>2. /\ outages' \in Nat /\ outages <= outages' /\ (outages' = 0 => sinks \subseteq sinks')
      /\ rTx <= rTx' /\ bTx' \in Nat
  <2>1. /\ (outages' = outages /\ sinks \subseteq sinks') \/ outages' = outages + 1
        /\ bTx' = bTx \/ bTx' = 1
        /\ rTx' = rTx
    BY Zenon DEF BridgeCalm
  <2>2. CASE outages' = outages /\ sinks \subseteq sinks'
    BY <2>1, <2>2, <1>1
  <2>3. CASE outages' = outages + 1
    BY <2>1, <2>3, <1>1
  <2> QED
    BY <2>1, <2>2, <2>3, Zenon
<1>3. AckTyped'
  <2>1. bLast' \in Nat
    <3>1. bLast \in Nat /\ 0 \in Nat
      BY Zenon DEF AckInv, AckTyped
    <3> QED
      BY <3>1, Zenon DEF BridgeCalm
  <2> QED
    BY <1>2, <2>1, Zenon DEF AckInv, AckTyped, BridgeCalm
<1>4. LeafSound'
  BY Zenon DEF AckInv, LeafSound, BridgeCalm
<1>5. Steady
  <2>1. rPend.on => seen["MQTT"][rPend.entity] <= seen'["MQTT"][rPend.entity]
    <3>1. rPend.on => seen["MQTT"][rPend.entity] \in Nat
      BY ClaimTypes, Zenon
    <3>2. seen'["MQTT"][rPend.entity] = seen["MQTT"][rPend.entity]
      BY Zenon DEF BridgeCalm
    <3> QED
      BY ONLY <3>1, <3>2
  <2> QED
    BY <2>1, <1>2, Zenon DEF Steady, BridgeCalm
<1>6. Calm
  BY <1>2, Zenon DEF Calm, BridgeCalm
<1> QED
  BY <1>3, <1>4, <1>5, <1>6, CalmKeeps, Zenon

\* A restart, an eviction, something that expires, a sink that goes or comes back.
LEMMA BridgeAck ==
  ASSUME MirrorInv, MirrorInv', AckInv,
         \/ BridgeRestart \/ EvictSession
         \/ \E e \in Entities : PruneState(e)
         \/ \E d \in waiting : ExpireDelivery(d)
         \/ \E s \in Sinks : SinkDown(s) \/ SinkUp(s)
  PROVE  AckInv'
<1>1. /\ UNCHANGED <<up, down, rKey, rTx, rDirty, rPend, rBooted>>
      /\ bTx' = bTx \/ bTx' = 1
      /\ hits' = hits \/ hits' = [hits EXCEPT !.forgot = TRUE]
  BY Zenon DEF BridgeRestart, EvictSession, PruneState, ExpireDelivery, SinkDown, SinkUp, ForgetSession,
     pairVars, bSession, rSession, path, rStates
<1>2. /\ waiting' \subseteq waiting /\ (shown' = shown \/ waiting' = {})
      /\ bLast' = bLast \/ bLast' = 0
      /\ (outages' = outages /\ sinks \subseteq sinks') \/ outages' = outages + 1
  BY Zenon DEF BridgeRestart, EvictSession, PruneState, ExpireDelivery, SinkDown, SinkUp
<1>3. seen'["MQTT"] = seen["MQTT"]
  <2>1. seen \in [Sinks -> [Entities -> Nat]] /\ "MQTT" \in Sinks /\ "MQTT" # "API"
    BY Zenon DEF MirrorInv, Typed, BridgeTyped, Sinks
  <2> QED
    BY <2>1, Zenon DEF BridgeRestart, EvictSession, PruneState, ExpireDelivery, SinkDown, SinkUp
<1>4. \A e \in OpenIn(bTable') : e \in OpenIn(bTable) /\ bTable'.asm[e] = bTable.asm[e]
  <2>1. CASE bTable' = bTable
    BY <2>1, Zenon DEF OpenIn
  <2>2. CASE bTable' = EmptyTable
    BY <2>2, Zenon DEF OpenIn, EmptyTable
  <2>3. ASSUME NEW e \in Entities, PruneState(e)
        PROVE  \A d \in OpenIn(bTable') : d \in OpenIn(bTable) /\ bTable'.asm[d] = bTable.asm[d]
    <3>1. bTable' = Release(bTable, e) /\ bTable.asm[e] \in Assemblies /\ bTable \in Tables
      BY <2>3, Zenon DEF PruneState, Expired, Tables, MirrorInv, Typed, BridgeTyped
    <3>2. /\ bTable'.asm[e] = NoEntry /\ \A d \in Entities \ {e} : bTable'.asm[d] = bTable.asm[d]
      BY <3>1, ReleaseEffect, Zenon
    <3> QED
      BY <3>2, Zenon DEF OpenIn
  <2> QED
    BY <2>1, <2>2, <2>3, Zenon DEF BridgeRestart, EvictSession, ExpireDelivery, SinkDown, SinkUp
<1>5. BridgeCalm
  BY <1>1, <1>2, <1>3, <1>4, Zenon DEF BridgeCalm
<1> QED
  BY <1>1, <1>5, ScenarioStays, BridgeCalmKeeps, Zenon

-----------------------------------------------------------------------------
(* A leaf that restarts, joins or pushes.                                   *)

\* A restarted leaf waits for nothing and has used no counter.
LEMMA RestartAck ==
  ASSUME MirrorInv, AckInv, RemoteRestart
  PROVE  AckInv'
<1>1. /\ UNCHANGED <<hits, down, up, bTx, bTable, bLast, waiting, shown, sinks, seen, outages>>
      /\ rPend' = NotWaiting /\ rBooted' = TRUE /\ rTx' = 1 /\ rKey' = 0 /\ rDirty' = sc.entities
  BY Zenon DEF RemoteRestart, LeaveSession, ClearPush, bSession, path, bStates
<1>2. ~rPend'.on /\ sc' = sc /\ 1 \in Nat \ {0}
  <2>1. ~rPend'.on /\ sc' = sc
    BY <1>1, Zenon DEF NotWaiting, sc
  <2> QED
    BY <2>1
<1>3. AckTyped'
  BY <1>1, <1>2, Zenon DEF AckInv, AckTyped
<1>4. LeafSound'
  BY <1>1, <1>2, Zenon DEF LeafSound
<1>5. /\ \A n : Given(n)' /\ \A e, V : Cut(n, e, V)'
      /\ \A d \in waiting : Handed(d)'
  BY <1>1, <1>2, Zenon DEF Given, Cut, Handed, Used, Awaited, AckInv, Names
<1>6. Names'
  BY <1>1, <1>5, Zenon DEF Names, Given, Cut, Used, Awaited
<1> QED
  BY <1>1, <1>2, <1>3, <1>4, <1>6, Zenon DEF AckInv

\* A join empties the path and the table; a leaf that is back from a restart joins when
\* no delivery of its last boot is open.
LEMMA JoinAck ==
  ASSUME MirrorInv, MirrorInv', AckInv, JoinStates
  PROVE  AckInv'
<1>1. /\ UNCHANGED <<hits, rPend, shown, sinks, waiting, seen, outages, down>>
      /\ down = << >> /\ up' = << Frame("HEARTBEAT", keys + 1, rTx + 1, Nothing) >>
      /\ rTx' = rTx + 2 /\ bTx' = bTx + 1 /\ rBooted' = FALSE
      /\ bTable' = EmptyTable /\ bLast' = 0
      /\ rDirty' = {} \/ rDirty' = sc.entities
      /\ rBooted => waiting = {}
  BY Zenon DEF JoinStates, Rejoin, JoinKeys, AckInv
<1>2. sc' = sc /\ sc.cap \in Nat \ {0}
  BY <1>1, ScenarioStays, Zenon
<1>3. rTx \in Nat \ {0} /\ rTx' \in Nat \ {0} /\ rTx <= rTx' /\ 0 < rTx' /\ bTx' \in Nat /\ Len(up') <= sc.cap
  <2>1. rTx \in Nat \ {0} /\ bTx \in Nat
    BY Zenon DEF AckInv, AckTyped
  <2>2. Len(up') = 1
    BY <1>1
  <2> QED
    BY <1>1, <1>2, <2>1, <2>2
<1>4. StatesIn(up') = {}
  <2>1. \A i \in 1 .. Len(up') : up'[i].kind = "HEARTBEAT"
    BY <1>1 DEF Frame
  <2> QED
    BY <2>1, Zenon DEF StatesIn, Frames
<1>5. OpenIn(bTable') = {}
  BY <1>1, Zenon DEF OpenIn, EmptyTable
<1>6. AcksIn(down') = {}
  <2>1. 1 .. Len(down) = {}
    BY <1>1
  <2> QED
    BY <1>1, <2>1, Zenon DEF AcksIn, Frames
<1>7. AckTyped'
  BY <1>1, <1>2, <1>3, Zenon DEF AckInv, AckTyped
<1>8. LeafSound'
  BY <1>1, <1>2, Zenon DEF AckInv, LeafSound
<1>9. CASE ~rBooted
  <2>1. Steady
    <3>1. outages \in Nat /\ (rPend.on => seen["MQTT"][rPend.entity] \in Nat)
      BY ClaimTypes, Zenon
    <3>2. outages <= outages' /\ (rPend.on => seen["MQTT"][rPend.entity] <= seen'["MQTT"][rPend.entity])
      BY <3>1, <1>1
    <3>3. rBooted' = rBooted
      BY <1>1, <1>9, Zenon DEF AckInv, AckTyped
    <3> QED
      BY <3>2, <3>3, <1>1, <1>3, Zenon DEF Steady
  <2>2. Calm
    BY <1>1, <1>4, <1>5, <1>6, Zenon DEF Calm
  <2> QED
    BY <2>1, <2>2, <1>2, <1>7, <1>8, CalmKeeps, Zenon
<1>10. CASE rBooted
  <2>1. waiting' = {} /\ ~rPend'.on
    BY <1>1, <1>10, Zenon DEF AckInv, LeafSound
  <2>2. Given(bLast)'
    BY <1>1, <1>3, <2>1, Zenon DEF Given, Used, Awaited
  <2>3. Names'
    BY <1>4, <1>5, <1>6, <2>1, <2>2, Zenon DEF Names
  <2> QED
    BY <2>3, <1>1, <1>2, <1>7, <1>8, Zenon DEF AckInv
<1> QED
  BY <1>9, <1>10, Zenon

\* A push has a name of its own.
LEMMA PushAck ==
  ASSUME MirrorInv, MirrorInv', AckInv, WellOrdered, SendState \/ RetryState
  PROVE  AckInv'
<1>1. PICK e \in Entities, v \in 1 .. MaxValue, n \in Nat :
        PushState(e, v, n) /\ (e \in rDirty \/ (rPend.on /\ e = rPend.entity))
  BY PushIs, Zenon
<1>2. Typed /\ AckTyped /\ LeafSound /\ Names
  BY Zenon DEF MirrorInv, AckInv
<1>3. /\ Pushed(e, v) /\ Numbered /\ rTx' \in Int
      /\ hits'.sc = hits.sc
      /\ rDirty' \subseteq rDirty \cup {e}
  BY <1>1, <1>2, PushEffect, Zenon
<1>4. /\ UNCHANGED <<down, bTx, bTable, bLast, waiting, shown, sinks, seen, outages, rKey, rBooted>>
      /\ rKey # 0
  BY Zenon DEF SendState, RetryState, MaySend, bSession, bStates
<1>5. sc' = sc
  BY <1>3, Zenon DEF sc
<1>6. ~rBooted /\ e \in sc.entities /\ rDirty' \subseteq sc.entities
  BY <1>1, <1>2, <1>3, <1>4, Zenon DEF LeafSound
<1>7. rTx \in Nat \ {0} /\ rTx' \in Nat \ {0} /\ rTx < rTx' /\ Len(up') <= sc.cap
  <2>1. rTx \in Nat \ {0} /\ rTx < rTx' /\ Len(up') <= sc.cap
    BY <1>2, <1>3, Zenon DEF AckTyped, Numbered
  <2> QED
    BY <2>1, <1>3
<1>8. AckTyped'
  BY <1>2, <1>4, <1>5, <1>7, Zenon DEF AckTyped
<1>9. rPend'.on => rPend'.base = rTx /\ rPend'.entity = e /\ rPend'.value = v
  BY <1>3, Zenon DEF Pushed, Numbered
<1>10. LeafSound'
  BY <1>4, <1>5, <1>6, <1>7, <1>9, Zenon DEF LeafSound
<1>11. ASSUME NEW m \in Nat, Used(m) PROVE Used(m)' /\ ~Awaited(m)'
  <2>1. m < rTx
    BY <1>6, <1>11, Zenon DEF Used
  <2>2. m < rTx' /\ m # rTx
    BY ONLY <2>1, <1>7, m \in Nat
  <2> QED
    BY <2>2, <1>9, Zenon DEF Used, Awaited
<1>12. \A d \in waiting' : Handed(d)'
  <2> SUFFICES ASSUME NEW d \in waiting PROVE Handed(d)'
    BY <1>4, Zenon
  <2>1. d.base \in Nat /\ Handed(d)
    BY <1>2, Zenon DEF AckTyped, Deliveries, Names
  <2>2. Used(d.base)' /\ ~Awaited(d.base)'
    BY <2>1, <1>11, Zenon DEF Handed
  <2> QED
    BY <2>1, <2>2, <1>4, Zenon DEF Handed
<1>13. Given(bLast)'
  <2>1. PICK m \in Nat : m = bLast /\ Used(m)
    BY <1>2, Zenon DEF AckTyped, Names, Given
  <2>2. Used(m)' /\ ~Awaited(m)'
    BY <2>1, <1>11
  <2> QED
    BY <2>1, <2>2, <1>4, Zenon DEF Given, Used, Awaited
<1>14. \A f \in AcksIn(down') : Given(f.body.ref)'
  <2> SUFFICES ASSUME NEW f \in AcksIn(down) PROVE Given(f.body.ref)'
    BY <1>4, Zenon DEF AcksIn, Frames
  <2>1. f.body.ref \in Nat /\ Used(f.body.ref)
    BY <1>2, AcksAreTyped, Zenon DEF Names, Given
  <2>2. Used(f.body.ref)' /\ ~Awaited(f.body.ref)'
    BY <2>1, <1>11
  <2> QED
    BY <2>2, Zenon DEF Given
<1>15. \A d \in OpenIn(bTable') : Cut(bTable.asm[d].base, d, Assembled(bTable.asm[d]))'
  <2> SUFFICES ASSUME NEW d \in OpenIn(bTable) PROVE Cut(bTable.asm[d].base, d, Assembled(bTable.asm[d]))'
    BY <1>4, Zenon DEF OpenIn
  <2>1. PICK m \in Nat : m = bTable.asm[d].base /\ Used(m)
    BY <1>2, NamesAreNumbers, Zenon DEF Names, Cut
  <2>2. Used(m)' /\ ~Awaited(m)'
    BY <2>1, <1>11
  <2> QED
    BY <2>1, <2>2, <1>4, Zenon DEF Cut, Used, Awaited
<1>16. \A f \in StatesIn(up') : Cut(BaseOf(f), f.body.entity, {f.body.msg})'
  <2> SUFFICES ASSUME NEW f \in StatesIn(up') PROVE Cut(BaseOf(f), f.body.entity, {f.body.msg})'
    BY Zenon
  <2>1. PICK i \in 1 .. Len(up') : f = up'[i]
    BY Zenon DEF StatesIn, Frames
  <2>2. f.kind = "STATE"
    BY Zenon DEF StatesIn
  <2>3. CASE i \in 1 .. Len(up)
    <3>1. f \in StatesIn(up)
      BY <2>1, <2>2, <2>3, <1>3, Zenon DEF Pushed, StatesIn, Frames
    <3>2. BaseOf(f) \in Nat /\ Used(BaseOf(f))
      BY <3>1, <1>2, NamesAreNumbers, Zenon DEF Names, Cut
    <3>3. Used(BaseOf(f))' /\ ~Awaited(BaseOf(f))'
      BY <3>2, <1>11
    <3> QED
      BY <3>3, Zenon DEF Cut
  <2>4. CASE i \in Len(up) + 1 .. Len(up')
    <3>1. f.body.entity = e /\ f.body.msg = v /\ f.tx - f.body.index = rTx
      BY <2>1, <2>4, <1>3, Zenon DEF Pushed, Numbered
    <3>2. BaseOf(f) = rTx % CounterSpan
      BY <3>1, Zenon DEF BaseOf, MessageTxBase
    <3>3. rTx % CounterSpan < rTx'
      <4>1. CounterSpan \in Nat \ {0}
        BY AssemblyAssumption
      <4>2. rTx % CounterSpan <= rTx
        BY ONLY <4>1, <1>7
      <4>3. rTx % CounterSpan \in Nat
        BY ONLY <4>1, <1>7
      <4> QED
        BY ONLY <4>2, <4>3, <1>7
    <3>4. Used(BaseOf(f))'
      BY <3>2, <3>3, Zenon DEF Used, BaseOf
    <3>5. Awaited(BaseOf(f))' => f.body.entity = rPend'.entity /\ f.body.msg = rPend'.value
      BY <3>1, <1>9, Zenon DEF Awaited
    <3> QED
      BY <3>4, <3>5, Zenon DEF Cut
  <2>5. Len(up) \in Nat /\ Len(up') \in Nat
    <3>1. up \in Seq(UpFrames) /\ up' \in Seq(UpFrames)
      BY Zenon DEF MirrorInv, Typed, LinkTyped
    <3> QED
      BY <3>1
  <2>6. i \in 1 .. Len(up) \/ i \in Len(up) + 1 .. Len(up')
    BY <2>5
  <2> QED
    BY <2>3, <2>4, <2>6, Zenon
<1>17. Names'
  BY <1>12, <1>13, <1>14, <1>15, <1>16, Zenon DEF Names
<1> QED
  BY <1>2, <1>4, <1>5, <1>8, <1>10, <1>17, Zenon DEF AckInv

-----------------------------------------------------------------------------
(* Steps of the bridge that confirm a message or pass one on.               *)

\* The leaf's side and the sinks stay, and MQTT's value of the pushed entity does not go
\* back.
LeafStays ==
  /\ UNCHANGED <<hits, rKey, rTx, rDirty, rPend, rBooted, sinks, outages>>
  /\ rPend.on => seen["MQTT"][rPend.entity] <= seen'["MQTT"][rPend.entity]

\* Then what MQTT has got stays with it.
LEMMA GotStays ==
  ASSUME MirrorInv, MirrorInv', AckInv, LeafStays, rPend.on, Got
  PROVE  Got'
<1>1. /\ rPend.value \in Nat /\ rPend.entity \in Entities /\ seen["MQTT"][rPend.entity] \in Nat
  BY ClaimTypes, Zenon
<1>2. seen'["MQTT"][rPend.entity] \in Nat
  BY <1>1, Zenon DEF MirrorInv, Typed, BridgeTyped, Sinks
<1>3. seen["MQTT"][rPend.entity] <= seen'["MQTT"][rPend.entity] /\ outages' = outages /\ rPend' = rPend
  BY Zenon DEF LeafStays
<1>4. outages = 0 => rPend.value <= seen["MQTT"][rPend.entity]
  BY Zenon DEF Got
<1>5. outages = 0 => rPend.value <= seen'["MQTT"][rPend.entity]
  BY ONLY <1>1, <1>2, <1>3, <1>4
<1> QED
  BY <1>3, <1>5, Zenon DEF Got

\* What may be acked still may be, and what is handed on still is.
LEMMA ClaimsStay ==
  ASSUME MirrorInv, MirrorInv', AckInv, LeafStays
  PROVE  /\ \A n : Given(n) => Given(n)'
         /\ \A d : Handed(d) /\ (rPend.on => shown[rPend.entity] <= shown'[rPend.entity]) => Handed(d)'
<1>1. UNCHANGED <<rTx, rPend, rBooted, outages>>
  BY Zenon DEF LeafStays
<1>2. \A n : Given(n) => Given(n)'
  BY <1>1, GotStays, Zenon DEF Given, Used, Awaited
<1>3. ASSUME NEW d, Handed(d), rPend.on => shown[rPend.entity] <= shown'[rPend.entity]
      PROVE  Handed(d)'
  <2>1. rPend.on => /\ rPend.value \in Nat /\ shown[rPend.entity] \in Nat /\ rPend.entity \in Entities
    BY ClaimTypes, Zenon
  <2>2. rPend.on => shown'[rPend.entity] \in Nat
    BY <2>1, Zenon DEF MirrorInv, Typed, BridgeTyped
  <2>3. Awaited(d.base) => rPend.on /\ rPend.value <= shown[rPend.entity]
    BY <1>3, Zenon DEF Handed, Awaited
  <2>4. Awaited(d.base) => rPend.value <= shown'[rPend.entity]
    BY ONLY <1>3, <2>1, <2>2, <2>3
  <2> QED
    BY <2>4, <1>1, <1>3, GotStays, Zenon DEF Handed, Used, Awaited
<1> QED
  BY <1>2, <1>3, Zenon

\* Such a step keeps the invariant when its new claims are true.
LEMMA LeafStaysKeeps ==
  ASSUME MirrorInv, MirrorInv', AckInv, AckTyped', LeafStays,
         StatesIn(up') \subseteq StatesIn(up),
         \A e \in OpenIn(bTable') : Cut(bTable'.asm[e].base, e, Assembled(bTable'.asm[e])),
         \A d \in waiting' : Handed(d)',
         bLast' = bLast \/ Given(bLast)',
         \A f \in AcksIn(down') : f \in AcksIn(down) \/ Given(f.body.ref)'
  PROVE  AckInv'
<1>1. Names /\ LeafSound
  BY Zenon DEF AckInv
<1>2. sc' = sc /\ UNCHANGED <<rKey, rTx, rDirty, rPend, rBooted, sinks, outages>>
  BY Zenon DEF LeafStays, sc
<1>3. LeafSound'
  BY <1>1, <1>2, Zenon DEF LeafSound
<1>4. ASSUME NEW n, Given(n) PROVE Given(n)'
  BY <1>2, <1>4, GotStays, Zenon DEF Given, Used, Awaited
<1>5. \A f \in StatesIn(up') : Cut(BaseOf(f), f.body.entity, {f.body.msg})'
  BY <1>1, <1>2, Zenon DEF Names, Cut, Used, Awaited
<1>6. \A e \in OpenIn(bTable') : Cut(bTable.asm[e].base, e, Assembled(bTable.asm[e]))'
  BY <1>2, Zenon DEF Cut, Used, Awaited, Assembled
<1>7. Given(bLast)'
  <2>1. CASE bLast' = bLast
    <3>1. PICK n : n = bLast /\ Given(n)
      BY <1>1, Zenon DEF Names
    <3> QED
      BY <2>1, <3>1, <1>4, Zenon DEF Given, Used, Awaited
  <2> QED
    BY <2>1, Zenon
<1>8. \A f \in AcksIn(down') : Given(f.body.ref)'
  BY <1>1, <1>4, Zenon DEF Names
<1>9. Names'
  BY <1>5, <1>6, <1>7, <1>8, Zenon DEF Names, OpenIn
<1> QED
  BY <1>2, <1>3, <1>9, Zenon DEF AckInv

\* send_state_ack_ adds one ack, if there is room for it.
LEMMA AckSent ==
  ASSUME MirrorInv, AckInv, NEW ref \in Nat, SendStateAck(ref)
  PROVE  /\ down' \in Seq(DownFrames) /\ bTx' \in Nat
         /\ \A f \in AcksIn(down') : f \in AcksIn(down) \/ f.body.ref = ref
<1>1. down \in Seq(DownFrames) /\ bTx \in Nat /\ bKey \in Nat
  BY Zenon DEF AckInv, AckTyped, MirrorInv, Typed, LinkTyped
<1>2. StateAck(ref) \in DownFrames /\ StateAck(ref).body.ref = ref
  BY <1>1, Zenon DEF StateAck, Frame, DownFrames
<1>3. down' = Put(down, StateAck(ref)) /\ bTx' = bTx + 1
  BY Zenon DEF SendStateAck
<1>4. down' \in Seq(DownFrames) /\ Frames(down') \subseteq Frames(down) \cup {StateAck(ref)}
  BY <1>1, <1>2, <1>3, PutFrames, Zenon
<1>5. \A f \in AcksIn(down') : f \in AcksIn(down) \/ f.body.ref = ref
  BY <1>2, <1>4, Zenon DEF AcksIn
<1>6. bTx' \in Nat
  BY <1>1, <1>3
<1> QED
  BY <1>4, <1>5, <1>6, Zenon

\* What the bridge may have told the leaf in a step: that message n arrived.
Told(n) ==
  /\ down' \in Seq(DownFrames) /\ bTx' \in Nat
  /\ bLast' = bLast \/ bLast' = n
  /\ \A f \in AcksIn(down') : f \in AcksIn(down) \/ f.body.ref = n

\* confirm_state_delivery_ tells about its message.
LEMMA ConfirmTells ==
  ASSUME MirrorInv, AckInv, NEW n \in Nat, Confirm(n)
  PROVE  Told(n)
<1>1. CASE UNCHANGED <<bLast, down, bTx>>
  BY <1>1, Zenon DEF Told, AckInv, AckTyped
<1>2. CASE SendStateAck(n) /\ (bLast' = n \/ bLast' = bLast)
  <2>1. /\ down' \in Seq(DownFrames) /\ bTx' \in Nat
        /\ \A f \in AcksIn(down') : f \in AcksIn(down) \/ f.body.ref = n
    BY <1>2, AckSent, Zenon
  <2> QED
    BY <2>1, <1>2, Zenon DEF Told
<1> QED
  BY <1>1, <1>2, Zenon DEF Confirm

\* mark_state_sink_delivered_: a sink reports the message it was given, if it can.
LEMMA DeliveredKeeps ==
  ASSUME MirrorInv, MirrorInv', AckInv, LeafStays,
         UNCHANGED <<bTable, shown>>, StatesIn(up') \subseteq StatesIn(up), Len(up') <= sc.cap,
         NEW e \in Entities, NEW n \in Nat, NEW s \in Sinks,
         Delivered(e, n, s) \/ UNCHANGED <<waiting, bLast, down, bTx>>,
         s = "MQTT" /\ rPend.on /\ rPend.entity = e /\ rPend.value <= shown[e] => Got'
  PROVE  AckInv'
<1> DEFINE hit == {d \in waiting : d.entity = e /\ d.base = n}
           d == CHOOSE d \in hit : TRUE
           g == [d EXCEPT !.delivered = @ \cup {s}]
<1>1. /\ UNCHANGED <<hits, rKey, rTx, rDirty, rPend, rBooted, sinks, outages>> /\ sc' = sc
  BY Zenon DEF LeafStays, sc
<1>2. waiting \in SUBSET Deliveries /\ Names
  BY Zenon DEF AckInv, AckTyped
<1>3. ASSUME NEW x \in waiting PROVE Handed(x)'
  <2>1. Handed(x)
    BY <1>2, Zenon DEF Names
  <2> QED
    BY <2>1, <1>1, GotStays, Zenon DEF Handed, Used, Awaited
<1>4. ASSUME AckTyped', \A x \in waiting' : Handed(x)', bLast' = bLast \/ Given(bLast)',
             \A f \in AcksIn(down') : f \in AcksIn(down) \/ Given(f.body.ref)'
      PROVE  AckInv'
  <2>1. \A a \in OpenIn(bTable') : Cut(bTable'.asm[a].base, a, Assembled(bTable'.asm[a]))
    BY <1>2, Zenon DEF Names
  <2> QED
    BY <2>1, <1>4, LeafStaysKeeps, Zenon
<1>5. ASSUME waiting' \subseteq Deliveries, down' \in Seq(DownFrames), bTx' \in Nat, bLast' \in Nat
      PROVE  AckTyped'
  BY <1>1, <1>5, Zenon DEF AckInv, AckTyped
<1>6. CASE UNCHANGED <<waiting, bLast, down, bTx>>
  <2>1. AckTyped'
    BY <1>5, <1>6, Zenon DEF AckInv, AckTyped
  <2> QED
    BY <2>1, <1>3, <1>4, <1>6, Zenon
<1>7. CASE hit # {} /\ Delivered(e, n, s)
  <2>1. d \in waiting /\ d.entity = e /\ d.base = n /\ d \in Deliveries
    BY <1>2, <1>7, Zenon
  <2>2. IF g.required \subseteq g.delivered
          THEN waiting' = waiting \ {d} /\ Confirm(n)
          ELSE waiting' = (waiting \ {d}) \cup {g} /\ UNCHANGED <<bLast, down, bTx>>
    BY <1>7, Zenon DEF Delivered
  <2> HIDE DEF d
  <2>3. g \in Deliveries /\ g.entity = e /\ g.base = n /\ g.required = d.required /\ g.delivered = d.delivered \cup {s}
    BY <2>1, Zenon DEF Deliveries
  <2> HIDE DEF g
  <2>4. /\ Used(n)
        /\ Awaited(n) => /\ e = rPend.entity /\ rPend.on /\ rPend.value <= shown[e]
                         /\ "MQTT" \in d.delivered => Got
        /\ outages = 0 => "MQTT" \in d.required
    BY <2>1, <1>2, Zenon DEF Names, Handed, Awaited
  <2>5. Awaited(n) /\ "MQTT" \in g.delivered => Got'
    BY <2>3, <2>4, GotStays, Zenon
  <2>6. CASE g.required \subseteq g.delivered
    <3>1. Told(n) /\ waiting' = waiting \ {d}
      BY <2>2, <2>6, ConfirmTells, Zenon
    <3>2. outages = 0 => "MQTT" \in g.delivered
      BY <2>3, <2>4, <2>6, Zenon
    <3>3. Awaited(n) => Got'
      BY <3>2, <2>5, <1>1, Zenon DEF Got
    <3>4. Given(n)'
      BY <3>3, <2>4, <1>1, Zenon DEF Given, Used, Awaited
    <3>5. bLast' = bLast \/ Given(bLast)'
      BY <3>1, <3>4, Zenon DEF Told, Given, Used, Awaited
    <3>6. \A f \in AcksIn(down') : f \in AcksIn(down) \/ Given(f.body.ref)'
      BY <3>1, <3>4, Zenon DEF Told
    <3>7. bLast' \in Nat
      BY <3>1, Zenon DEF Told, AckInv, AckTyped
    <3>8. AckTyped'
      BY <3>1, <3>7, <1>2, <1>5, Zenon DEF Told
    <3> QED
      BY <3>1, <3>5, <3>6, <3>8, <1>3, <1>4, Zenon
  <2>7. CASE ~(g.required \subseteq g.delivered)
    <3>1. waiting' = (waiting \ {d}) \cup {g} /\ UNCHANGED <<bLast, down, bTx>>
      BY <2>2, <2>7, Zenon
    <3>2. PICK h : h = g
      BY Zenon
    <3>4. Handed(h)'
      BY <3>2, <2>3, <2>4, <2>5, <1>1, Zenon DEF Handed, Used, Awaited
    <3>3. AckTyped'
      BY <3>1, <2>3, <1>2, <1>5, Zenon DEF AckInv, AckTyped
    <3> QED
      BY <3>1, <3>2, <3>3, <3>4, <1>3, <1>4, Zenon
  <2> QED
    BY <2>6, <2>7, Zenon
<1> QED
  BY <1>6, <1>7, Zenon DEF Delivered

\* The broker takes a value.
LEMMA MqttAck ==
  ASSUME MirrorInv, MirrorInv', AckInv, NEW e \in Entities, MqttPublish(e)
  PROVE  AckInv'
<1>1. /\ UNCHANGED <<hits, rKey, rTx, rDirty, rPend, rBooted, sinks, outages, bTable, shown, up>>
      /\ seen' = [seen EXCEPT !["MQTT"][e] = mqtt[e].value] /\ mqtt[e].dirty
      /\ Delivered(e, mqtt[e].ack, "MQTT") \/ UNCHANGED <<waiting, bLast, down, bTx>>
  BY Zenon DEF MqttPublish, rSession, rStates
<1>2. CaughtUp(seen["MQTT"], seen'["MQTT"])
  BY MqttMirror, Zenon
<1>3. LeafStays
  <2>1. rPend.on => rPend.entity \in Entities
    BY ClaimTypes, Zenon
  <2> QED
    BY <2>1, <1>1, <1>2, Zenon DEF LeafStays, CaughtUp
<1>4. seen'["MQTT"][e] = shown[e] /\ mqtt[e].ack \in Nat /\ "MQTT" \in Sinks
  <2>1. /\ mqtt[e].value = shown[e] /\ mqtt[e].ack \in Nat /\ "MQTT" \in Sinks
        /\ seen \in [Sinks -> [Entities -> Nat]]
    BY Zenon DEF MirrorInv, InOrder, ViewsInOrder, Typed, BridgeTyped, Sinks
  <2> QED
    BY <2>1, <1>1, Zenon
<1>5. rPend.entity = e /\ rPend.value <= shown[e] => Got'
  BY <1>1, <1>4, Zenon DEF Got
<1>6. Len(up') <= sc.cap /\ StatesIn(up') \subseteq StatesIn(up)
  BY <1>1, Zenon DEF AckInv, AckTyped
<1>7. PICK n \in Nat : n = mqtt[e].ack
  BY <1>4, Zenon
<1> QED
  BY <1>1, <1>3, <1>4, <1>5, <1>6, <1>7, DeliveredKeeps, ZenonT(30)

\* The API client takes a value.
LEMMA ApiAck ==
  ASSUME MirrorInv, MirrorInv', AckInv, ApiReceipt
  PROVE  AckInv'
<1>1. /\ apiQ \in Seq(Receipts) /\ apiQ # << >>
      /\ seen \in [Sinks -> [Entities -> Nat]] /\ "MQTT" \in Sinks /\ "API" \in Sinks /\ "API" # "MQTT"
  BY Zenon DEF MirrorInv, Typed, BridgeTyped, Sinks, ApiReceipt
<1>2. PICK m \in Receipts : m = Head(apiQ)
  BY <1>1, TailElements, Zenon
<1>3. m.entity \in Entities /\ m.base \in Nat
  BY Zenon DEF Receipts
<1>4. /\ UNCHANGED <<hits, rKey, rTx, rDirty, rPend, rBooted, sinks, outages, bTable, shown, up>>
      /\ seen' = [seen EXCEPT !["API"][m.entity] = m.value]
      /\ Delivered(m.entity, m.base, "API") \/ UNCHANGED <<waiting, bLast, down, bTx>>
  BY <1>2, Zenon DEF ApiReceipt, rSession, rStates
<1>5. seen'["MQTT"] = seen["MQTT"]
  BY <1>1, <1>4, Zenon
<1>6. LeafStays
  <2>1. rPend.on => seen["MQTT"][rPend.entity] <= seen'["MQTT"][rPend.entity]
    <3>1. rPend.on => seen["MQTT"][rPend.entity] \in Nat
      BY ClaimTypes, Zenon
    <3> QED
      BY ONLY <3>1, <1>5
  <2> QED
    BY <2>1, <1>4, Zenon DEF LeafStays
<1>7. Len(up') <= sc.cap /\ StatesIn(up') \subseteq StatesIn(up)
  BY <1>4, Zenon DEF AckInv, AckTyped
<1> QED
  BY <1>1, <1>3, <1>4, <1>6, <1>7, DeliveredKeeps, ZenonT(30)

-----------------------------------------------------------------------------
(* A STATE frame at the bridge.                                             *)

\* What is assembled of a fragment's own message.
Prior(t, f) ==
  IF f.entity \in OpenIn(t) /\ t.asm[f.entity].base = f.base THEN Assembled(t.asm[f.entity]) ELSE {}

\* An assembly takes fragments of its own message only.
LEMMA StoreNames ==
  ASSUME NEW a \in Assemblies, NEW f \in FragmentType, ~StoreRefused(a, f)
  PROVE  /\ BridgeStore(a, f).base = f.base
         /\ Assembled(BridgeStore(a, f)) \subseteq (IF a.active THEN Assembled(a) ELSE {}) \cup {f.msg}
<1> DEFINE b == IF a.active THEN a
                ELSE [active |-> TRUE, base |-> f.base, count |-> f.count, parts |-> {}, flag |-> f.flag]
           c == IF f.index = f.count - 1 THEN [b EXCEPT !.flag = f.flag] ELSE b
<1>1. b \in Assemblies /\ b.base = f.base /\ b.parts = (IF a.active THEN a.parts ELSE {})
  <2>1. a.active => a.base = f.base
    BY Zenon DEF StoreRefused
  <2> QED
    BY <2>1, Zenon DEF Assemblies, FragmentType
<1> HIDE DEF b
<1>2. c \in Assemblies /\ c.base = f.base /\ c.parts = b.parts
  BY <1>1, Zenon DEF Assemblies, FragmentType
<1>3. BridgeStore(a, f) = IF f.index \in Indices(c) THEN c ELSE [c EXCEPT !.parts = @ \cup {<<f.index, f.msg>>}]
  BY Zenon DEF BridgeStore, b
<1> HIDE DEF c
<1>4. /\ BridgeStore(a, f).base = f.base
      /\ BridgeStore(a, f).parts \subseteq c.parts \cup {<<f.index, f.msg>>}
  BY <1>2, <1>3, ZenonT(30) DEF Assemblies
<1>5. \A p \in BridgeStore(a, f).parts : p \in b.parts \/ p[2] = f.msg
  BY <1>2, <1>4
<1> QED
  BY <1>1, <1>4, <1>5, Zenon DEF Assembled

\* What a fragment completes is of its own message, and so is what its entity has open, if
\* that is not what it was.
OfOneMessage(t, f, r) ==
  /\ r.done => r.whole \subseteq Prior(t, f) \cup {f.msg}
  /\ f.entity \in OpenIn(r.table) =>
       \/ f.entity \in OpenIn(t) /\ r.table.asm[f.entity] = t.asm[f.entity]
       \/ /\ r.table.asm[f.entity].base = f.base
          /\ Assembled(r.table.asm[f.entity]) \subseteq Prior(t, f) \cup {f.msg}

\* The bridge mixes no two messages.
LEMMA ReceiveNames ==
  ASSUME NEW t \in Tables, NEW f \in FragmentType, NEW r, r = Receive(t, f, TRUE)
  PROVE  OfOneMessage(t, f, r)
<1> DEFINE u == Admit(t, f)
           a == u.asm[f.entity]
           s == BridgeStore(a, f)
           w == [u EXCEPT !.asm[f.entity] = s]
<1>1. /\ u \in Tables /\ a \in Assemblies /\ f.entity \in Entities
      /\ a = Inactive \/ (t.asm[f.entity] # NoEntry /\ a = t.asm[f.entity])
  <2>1. f.entity \in Entities
    BY Zenon DEF FragmentType
  <2> QED
    BY Zenon, <2>1, AdmitEffect
<1>2. ~Inactive.active
  BY Zenon DEF Inactive
<1>3. a.active => f.entity \in OpenIn(t) /\ a = t.asm[f.entity]
  <2> HIDE DEF a
  <2> QED
    BY <1>1, <1>2, Zenon DEF OpenIn
<1>4. s \in Assemblies
  <2> HIDE DEF a
  <2> QED
    BY Zenon, <1>1, StoreEffect
<1>5. ASSUME ~StoreRefused(a, f)
      PROVE  s.base = f.base /\ Assembled(s) \subseteq Prior(t, f) \cup {f.msg}
  <2> HIDE DEF a
  <2>1. /\ s.base = f.base
        /\ Assembled(s) \subseteq (IF a.active THEN Assembled(a) ELSE {}) \cup {f.msg}
    BY <1>1, <1>5, StoreNames, Zenon
  <2>2. a.active => a.base = f.base
    BY <1>5, Zenon DEF StoreRefused
  <2> HIDE DEF s
  <2> QED
    BY <2>1, <2>2, <1>3, Zenon DEF Prior
<1>6. w \in Tables /\ w.asm[f.entity] = s
  BY <1>1, <1>4, Zenon DEF Tables
<1>7. Release(w, f.entity).asm[f.entity] = NoEntry
  <2> HIDE DEF w, s
  <2> QED
    BY <1>1, <1>4, <1>6, ReleaseEffect, Zenon
<1>8. \/ r.table = t /\ r.done = FALSE
      \/ r.table = u /\ r.done = FALSE
      \/ r.table = w /\ r.done = FALSE /\ ~StoreRefused(a, f)
      \/ r.table = Release(w, f.entity) /\ r.done = TRUE /\ r.whole = Assembled(s) /\ ~StoreRefused(a, f)
  BY Zenon DEF Receive
<1> HIDE DEF w, s
<1>9. CASE r.table = t /\ r.done = FALSE
  BY <1>9, Zenon DEF OfOneMessage
<1>10. CASE r.table = u /\ r.done = FALSE
  <2>1. f.entity \in OpenIn(u) => a.active
    BY Zenon DEF OpenIn
  <2> HIDE DEF u
  <2> QED
    BY <2>1, <1>3, <1>10, Zenon DEF OfOneMessage
<1>11. CASE r.table = w /\ r.done = FALSE /\ ~StoreRefused(a, f)
  BY <1>5, <1>6, <1>11, Zenon DEF OfOneMessage
<1>12. CASE r.table = Release(w, f.entity) /\ r.done = TRUE /\ r.whole = Assembled(s) /\ ~StoreRefused(a, f)
  BY <1>5, <1>7, <1>12, Zenon DEF OpenIn, OfOneMessage
<1> QED
  BY <1>8, <1>9, <1>10, <1>11, <1>12, Zenon

\* handle_state_: an ack repeated, a fragment kept, or a message passed on under its name.
LEMMA StateAckStep ==
  ASSUME MirrorInv, MirrorInv', AckInv, HandleState
  PROVE  AckInv'
<1>1. /\ UNCHANGED <<hits, rKey, rTx, rDirty, rPend, rBooted, sinks, seen, outages>>
      /\ up # << >> /\ up' = Tail(up) /\ Head(up).kind = "STATE"
  BY Zenon DEF HandleState, UpIs, rSession, rStates
<1>2. sc' = sc /\ Names /\ AckTyped /\ bLast \in Nat /\ (outages = 0 => "MQTT" \in sinks)
  BY <1>1, Zenon DEF sc, AckInv, AckTyped
<1>3. StatesIn(up') \subseteq StatesIn(up) /\ Len(up') <= sc.cap
  BY <1>1, UpStays, Zenon DEF UpCalm
<1>4. LeafStays
  <2>1. rPend.on => seen["MQTT"][rPend.entity] <= seen'["MQTT"][rPend.entity]
    <3>1. rPend.on => seen["MQTT"][rPend.entity] \in Nat
      BY ClaimTypes, Zenon
    <3> QED
      BY ONLY <3>1, <1>1
  <2> QED
    BY <2>1, <1>1, Zenon DEF LeafStays
<1>5. CaughtUp(shown, shown')
  BY StateMirror, Zenon
<1>6. /\ \A n : Given(n) => Given(n)'
      /\ \A d \in waiting : Handed(d)'
  <2>1. rPend.on => rPend.entity \in Entities
    BY ClaimTypes, Zenon
  <2>2. rPend.on => shown[rPend.entity] <= shown'[rPend.entity]
    BY <2>1, <1>5, Zenon DEF CaughtUp
  <2> QED
    BY <2>2, <1>2, <1>4, ClaimsStay, Zenon DEF Names
<1>7. PICK x : x = Head(up) /\ x \in StatesIn(up) /\ x \in UpFrames
  <2>1. up \in Seq(UpFrames)
    BY Zenon DEF MirrorInv, Typed, LinkTyped
  <2> QED
    BY <2>1, <1>1, TakenFrames, Zenon DEF StatesIn
<1>8. PICK base \in Nat, e \in Entities, m \in Nat :
        /\ base = MessageTxBase(x.tx, x.body.index) /\ e = x.body.entity /\ m = x.body.msg
        /\ x.body.index \in Nat /\ x.body.count \in Nat
  <2>1. BaseOf(x) \in Nat /\ x.body \in StateBody
    BY <1>7, NamesAreNumbers, Zenon
  <2> QED
    BY <2>1, Zenon DEF BaseOf, StateBody
<1>9. Cut(base, e, {m})
  BY <1>2, <1>7, <1>8, Zenon DEF Names, BaseOf
\* What is left to show, for a step that tells of message n.
<1>10. ASSUME NEW n, Told(n), Given(n)' \/ UNCHANGED <<bLast, down>>, waiting' \subseteq Deliveries,
              \A d \in waiting' : Handed(d)',
              \A d \in OpenIn(bTable') : Cut(bTable'.asm[d].base, d, Assembled(bTable'.asm[d])),
              n \in Nat
       PROVE  AckInv'
  <2>1. bLast' = bLast \/ Given(bLast)'
    BY <1>10, Zenon DEF Told, Given, Used, Awaited
  <2>2. \A f \in AcksIn(down') : f \in AcksIn(down) \/ Given(f.body.ref)'
    BY <1>10, Zenon DEF Told
  <2>3. AckTyped'
    BY <1>1, <1>2, <1>3, <1>10, Zenon DEF AckTyped, Told
  <2> QED
    BY <2>1, <2>2, <2>3, <1>3, <1>4, <1>10, LeafStaysKeeps, ZenonT(30)
<1>11. Told(bLast) \/ ~UNCHANGED <<bLast, down, bTx>>
  BY <1>2, Zenon DEF Told, AckTyped
<1>12. ASSUME Told(bLast), UNCHANGED <<bTable, bLast, waiting>> PROVE AckInv'
  <2>1. PICK n : n = bLast
    BY Zenon
  <2>2. Given(n)' /\ Told(n)
    <3>1. Given(n)
      BY <2>1, <1>2, Zenon DEF Names
    <3> QED
      BY <3>1, <2>1, <1>6, <1>12, Zenon DEF Told
  <2> QED
    BY <2>1, <2>2, <1>2, <1>6, <1>10, <1>12, ZenonT(30) DEF Names, AckTyped
<1>13. CASE x.key # bKey
  <2>1. down' = Put(down, Frame("DEAUTH", 0, 1, Nothing)) /\ UNCHANGED <<bTx, bTable, bLast, waiting>>
    BY <1>7, <1>13, Zenon DEF HandleState
  <2>2. down' \in Seq(DownFrames) /\ AcksIn(down') \subseteq AcksIn(down)
    BY <2>1, DownStays, Zenon DEF DownCalm
  <2>3. Told(bLast)
    BY <2>1, <2>2, <1>2, Zenon DEF Told, AckTyped
  <2> QED
    BY <2>1, <2>3, <1>12, Zenon
<1>14. CASE base = bLast /\ SendStateAck(base) /\ UNCHANGED <<bTable, bLast, waiting>>
  <2>1. Told(bLast)
    BY <1>14, AckSent, Zenon DEF Told
  <2> QED
    BY <2>1, <1>12, <1>14, Zenon
<1>15. CASE UNCHANGED <<bTx, down, bTable, bLast, waiting>>
  BY <1>11, <1>12, <1>15, Zenon
<1> DEFINE f == [entity |-> e, index |-> x.body.index, count |-> x.body.count,
                 base |-> base, flag |-> FALSE, msg |-> m]
<1>16. ASSUME NEW r, r = Receive(bTable, f, TRUE), bTable' = r.table,
              \/ r.done /\ \E v \in r.whole : Publish(e, v, base)
              \/ ~r.done /\ UNCHANGED <<bTx, down, bLast, waiting>>
       PROVE  AckInv'
  <2>1. f \in FragmentType /\ f.entity = e /\ f.msg = m /\ f.base = base /\ bTable \in Tables
    BY <1>8, Zenon DEF FragmentType, MirrorInv, Typed, BridgeTyped
  <2> HIDE DEF f
  <2>2. Cut(f.base, f.entity, Prior(bTable, f) \cup {f.msg})
    <3>1. e \in OpenIn(bTable) => Cut(bTable.asm[e].base, e, Assembled(bTable.asm[e]))
      BY <1>2, Zenon DEF Names
    <3> QED
      BY <3>1, <2>1, <1>9, Zenon DEF Prior, Cut
  <2>3. OfOneMessage(bTable, f, r)
    BY <2>1, <1>16, ReceiveNames, Zenon
  <2>4. \A d \in Entities \ {f.entity} : bTable'.asm[d] = bTable.asm[d]
    BY <2>1, <1>16, ReceiveOthers, Zenon
  <2>5. \A d \in OpenIn(bTable') : Cut(bTable'.asm[d].base, d, Assembled(bTable'.asm[d]))
    <3> SUFFICES ASSUME NEW d \in OpenIn(bTable') PROVE Cut(bTable'.asm[d].base, d, Assembled(bTable'.asm[d]))
      BY Zenon
    <3>1. CASE d \in OpenIn(bTable) /\ bTable'.asm[d] = bTable.asm[d]
      BY <3>1, <1>2, Zenon DEF Names
    <3>2. CASE /\ d = f.entity /\ bTable'.asm[d].base = f.base
               /\ Assembled(bTable'.asm[d]) \subseteq Prior(bTable, f) \cup {f.msg}
      BY <3>2, <2>2, Zenon DEF Cut
    <3>3. CASE d # f.entity
      BY <3>1, <3>3, <2>4, Zenon DEF OpenIn
    <3> QED
      BY <3>1, <3>2, <3>3, <2>3, <1>16, Zenon DEF OfOneMessage
  <2>6. CASE UNCHANGED <<bTx, down, bLast, waiting>>
    <3>1. PICK n \in Nat : n = bLast
      BY <1>2, Zenon
    <3> QED
      BY <3>1, <2>5, <2>6, <1>2, <1>6, <1>10, <1>11, ZenonT(30) DEF AckTyped
  <2>7. ASSUME r.done, NEW v \in r.whole, Publish(e, v, base) PROVE AckInv'
    <3>1. shown' = [shown EXCEPT ![e] = v] /\ BeginDelivery(e, base)
      BY <2>7, Zenon DEF Publish
    <3>2. Used(base) /\ (Awaited(base) => e = rPend.entity /\ v = rPend.value)
      BY <2>1, <2>2, <2>3, <2>7, Zenon DEF Cut, OfOneMessage
    <3>3. shown'[e] = v
      BY <3>1, Zenon DEF MirrorInv, Typed, BridgeTyped
    <3>4. CASE sinks = {}
      <4>1. Told(base) /\ waiting' = waiting
        BY <3>1, <3>4, ConfirmTells, Zenon DEF BeginDelivery
      <4>2. outages # 0
        BY <3>4, <1>2, Zenon
      <4>3. Given(base)'
        BY <4>2, <3>2, <1>1, Zenon DEF Given, Used, Awaited, Got
      <4> QED
        BY <4>1, <4>3, <2>5, <1>2, <1>6, <1>10, ZenonT(30) DEF AckTyped
    <3>5. CASE sinks # {}
      <4>1. PICK g : g = [entity |-> e, base |-> base, required |-> sinks, delivered |-> {}]
        BY Zenon
      <4>2. waiting' \subseteq waiting \cup {g} /\ UNCHANGED <<bLast, down, bTx>>
        BY <4>1, <3>1, <3>5, Zenon DEF BeginDelivery
      <4>3. g.entity = e /\ g.base = base /\ g.required = sinks /\ g.delivered = {} /\ g \in Deliveries
        <5>1. sinks \subseteq Sinks
          BY Zenon DEF MirrorInv, Typed, BridgeTyped
        <5> QED
          BY <5>1, <4>1, Zenon DEF Deliveries
      <4>4. Awaited(base) => rPend.value <= shown'[rPend.entity]
        <5>1. Awaited(base) => rPend.value = shown'[rPend.entity]
          BY <3>2, <3>3, Zenon
        <5>2. rPend.value \in Nat
          BY ClaimTypes, Zenon
        <5> QED
          BY ONLY <5>1, <5>2
      <4>5. Handed(g)'
        BY <4>3, <4>4, <3>2, <1>1, <1>2, Zenon DEF Handed, Used, Awaited
      <4>6. PICK n \in Nat : n = bLast
        BY <1>2, Zenon
      <4>7. waiting' \subseteq Deliveries /\ \A d \in waiting' : Handed(d)'
        BY <4>2, <4>3, <4>5, <1>2, <1>6, Zenon DEF AckTyped
      <4> QED
        BY <4>2, <4>6, <4>7, <2>5, <1>10, <1>11, ZenonT(30)
    <3> QED
      BY <3>4, <3>5, Zenon
  <2> QED
    BY <2>6, <2>7, <1>16, Zenon
<1>17. CASE x.key = bKey /\ ~UNCHANGED <<bTx, down, bTable, bLast, waiting>>
            /\ ~(base = bLast /\ SendStateAck(base) /\ UNCHANGED <<bTable, bLast, waiting>>)
  <2>1. StateFragment(x)
    BY <1>7, <1>17, Zenon DEF HandleState
  <2>2. \E r \in {Receive(bTable, f, TRUE)} :
          /\ bTable' = r.table
          /\ IF r.done THEN \E v \in r.whole : Publish(e, v, base) ELSE UNCHANGED <<bTx, down, bLast, waiting>>
    BY <2>1, <1>8, <1>17, ZenonT(30) DEF StateFragment
  <2> HIDE DEF f
  <2>3. PICK r : /\ r = Receive(bTable, f, TRUE) /\ bTable' = r.table
                 /\ IF r.done THEN \E v \in r.whole : Publish(e, v, base) ELSE UNCHANGED <<bTx, down, bLast, waiting>>
    BY <2>2, Zenon
  <2> QED
    BY <2>3, <1>16, Zenon
<1> QED
  BY <1>13, <1>14, <1>15, <1>17, Zenon

-----------------------------------------------------------------------------
(* Together.                                                                *)

\* Nothing has a name at first.
LEMMA AckStart ==
  ASSUME Init, sc.dup = 0, "quick boot" \notin sc.around
  PROVE  AckInv
<1>1. PICK x \in DOMAIN Scenarios : hits = [sc |-> x, loss |-> 0, dup |-> 0, forgot |-> FALSE]
  BY Zenon DEF Init, PairInit
<1>2. MirrorInv
  BY MirrorStart, Zenon
<1>3. up = << >> /\ down = << >> /\ bTx = 1 /\ rTx = 1 /\ rBooted = FALSE /\ bLast = 0 /\ outages = 0
  BY Zenon DEF Init, PairInit
<1>4. waiting = {} /\ rDirty = sc.entities /\ ~rPend.on /\ bTable = EmptyTable /\ "MQTT" \in sinks
  BY Zenon DEF Init, NotWaiting
<1>5. Len(up) <= sc.cap
  <2>1. hits.sc \in DOMAIN Scenarios
    BY <1>2, Zenon DEF MirrorInv, Typed, LinkTyped
  <2>2. sc.cap \in Nat \ {0} /\ Len(up) = 0
    BY <2>1, <1>3, PairAssumption, Zenon DEF sc, PairScenario
  <2> QED
    BY ONLY <2>2
<1>6. AckTyped
  <2>1. down \in Seq(DownFrames) /\ bTx \in Nat /\ bLast \in Nat /\ outages \in Nat /\ rTx \in Nat \ {0}
    BY ONLY <1>3
  <2> QED
    BY <2>1, <1>3, <1>4, <1>5, Zenon DEF AckTyped
<1>7. StatesIn(up) = {} /\ AcksIn(down) = {} /\ OpenIn(bTable) = {}
  <2>1. Frames(<< >>) = {}
    BY ONLY TRUE DEF Frames
  <2> QED
    BY <2>1, <1>3, <1>4, Zenon DEF StatesIn, AcksIn, OpenIn, EmptyTable
<1>8. Given(bLast)
  <2>1. bLast < rTx
    BY ONLY <1>3
  <2> QED
    BY <2>1, <1>4, Zenon DEF Given, Used, Awaited
<1>9. LeafSound
  BY <1>3, <1>4, Zenon DEF LeafSound
<1> QED
  BY <1>4, <1>6, <1>7, <1>8, <1>9, Zenon DEF AckInv, Names

\* Every step keeps the names.
LEMMA AckNext ==
  ASSUME MirrorInv, AckInv, WellOrdered, [Next]_vars
  PROVE  AckInv'
<1>0. MirrorInv'
  BY MirrorNext, Zenon
<1>1. CASE UNCHANGED vars
  <2>1. UNCHANGED <<hits, down, bTx, bLast, outages, waiting, rBooted, rTx, up, rDirty, rKey, rPend,
                    bTable, shown, seen, sinks>>
    BY <1>1, Zenon DEF vars, pairVars, bSession, rSession, path, rStates, bStates
  <2>2. BridgeCalm
    BY <2>1, Zenon DEF BridgeCalm, OpenIn
  <2> QED
    BY <2>1, <2>2, <1>0, ScenarioStays, BridgeCalmKeeps, Zenon
<1>2. CASE SessionSteps /\ UNCHANGED <<rStates, bStates>>
  BY <1>0, <1>2, SessionAck, Zenon
<1>3. CASE \/ StateTimeout \/ RouteResumed \/ HandleStateAck \/ HandleDeauth \/ GiveUp
           \/ \E e \in Entities : Change(e) \/ Commanded(e)
  BY <1>0, <1>3, LeafAck, Zenon
<1>4. CASE \/ BridgeRestart \/ EvictSession
           \/ \E e \in Entities : PruneState(e)
           \/ \E d \in waiting : ExpireDelivery(d)
           \/ \E s \in Sinks : SinkDown(s) \/ SinkUp(s)
  BY <1>0, <1>4, BridgeAck, Zenon
<1>5. CASE RemoteRestart \/ JoinStates \/ SendState \/ RetryState
  BY <1>0, <1>5, RestartAck, JoinAck, PushAck, Zenon
<1>6. CASE HandleState \/ ApiReceipt \/ \E e \in Entities : MqttPublish(e)
  BY <1>0, <1>6, StateAckStep, ApiAck, MqttAck, Zenon
<1> QED
  BY <1>1, <1>2, <1>3, <1>4, <1>5, <1>6, ZenonT(30) DEF Next, RemoteSteps, BridgeSteps, Sinks

\* Only the ack of its push makes the leaf stop waiting and clear the dirty flag.
LEMMA AckStep ==
  ASSUME MirrorInv, AckInv, WellOrdered, [Next]_vars, NEW e \in Entities,
         rPend.on, rPend.entity = e, e \in rDirty, e \notin rDirty', outages = 0, ~rPend'.on
  PROVE  seen["MQTT"][e] >= rPend.value
<1>1. HandleStateAck
  <2>1. rDirty # rDirty' /\ rPend' # rPend /\ ~(rDirty \subseteq rDirty')
    BY Zenon
  <2>2. rDirty \subseteq sc.entities
    BY Zenon DEF AckInv, LeafSound
  <2>3. ~UNCHANGED vars /\ ~(SessionSteps /\ UNCHANGED <<rStates, bStates>>) /\ ~BridgeSteps
    BY <2>1, Zenon DEF vars, rStates, BridgeSteps, HandleState, ApiReceipt, BridgeRestart, EvictSession,
       PruneState, MqttPublish, ExpireDelivery, SinkDown, SinkUp
  <2>4. ~JoinStates /\ ~(\E d \in Entities : Change(d) \/ Commanded(d))
    BY <2>1, Zenon DEF JoinStates, Change, Commanded
  <2>5. ~StateTimeout /\ ~RouteResumed /\ ~HandleDeauth /\ ~GiveUp /\ ~RemoteRestart
    BY <2>1, <2>2, Zenon DEF StateTimeout, RouteResumed, HandleDeauth, GiveUp, RemoteRestart, rStates
  <2>6. ~SendState /\ ~RetryState
    BY <2>1, Zenon DEF SendState, RetryState, PushState
  <2> QED
    BY <2>3, <2>4, <2>5, <2>6, Zenon DEF Next, RemoteSteps
<1>2. down # << >> /\ Head(down).kind = "ACK" /\ Head(down).body.ref = rPend.base
  BY <1>1, Zenon DEF HandleStateAck, DownIs, AwaitedAck
<1>3. Head(down) \in AcksIn(down)
  <2>1. down \in Seq(DownFrames)
    BY Zenon DEF AckInv, AckTyped
  <2> QED
    BY <2>1, <1>2, TakenFrames, Zenon DEF AcksIn
<1>4. rPend.value <= seen["MQTT"][rPend.entity]
  BY <1>2, <1>3, Zenon DEF AckInv, Names, Given, Awaited, Got
<1> QED
  BY <1>4, ClaimTypes

-----------------------------------------------------------------------------
(* The theorems.                                                            *)

LOCAL INSTANCE WellFoundedInduction

\* A set of numbers has a least member, since < is well-founded on Nat.
LEMMA LeastMember == WellOrdered
<1> SUFFICES ASSUME NEW T \in SUBSET Nat, T # {} PROVE \E k \in T : \A j \in T : k <= j
  BY Zenon DEF WellOrdered
<1>1. IsWellFoundedOn(OpToRel(<, Nat), Nat)
  BY Zenon, NatLessThanWellFounded
<1>2. PICK k \in T : \A j \in T : ~ (<<j, k>> \in OpToRel(<, Nat))
  BY Zenon, <1>1, WFMin
<1>3. \A j \in T : ~(j < k)
  BY <1>2, Zenon DEF OpToRel
<1> QED
  BY <1>3

\* The invariant holds in every behaviour in which no frame arrives twice.
THEOREM StatesInOrder == Spec /\ sc.dup = 0 => []MirrorInv
<1>1. Init /\ sc.dup = 0 => MirrorInv
  BY Zenon, MirrorStart
<1>2. MirrorInv /\ [Next]_vars => MirrorInv'
  BY Zenon, MirrorNext, LeastMember
<1> QED
  BY <1>1, <1>2, PTL DEF Spec

\* No view of an entity (the bridge's entity_values_, MQTT, the API client) goes
\* back to an older value or runs ahead of the leaf's, whatever is lost, retried
\* early, evicted or restarted, as long as no frame arrives twice: the path of the
\* states implements ValueMirror.
THEOREM StatesMirrored == Spec /\ sc.dup = 0 => MirrorSpec
<1>1. Init /\ sc.dup = 0 => Mirror!Init
  BY Zenon, MirrorStart
<1>2. MirrorInv /\ [Next]_vars => [Mirror!Next]_(Mirror!vars)
  BY MirrorNext, LeastMember, Zenon DEF MirrorStep
<1> QED
  BY <1>1, <1>2, StatesInOrder, PTL DEF Spec, MirrorSpec, Mirror!Spec

\* As long as MQTT stays connected, handle_ack_ ends the wait for a push only when MQTT was
\* given the pushed value or a newer one, in a system where no frame arrives twice and a
\* restarted leaf rejoins after the deliveries of its last boot have ended: no retry, rejoin,
\* eviction or restart makes an ack stand for another message.
THEOREM AcksMeanDelivered ==
  Spec /\ sc.dup = 0 /\ "quick boot" \notin sc.around => AckMeansDelivered
<1>1. Init /\ sc.dup = 0 /\ "quick boot" \notin sc.around => AckInv
  BY Zenon, AckStart
<1>2. MirrorInv /\ AckInv /\ [Next]_vars => AckInv'
  BY Zenon, AckNext, LeastMember
<1>3. MirrorInv /\ AckInv /\ [Next]_vars =>
        [\A e \in Entities :
           rPend.on /\ rPend.entity = e /\ e \in rDirty /\ e \notin rDirty' /\ outages = 0 /\ ~rPend'.on
             => seen["MQTT"][e] >= rPend.value]_vars
  BY Zenon, AckStep, LeastMember
<1> QED
  BY <1>1, <1>2, <1>3, StatesInOrder, PTL DEF Spec, AckMeansDelivered
=============================================================================
