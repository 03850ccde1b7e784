-------------------------- MODULE JoinSessionProofs --------------------------
(***************************************************************************)
(* Whatever is lost, repeated or late, and whoever restarts: a session of  *)
(* the bridge whose schema counts as received holds every entity of its    *)
(* leaf (SchemaWhole).                                                     *)
(*                                                                         *)
(* The bridge asks for the entities one by one and takes the answer to the *)
(* last request for the end of the list, without a look at what it holds.  *)
(* So the argument is about the requests and answers on their way: of the  *)
(* session's own key, one with index i means that the entities before i    *)
(* are in (Exchange), and a key is never made twice, since the bridge      *)
(* draws a new nonce for it.                                               *)
(***************************************************************************)
EXTENDS JoinSession, TLAPS

-----------------------------------------------------------------------------
(* The invariant *)

Frames(q) == {q[i] : i \in 1 .. Len(q)}
IsSeq(q) == q \in Seq(Frames(q))

SentHashes == {"partial", "full"}

\* The entities before i have come in.
Had(s, i) == \A j \in 1 .. i - 1 : j \in s.ents

\* What a schema request or its answer on the way says of the session.
Exchange(l, f) ==
  /\ f.index \in 0 .. Total
  /\ f.key[1] \in 1 .. drawn[l]
  /\ f.key = Key(b[l]) => Had(b[l], f.index)

UpSound(l, f) ==
  /\ f.kind = "JOIN" => f.hash \in SentHashes
  /\ f.kind = "SCHEMA_PUSH" => Exchange(l, f)

Stages == {"COMPLETE", "SEND_STATE", "SCHEMA_REFRESH"}

DownSound(l, f) ==
  /\ (f.kind = "JOIN_ACK" /\ f.accepted) => f.stage \in Stages
  /\ f.kind = "SCHEMA_REQUEST" => Exchange(l, f)

\* The members of a session that the invariant is about.
SessionFields == {"bn", "rn", "schema", "ents", "want", "flight"}

SessionSound(l, s) ==
  /\ SessionFields \subseteq DOMAIN s
  /\ s.bn \in 0 .. drawn[l] /\ s.want \in 0 .. Total
  /\ s.ents \subseteq Entities /\ Had(s, s.want)
  /\ s.flight => s.bn # 0
  /\ s.schema => s.ents = Entities

LeafSound(x) == "hash" \in DOMAIN x /\ x.hash \in SentHashes

CacheSound(c) == c.hash # "none" => c.ents = Entities

Shape ==
  /\ "sc" \in DOMAIN hits /\ hits.sc \in DOMAIN Scenarios
  /\ DOMAIN r = Leaves /\ DOMAIN b = Leaves /\ DOMAIN cache = Leaves
  /\ DOMAIN up = Leaves /\ DOMAIN down = Leaves
  /\ drawn \in [Leaves -> Nat]
  /\ \A l \in Leaves : IsSeq(up[l]) /\ IsSeq(down[l])

SchemaInv ==
  /\ Shape
  /\ \A l \in Leaves :
       /\ LeafSound(r[l]) /\ SessionSound(l, b[l]) /\ CacheSound(cache[l])
       /\ \A f \in Frames(up[l]) : UpSound(l, f)
       /\ \A f \in Frames(down[l]) : DownSound(l, f)

-----------------------------------------------------------------------------
(* Queues *)

\* A sequence is one of its own elements.
LEMMA OwnFrames ==
  ASSUME NEW S, NEW q \in Seq(S)
  PROVE  IsSeq(q)
<1>1. \A i \in 1 .. Len(q) : q[i] \in Frames(q)
  BY Zenon DEF Frames
<1>2. q \in [1 .. Len(q) -> Frames(q)] /\ Len(q) \in Nat
  BY <1>1
<1> QED
  BY <1>2 DEF IsSeq

\* A frame put at the end of a queue.
LEMMA Appended ==
  ASSUME NEW q, IsSeq(q), NEW f
  PROVE  IsSeq(Append(q, f)) /\ Frames(Append(q, f)) = Frames(q) \cup {f}
<1> DEFINE S == Frames(q) \cup {f}
           a == Append(q, f)
<1>1. q \in Seq(S) /\ Len(q) \in Nat
  BY DEF IsSeq
<1>2. a \in Seq(S) /\ Len(a) = Len(q) + 1 /\ a[Len(q) + 1] = f /\ \A i \in 1 .. Len(q) : a[i] = q[i]
  BY <1>1
<1>3. Frames(a) = S
  BY <1>1, <1>2 DEF Frames
<1> QED
  BY <1>2, <1>3 DEF IsSeq

\* The head of a queue is taken.
LEMMA Taken ==
  ASSUME NEW q, IsSeq(q), q # << >>
  PROVE  IsSeq(Tail(q)) /\ Frames(Tail(q)) \subseteq Frames(q) /\ Head(q) \in Frames(q)
<1> DEFINE t == Tail(q)
<1>1. q \in Seq(Frames(q)) /\ Len(q) \in Nat /\ Len(q) >= 1
  BY DEF IsSeq
<1>2. /\ t \in Seq(Frames(q)) /\ Len(t) = Len(q) - 1 /\ Head(q) = q[1]
      /\ \A i \in 1 .. Len(t) : t[i] = q[i + 1]
  BY <1>1
<1>3. Frames(t) \subseteq Frames(q) /\ Head(q) \in Frames(q)
  BY <1>1, <1>2 DEF Frames
<1> QED
  BY <1>2, <1>3, OwnFrames

\* A frame is taken if there is room.
LEMMA PutFrames ==
  ASSUME NEW q, IsSeq(q), NEW f
  PROVE  IsSeq(Put(q, f)) /\ Frames(Put(q, f)) \subseteq Frames(q) \cup {f}
BY Appended DEF Put

-----------------------------------------------------------------------------
(* What the helpers of the leaf do to its record *)

\* Whatever ends or renews a session leaves the schema hash, or starts it anew.
LEMMA LeafRecords ==
  ASSUME NEW x, "hash" \in DOMAIN x, x.hash \in SentHashes
  PROVE  /\ LeafSound(LeftSession(x)) /\ LeafSound(Rediscovering(x)) /\ LeafSound(Joining(x))
         /\ LeafSound(Refused(x)) /\ LeafSound(Recovering(x)) /\ LeafSound(Resumed(x))
         /\ \A n : LeafSound(Booted(n))
<1>1. LeafSound(LeftSession(x))
  BY DEF LeafSound, LeftSession
<1>2. \A y : LeafSound(y) => LeafSound([y EXCEPT !.found = FALSE, !.best = FALSE, !.parent = "none"])
  BY DEF LeafSound
<1>3. LeafSound(Rediscovering(x))
  BY <1>1, <1>2 DEF Rediscovering
<1>4. LeafSound(Joining(x)) /\ LeafSound(Recovering(x)) /\ LeafSound(Resumed(x))
  BY DEF LeafSound, Joining, Recovering, Resumed
<1>5. LeafSound(Refused(x))
  BY <1>3 DEF LeafSound, Refused
<1>6. \A n : LeafSound(Booted(n))
  BY DEF LeafSound, Booted, SentHashes
<1> QED
  BY <1>1, <1>3, <1>4, <1>5, <1>6

\* A JOIN_ACK leaves it too.
LEMMA AcceptedLeaf ==
  ASSUME NEW x, "hash" \in DOMAIN x, x.hash \in SentHashes, NEW ack, ack.stage \in Stages
  PROVE  LeafSound(Accepted(x, ack))
BY DEF LeafSound, Accepted, Stages

-----------------------------------------------------------------------------
(* What a step may do to the exchange *)

SameScenario == "sc" \in DOMAIN hits' /\ hits'.sc = hits.sc

LeavesKept == DOMAIN r' = Leaves /\ \A l \in Leaves : LeafSound(r'[l])

\* Nothing that the invariant is about; an exchange may be given up.
SessionKept(s, t) ==
  /\ SessionFields \subseteq DOMAIN t
  /\ t.bn = s.bn /\ t.rn = s.rn /\ t.ents = s.ents /\ t.want = s.want
  /\ t.flight => s.flight
  /\ t.schema => s.schema

SessionsKept ==
  /\ DOMAIN b' = Leaves /\ \A l \in Leaves : SessionKept(b[l], b'[l])
  /\ drawn' = drawn /\ cache' = cache

\* A leaf sends frames that do not matter here, and answers requests.
UpNew(l, f) ==
  \/ f.kind = "JOIN" /\ f.hash \in SentHashes
  \/ f.kind \in {"STATE", "HEARTBEAT"}
  \/ /\ f.kind = "SCHEMA_PUSH"
     /\ \E q \in Frames(down[l]) : q.kind = "SCHEMA_REQUEST" /\ q.key = f.key /\ q.index = f.index

UpGrows ==
  /\ DOMAIN up' = Leaves
  /\ \A l \in Leaves : IsSeq(up'[l]) /\ \A f \in Frames(up'[l]) : f \in Frames(up[l]) \/ UpNew(l, f)

\* The bridge sends frames that do not matter here, and repeats a request.
DownNew(l, f) ==
  \/ f.kind = "JOIN_ACK" /\ (f.accepted => f.stage \in Stages)
  \/ f.kind \in {"ACK", "DEAUTH"}
  \/ /\ f.kind = "SCHEMA_REQUEST" /\ b[l].flight
     /\ f.key = Key(b[l]) /\ f.index = b[l].want

DownGrows ==
  /\ DOMAIN down' = Leaves
  /\ \A l \in Leaves : IsSeq(down'[l]) /\ \A f \in Frames(down'[l]) : f \in Frames(down[l]) \/ DownNew(l, f)

Calm == SameScenario /\ LeavesKept /\ SessionsKept /\ UpGrows /\ DownGrows

\* The scenario and its leaves stay.
LEMMA SameLeaves ==
  ASSUME SameScenario
  PROVE  Leaves' = Leaves /\ Total' = Total /\ Entities' = Entities
BY DEF SameScenario, sc, Leaves, Total, Entities

\* A calm step keeps the invariant.
LEMMA CalmKeeps ==
  ASSUME SchemaInv, Calm
  PROVE  SchemaInv'
<1>1. Leaves' = Leaves /\ Total' = Total /\ Entities' = Entities
  BY SameLeaves DEF Calm
<1>2. Shape'
  BY <1>1, Zenon DEF Calm, SameScenario, LeavesKept, SessionsKept, UpGrows, DownGrows, SchemaInv, Shape
<1> SUFFICES ASSUME NEW l \in Leaves
             PROVE  /\ LeafSound(r'[l]) /\ SessionSound(l, b[l])' /\ CacheSound(cache[l])'
                    /\ \A f \in Frames(up'[l]) : UpSound(l, f)'
                    /\ \A f \in Frames(down'[l]) : DownSound(l, f)'
  BY <1>1, <1>2, Zenon DEF SchemaInv, LeafSound, SentHashes, Frames
<1>3. LeafSound(r'[l])
  BY Zenon DEF Calm, LeavesKept
<1>4. CacheSound(cache[l])'
  BY <1>1, Zenon DEF SchemaInv, Calm, SessionsKept, CacheSound
<1>5. SessionSound(l, b[l]) /\ SessionKept(b[l], b'[l]) /\ drawn' = drawn
  BY Zenon DEF SchemaInv, Calm, SessionsKept
<1>6. Key(b'[l]) = Key(b[l]) /\ \A i : Had(b'[l], i) <=> Had(b[l], i)
  BY <1>5, Zenon DEF SessionKept, Key, Had
<1>7. SessionSound(l, b[l])'
  BY <1>1, <1>5, <1>6, Zenon DEF SessionSound, SessionKept
<1>8. ASSUME NEW f, Exchange(l, f) PROVE Exchange(l, f)'
  BY <1>1, <1>5, <1>6, <1>8, Zenon DEF Exchange
<1>9. ASSUME NEW f \in Frames(up'[l]) PROVE UpSound(l, f)'
  <2>1. \A q \in Frames(down[l]) : DownSound(l, q)
    BY Zenon DEF SchemaInv
  <2>2. \A q \in Frames(up[l]) : UpSound(l, q)
    BY Zenon DEF SchemaInv
  <2>3. f.kind = "JOIN" => f.hash \in SentHashes
    BY <1>9, <2>2, Zenon DEF Calm, UpGrows, UpNew, UpSound
  <2>4. ASSUME f.kind = "SCHEMA_PUSH" PROVE Exchange(l, f)
    <3>1. CASE f \in Frames(up[l])
      BY <2>2, <2>4, <3>1, Zenon DEF UpSound
    <3>2. CASE \E q \in Frames(down[l]) : q.kind = "SCHEMA_REQUEST" /\ q.key = f.key /\ q.index = f.index
      BY <2>1, <3>2, Zenon DEF DownSound, Exchange
    <3> QED
      BY <1>9, <2>4, <3>1, <3>2, Zenon DEF Calm, UpGrows, UpNew
  <2> QED
    BY <1>8, <2>3, <2>4, Zenon DEF UpSound
<1>10. ASSUME NEW f \in Frames(down'[l]) PROVE DownSound(l, f)'
  <2>1. \A q \in Frames(down[l]) : DownSound(l, q)
    BY Zenon DEF SchemaInv
  <2>2. ASSUME f.kind = "SCHEMA_REQUEST" PROVE Exchange(l, f)
    <3>1. CASE f \in Frames(down[l])
      BY <2>1, <2>2, <3>1, Zenon DEF DownSound
    <3>2. CASE b[l].flight /\ f.key = Key(b[l]) /\ f.index = b[l].want
      <4>1. f.key[1] = b[l].bn
        BY <3>2 DEF Key
      <4>2. b[l].bn \in 0 .. drawn[l] /\ b[l].bn # 0 /\ drawn[l] \in Nat
        BY <1>5, <3>2, Zenon DEF SessionSound, SchemaInv, Shape
      <4>3. f.key[1] \in 1 .. drawn[l]
        BY <4>1, <4>2
      <4> QED
        BY <1>5, <3>2, <4>3, Zenon DEF Exchange, SessionSound
    <3> QED
      BY <1>10, <2>2, <3>1, <3>2, Zenon DEF Calm, DownGrows, DownNew
  <2>3. (f.kind = "JOIN_ACK" /\ f.accepted) => f.stage \in Stages
    BY <1>10, <2>1, Zenon DEF Calm, DownGrows, DownNew, DownSound
  <2> QED
    BY <1>8, <2>2, <2>3, Zenon DEF DownSound
<1> QED
  BY <1>3, <1>4, <1>7, <1>9, <1>10

\* A step that changes nothing of one kind.
LEMMA Stays ==
  ASSUME SchemaInv
  PROVE  /\ hits' = hits => SameScenario
         /\ \A k : hits' = [hits EXCEPT ![k] = @ + 1] /\ k # "sc" => SameScenario
         /\ r' = r => LeavesKept
         /\ b' = b /\ drawn' = drawn /\ cache' = cache => SessionsKept
         /\ up' = up => UpGrows
         /\ down' = down => DownGrows
<1>1. hits' = hits => SameScenario
  BY Zenon DEF SchemaInv, Shape, SameScenario
<1>2. ASSUME NEW k, hits' = [hits EXCEPT ![k] = @ + 1], k # "sc" PROVE SameScenario
  BY <1>2 DEF SchemaInv, Shape, SameScenario
<1>3. r' = r => LeavesKept
  BY Zenon DEF SchemaInv, Shape, LeavesKept
<1>4. b' = b /\ drawn' = drawn /\ cache' = cache => SessionsKept
  BY Zenon DEF SchemaInv, Shape, SessionsKept, SessionKept, SessionSound
<1>5. up' = up => UpGrows
  BY Zenon DEF SchemaInv, Shape, UpGrows
<1>6. down' = down => DownGrows
  BY Zenon DEF SchemaInv, Shape, DownGrows
<1> QED
  BY <1>1, <1>2, <1>3, <1>4, <1>5, <1>6

\* A step that changes one kind of one leaf.
LEMMA ChangesAt ==
  ASSUME SchemaInv, NEW l \in Leaves, NEW x
  PROVE  /\ r' = [r EXCEPT ![l] = x] /\ LeafSound(x) => LeavesKept
         /\ b' = [b EXCEPT ![l] = x] /\ SessionKept(b[l], x) /\ drawn' = drawn /\ cache' = cache
              => SessionsKept
         /\ /\ up' = [up EXCEPT ![l] = x] /\ IsSeq(x)
            /\ \A f \in Frames(x) : f \in Frames(up[l]) \/ UpNew(l, f)
            => UpGrows
         /\ /\ down' = [down EXCEPT ![l] = x] /\ IsSeq(x)
            /\ \A f \in Frames(x) : f \in Frames(down[l]) \/ DownNew(l, f)
            => DownGrows
<1>1. ASSUME r' = [r EXCEPT ![l] = x], LeafSound(x) PROVE LeavesKept
  <2>1. DOMAIN r' = Leaves /\ r'[l] = x /\ \A m \in Leaves : m # l => r'[m] = r[m]
    BY <1>1, Zenon DEF SchemaInv, Shape
  <2> QED
    BY <1>1, <2>1, Zenon DEF SchemaInv, LeavesKept
<1>2. ASSUME b' = [b EXCEPT ![l] = x], SessionKept(b[l], x), drawn' = drawn, cache' = cache PROVE SessionsKept
  <2>1. DOMAIN b' = Leaves /\ b'[l] = x /\ \A m \in Leaves : m # l => b'[m] = b[m]
    BY <1>2, Zenon DEF SchemaInv, Shape
  <2>2. \A m \in Leaves : SessionKept(b[m], b[m])
    BY Zenon DEF SchemaInv, SessionKept, SessionSound
  <2> QED
    BY <1>2, <2>1, <2>2, Zenon DEF SessionsKept
<1>3. ASSUME up' = [up EXCEPT ![l] = x], IsSeq(x), \A f \in Frames(x) : f \in Frames(up[l]) \/ UpNew(l, f)
      PROVE  UpGrows
  <2>1. DOMAIN up' = Leaves /\ up'[l] = x /\ \A m \in Leaves : m # l => up'[m] = up[m]
    BY <1>3, Zenon DEF SchemaInv, Shape
  <2> QED
    BY <1>3, <2>1, Zenon DEF SchemaInv, Shape, UpGrows
<1>4. ASSUME down' = [down EXCEPT ![l] = x], IsSeq(x), \A f \in Frames(x) : f \in Frames(down[l]) \/ DownNew(l, f)
      PROVE  DownGrows
  <2>1. DOMAIN down' = Leaves /\ down'[l] = x /\ \A m \in Leaves : m # l => down'[m] = down[m]
    BY <1>4, Zenon DEF SchemaInv, Shape
  <2> QED
    BY <1>4, <2>1, Zenon DEF SchemaInv, Shape, DownGrows
<1> QED
  BY <1>1, <1>2, <1>3, <1>4

\* A frame is taken off a queue or put into one.
LEMMA QueuesAt ==
  ASSUME SchemaInv, NEW l \in Leaves, NEW f
  PROVE  /\ up[l] # << >> /\ up' = [up EXCEPT ![l] = Tail(@)] => UpGrows
         /\ down[l] # << >> /\ down' = [down EXCEPT ![l] = Tail(@)] => DownGrows
         /\ up' = [up EXCEPT ![l] = Append(@, f)] /\ UpNew(l, f) => UpGrows
         /\ \A x : up' = [up EXCEPT ![l] = SendUp(x, @, f)] /\ UpNew(l, f) => UpGrows
         /\ down' = [down EXCEPT ![l] = Put(@, f)] /\ DownNew(l, f) => DownGrows
<1>1. IsSeq(up[l]) /\ IsSeq(down[l])
  BY Zenon DEF SchemaInv, Shape
<1>2. up[l] # << >> /\ up' = [up EXCEPT ![l] = Tail(@)] => UpGrows
  <2>1. up[l] # << >> => IsSeq(Tail(up[l])) /\ Frames(Tail(up[l])) \subseteq Frames(up[l])
    BY <1>1, Taken, Zenon
  <2> QED
    BY <2>1, ChangesAt, Zenon
<1>3. down[l] # << >> /\ down' = [down EXCEPT ![l] = Tail(@)] => DownGrows
  <2>1. down[l] # << >> => IsSeq(Tail(down[l])) /\ Frames(Tail(down[l])) \subseteq Frames(down[l])
    BY <1>1, Taken, Zenon
  <2> QED
    BY <2>1, ChangesAt, Zenon
<1>4. up' = [up EXCEPT ![l] = Append(@, f)] /\ UpNew(l, f) => UpGrows
  <2>1. IsSeq(Append(up[l], f)) /\ Frames(Append(up[l], f)) = Frames(up[l]) \cup {f}
    BY <1>1, Appended, Zenon
  <2> QED
    BY <2>1, ChangesAt, Zenon
<1>5. ASSUME NEW x, up' = [up EXCEPT ![l] = SendUp(x, @, f)], UpNew(l, f) PROVE UpGrows
  <2>1. CASE SendUp(x, up[l], f) = Append(up[l], f)
    BY <1>4, <1>5, <2>1, Zenon
  <2>2. CASE SendUp(x, up[l], f) = up[l]
    BY <1>1, <1>5, <2>2, ChangesAt, Zenon
  <2> QED
    BY <2>1, <2>2, Zenon DEF SendUp
<1>6. down' = [down EXCEPT ![l] = Put(@, f)] /\ DownNew(l, f) => DownGrows
  <2>1. IsSeq(Put(down[l], f)) /\ Frames(Put(down[l], f)) \subseteq Frames(down[l]) \cup {f}
    BY <1>1, PutFrames, Zenon
  <2> QED
    BY <2>1, ChangesAt, Zenon
<1> QED
  BY <1>2, <1>3, <1>4, <1>5, <1>6

-----------------------------------------------------------------------------
(* The steps of the leaf *)

\* Every step of a leaf is calm.
LEMMA LeafCalm ==
  ASSUME SchemaInv, NEW l \in Leaves, LeafStep(l)
  PROVE  Calm
<1> DEFINE x == r[l]
<1>1. LeafSound(x) /\ "hash" \in DOMAIN x /\ x.hash \in SentHashes
  BY Zenon DEF SchemaInv, LeafSound
<1>2. SameScenario /\ SessionsKept
  BY Stays, Zenon DEF LeafStep, FindParent, SendJoin, JoinExhausted, HandleJoinAck, HandleSchemaRequest,
     JoinedTimeout, SendState, RetryState, RouteLost, MuteRestart, ResumeNormal, HandleStateAck, HandleDeauth,
     Heartbeat
<1> SUFFICES LeavesKept /\ UpGrows /\ DownGrows
  BY <1>2, Zenon DEF Calm
<1> HIDE DEF x
<1>3. CASE FindParent(l)
  <2>1. LeafSound([[x EXCEPT !.found = TRUE] EXCEPT !.best = TRUE])
    BY <1>1 DEF LeafSound
  <2>2. r' = [r EXCEPT ![l] = [[x EXCEPT !.found = TRUE] EXCEPT !.best = TRUE]]
    BY <1>3 DEF FindParent, x, SchemaInv, Shape
  <2> QED
    BY <1>3, <2>1, <2>2, ChangesAt, Stays, Zenon DEF FindParent
<1>4. CASE SendJoin(l)
  <2>1. UpNew(l, JoinFrame(x))
    BY <1>1, Zenon DEF UpNew, JoinFrame
  <2>2. LeafSound(Joining(x))
    BY <1>1, LeafRecords, Zenon
  <2> QED
    BY <1>4, <2>1, <2>2, ChangesAt, QueuesAt, Stays, Zenon DEF SendJoin, x
<1>5. CASE JoinExhausted(l) \/ JoinedTimeout(l) \/ RouteLost(l) \/ MuteRestart(l)
  <2>1. LeafSound(Rediscovering(x)) /\ LeafSound(Recovering(x)) /\ LeafSound(Booted(x.nonce + 1))
    BY <1>1, LeafRecords, Zenon
  <2> QED
    BY <1>5, <2>1, ChangesAt, Stays, Zenon DEF JoinExhausted, JoinedTimeout, RouteLost, MuteRestart, x
<1>6. ASSUME NEW y, LeafSound(y), Beat(l, y) PROVE LeavesKept /\ UpGrows
  <2>1. LeafSound([y EXCEPT !.tx = @ + 1])
    BY <1>6 DEF LeafSound
  <2>2. UpNew(l, HeartbeatFrame(y))
    BY Zenon DEF UpNew, HeartbeatFrame
  <2> QED
    BY <1>6, <2>1, <2>2, ChangesAt, QueuesAt, Zenon DEF Beat
<1>7. CASE HandleJoinAck(l)
  <2> DEFINE ack == Head(down[l])
  <2>1. down[l] # << >> /\ ack.kind = "JOIN_ACK" /\ down' = [down EXCEPT ![l] = Tail(@)]
    BY <1>7, Zenon DEF HandleJoinAck, DownIs
  <2>2. ack.accepted => ack.stage \in Stages
    <3>1. ack \in Frames(down[l])
      BY <2>1, Taken, Zenon DEF SchemaInv, Shape
    <3> QED
      BY <2>1, <3>1, Zenon DEF SchemaInv, DownSound
  <2>3. LeafSound(Refused(x)) /\ (ack.accepted => LeafSound(Accepted(x, ack)))
    BY <1>1, <2>2, LeafRecords, AcceptedLeaf, Zenon
  <2>4. \/ UNCHANGED <<r, up>>
        \/ r' = [r EXCEPT ![l] = Refused(x)] /\ UNCHANGED up
        \/ ack.accepted /\ Beat(l, Accepted(x, ack))
        \/ ack.accepted /\ r' = [r EXCEPT ![l] = Accepted(x, ack)] /\ UNCHANGED up
    BY <1>7, Zenon DEF HandleJoinAck, x
  <2> HIDE DEF ack
  <2>5. LeavesKept /\ UpGrows
    BY <1>6, <2>3, <2>4, ChangesAt, Stays, Zenon
  <2> QED
    BY <2>1, <2>5, QueuesAt, Zenon
<1>8. CASE HandleSchemaRequest(l)
  <2> DEFINE req == Head(down[l])
             f   == [kind |-> "SCHEMA_PUSH", key |-> x.key, tx |-> x.tx, index |-> req.index]
             y   == [x EXCEPT !.seen = req.tx, !.push = FALSE, !.tx = @ + 1,
                              !.hash = IF req.index = 0 THEN "full" ELSE @]
  <2>1. down[l] # << >> /\ req.kind = "SCHEMA_REQUEST" /\ down' = [down EXCEPT ![l] = Tail(@)]
    BY <1>8, Zenon DEF HandleSchemaRequest, DownIs
  <2>2. req \in Frames(down[l])
    BY <2>1, Taken, Zenon DEF SchemaInv, Shape
  <2>3. LeafSound(y)
    BY <1>1 DEF LeafSound, SentHashes
  <2>4. \/ UNCHANGED <<r, up>>
        \/ x.key = req.key /\ r' = [r EXCEPT ![l] = y] /\ up' = [up EXCEPT ![l] = SendUp(x, @, f)]
    BY <1>8, Zenon DEF HandleSchemaRequest, x
  <2>5. x.key = req.key => UpNew(l, f)
    BY <2>1, <2>2, Zenon DEF UpNew
  <2> HIDE DEF f, y
  <2>6. LeavesKept /\ UpGrows
    BY <2>3, <2>4, <2>5, ChangesAt, QueuesAt, Stays, Zenon
  <2> QED
    BY <2>1, <2>6, QueuesAt, Zenon
<1>9. CASE SendState(l)
  <2>1. \A e : UpNew(l, StateFrame(x, e))
    BY Zenon DEF UpNew, StateFrame
  <2>2. \A e : LeafSound([x EXCEPT !.pend = x.tx, !.entity = e, !.tries = 0, !.tx = @ + 1])
    BY <1>1 DEF LeafSound
  <2>3. PICK e : /\ up' = [up EXCEPT ![l] = Append(@, StateFrame(x, e))]
                 /\ r' = [r EXCEPT ![l] = [x EXCEPT !.pend = x.tx, !.entity = e, !.tries = 0, !.tx = @ + 1]]
    BY <1>9, Zenon DEF SendState, x
  <2> QED
    BY <1>9, <2>1, <2>2, <2>3, ChangesAt, QueuesAt, Stays, Zenon DEF SendState
<1>10. CASE RetryState(l)
  <2>1. UpNew(l, StateFrame(x, x.entity))
    BY Zenon DEF UpNew, StateFrame
  <2>2. /\ LeafSound([x EXCEPT !.pend = x.tx, !.tries = @ + 1, !.tx = @ + 1])
        /\ LeafSound([x EXCEPT !.pend = 0, !.tx = @ + 1])
    BY <1>1 DEF LeafSound
  <2>3. /\ up' = [up EXCEPT ![l] = SendUp(x, @, StateFrame(x, x.entity))]
        /\ \/ r' = [r EXCEPT ![l] = [x EXCEPT !.pend = x.tx, !.tries = @ + 1, !.tx = @ + 1]]
           \/ r' = [r EXCEPT ![l] = [x EXCEPT !.pend = 0, !.tx = @ + 1]]
        /\ down' = down
    BY <1>10, Zenon DEF RetryState, x
  <2> QED
    BY <2>1, <2>2, <2>3, ChangesAt, QueuesAt, Stays, Zenon
<1>11. CASE ResumeNormal(l) \/ Heartbeat(l)
  <2>1. LeafSound(Resumed(x))
    BY <1>1, LeafRecords, Zenon
  <2> QED
    BY <1>1, <1>6, <1>11, <2>1, Stays, Zenon DEF ResumeNormal, Heartbeat, x
<1>12. CASE HandleStateAck(l)
  <2> DEFINE ack == Head(down[l])
             y   == [x EXCEPT !.seen = ack.tx]
             z   == [y EXCEPT !.pend = 0, !.tries = 0, !.dirty = @ \ {y.entity}]
  <2>1. down[l] # << >> /\ down' = [down EXCEPT ![l] = Tail(@)] /\ up' = up
    BY <1>12, Zenon DEF HandleStateAck, DownIs
  <2>2. LeafSound(y) /\ LeafSound(z)
    BY <1>1 DEF LeafSound
  <2>3. r' = r \/ r' = [r EXCEPT ![l] = y] \/ r' = [r EXCEPT ![l] = z]
    BY <1>12, Zenon DEF HandleStateAck, x
  <2> QED
    BY <2>1, <2>2, <2>3, ChangesAt, QueuesAt, Stays, Zenon
<1>13. CASE HandleDeauth(l)
  <2> DEFINE y == [LeftSession(x) EXCEPT !.found = TRUE]
  <2>1. down[l] # << >> /\ down' = [down EXCEPT ![l] = Tail(@)]
    BY <1>13, Zenon DEF HandleDeauth, DownIs
  <2>2. LeafSound(LeftSession(x)) /\ LeafSound(Rediscovering(x))
    BY <1>1, LeafRecords, Zenon
  <2>3. LeafSound(y)
    BY <2>2 DEF LeafSound
  <2>4. LeafSound(Joining(y)) /\ UpNew(l, JoinFrame(y))
    BY <2>3, LeafRecords, Zenon DEF LeafSound, UpNew, JoinFrame
  <2>5. \/ up' = [up EXCEPT ![l] = Append(@, JoinFrame(y))] /\ r' = [r EXCEPT ![l] = Joining(y)]
        \/ r' = [r EXCEPT ![l] = Rediscovering(x)] /\ UNCHANGED up
    BY <1>13, Zenon DEF HandleDeauth, x
  <2> HIDE DEF y
  <2> QED
    BY <2>1, <2>2, <2>4, <2>5, ChangesAt, QueuesAt, Stays, Zenon
<1> QED
  BY <1>3, <1>4, <1>5, <1>7, <1>8, <1>9, <1>10, <1>11, <1>12, <1>13, Zenon DEF LeafStep

-----------------------------------------------------------------------------
(* The steps of the bridge *)

\* The steps that make no progress in the exchange.
LEMMA BridgeCalm ==
  ASSUME SchemaInv, NEW l \in Leaves,
         \/ JoinBlocked(l) \/ JoinRepeated(l) \/ HandleState(l) \/ HandleHeartbeat(l) \/ SchemaRetry(l)
         \/ SyncTimeout(l) \/ CompleteRetry(l) \/ CompleteTimeout(l) \/ OfflineTimeout(l)
  PROVE  Calm
<1> DEFINE s == b[l]
<1>1. SessionSound(l, s) /\ SessionFields \subseteq DOMAIN s
  BY Zenon DEF SchemaInv, SessionSound
<1>2. SameScenario /\ LeavesKept /\ drawn' = drawn /\ cache' = cache
  BY Stays, Zenon DEF JoinBlocked, JoinRepeated, HandleState, HandleHeartbeat, SchemaRetry, SyncTimeout,
     CompleteRetry, CompleteTimeout, OfflineTimeout
<1>3. ASSUME NEW t, SessionKept(s, t), b' = [b EXCEPT ![l] = t] PROVE SessionsKept
  BY <1>2, <1>3, ChangesAt, Zenon
<1>4. b' = b => SessionsKept
  BY <1>2, Stays, Zenon
<1>5. \A t, st, a : (a => st \in Stages) => DownNew(l, JoinAckFrame(t, a, st))
  BY Zenon DEF DownNew, JoinAckFrame
<1>6. /\ \A f : DownNew(l, [kind |-> "DEAUTH", ref |-> f])
      /\ \A t, f : DownNew(l, StateAckFrame(t, f))
  BY Zenon DEF DownNew, StateAckFrame
<1> SUFFICES SessionsKept /\ UpGrows /\ DownGrows
  BY <1>2, Zenon DEF Calm
<1> HIDE DEF s
<1>7. CASE JoinBlocked(l)
  <2>1. SessionKept(s, [s EXCEPT !.tx = @ + 1])
    BY <1>1 DEF SessionKept, SessionFields
  <2>2. b' = [b EXCEPT ![l] = [s EXCEPT !.tx = @ + 1]]
    BY <1>7, Zenon DEF JoinBlocked, s
  <2>3. UpGrows
    BY <1>7, QueuesAt, Zenon DEF JoinBlocked, UpIs
  <2>4. DownGrows
    BY <1>5, <1>7, QueuesAt, Zenon DEF JoinBlocked
  <2> QED
    BY <1>3, <2>1, <2>2, <2>3, <2>4, Zenon
<1>8. CASE JoinRepeated(l)
  <2>1. \A t : SessionKept(s, [Admitted(s) EXCEPT !.seen = t])
    BY <1>1 DEF SessionKept, SessionFields, Admitted
  <2>2. SessionsKept
    BY <1>3, <1>8, <2>1, Zenon DEF JoinRepeated, s
  <2>3. UpGrows
    BY <1>8, QueuesAt, Zenon DEF JoinRepeated, UpIs
  <2>4. PICK st \in Stages : down' = [down EXCEPT ![l] = Put(@, JoinAckFrame(s, TRUE, st))]
    BY <1>8, Zenon DEF JoinRepeated, Stages, s
  <2>5. DownGrows
    BY <1>5, <2>4, QueuesAt, Zenon
  <2> QED
    BY <2>2, <2>3, <2>5
<1>9. CASE HandleState(l)
  <2> DEFINE f == Head(up[l])
  <2>1. UpGrows
    BY <1>9, QueuesAt, Zenon DEF HandleState, UpIs
  <2>2. CASE SendDeauth(l, f) /\ b' = b
    BY <1>4, <1>6, <2>1, <2>2, QueuesAt, Zenon DEF SendDeauth
  <2>3. CASE Confirmed(l, f)
    <3> DEFINE t == [s EXCEPT !.seen = IF @ < f.tx THEN f.tx ELSE @, !.last = f.tx,
                        !.online = @ \/ s.state = "NORMAL", !.got = @ \cup {f.entity},
                        !.shown = @ \cup {f.entity},
                        !.more = IF s.sync THEN f.more ELSE @]
               k == [Completed(t) EXCEPT !.sync = FALSE, !.synced = TRUE]
    <3>1. SessionKept(s, t)
      BY <1>1 DEF SessionKept, SessionFields
    <3>2. SessionKept(s, [t EXCEPT !.tx = @ + 1])
      BY <3>1 DEF SessionKept, SessionFields
    <3>3. SessionKept(s, [k EXCEPT !.tx = @ + 1])
      <4> HIDE DEF t
      <4> QED
        BY <3>1 DEF SessionKept, SessionFields, Completed
    <3>4. \/ /\ down' = [down EXCEPT ![l] = Put(Put(@, JoinAckFrame(t, TRUE, "COMPLETE")), StateAckFrame(k, f.tx))]
             /\ b' = [b EXCEPT ![l] = [k EXCEPT !.tx = @ + 1]]
          \/ /\ down' = [down EXCEPT ![l] = Put(@, StateAckFrame(t, f.tx))]
             /\ b' = [b EXCEPT ![l] = [t EXCEPT !.tx = @ + 1]]
      BY <2>3, Zenon DEF Confirmed, s
    <3> HIDE DEF t, k, f
    <3>5. DownNew(l, JoinAckFrame(t, TRUE, "COMPLETE"))
      BY <1>5, Zenon DEF Stages
    <3>6. LET a == JoinAckFrame(t, TRUE, "COMPLETE")
              c == StateAckFrame(k, f.tx)
              q == Put(Put(down[l], a), c)
          IN IsSeq(q) /\ \A e \in Frames(q) : e \in Frames(down[l]) \/ DownNew(l, e)
      <4> DEFINE a == JoinAckFrame(t, TRUE, "COMPLETE")
                 c == StateAckFrame(k, f.tx)
                 q == Put(down[l], a)
      <4>1. DownNew(l, a) /\ DownNew(l, c)
        BY <1>6, <3>5, Zenon
      <4> HIDE DEF a, c
      <4>2. IsSeq(q) /\ Frames(q) \subseteq Frames(down[l]) \cup {a}
        BY PutFrames, Zenon DEF SchemaInv, Shape
      <4> HIDE DEF q
      <4>3. IsSeq(Put(q, c)) /\ Frames(Put(q, c)) \subseteq Frames(q) \cup {c}
        BY <4>2, PutFrames, Zenon
      <4> QED
        BY <4>1, <4>2, <4>3, Zenon DEF a, c, q
    <3>7. DownGrows
      BY <1>6, <3>4, <3>6, ChangesAt, QueuesAt, Zenon
    <3>8. SessionsKept
      BY <1>3, <3>2, <3>3, <3>4, Zenon
    <3> QED
      BY <2>1, <3>7, <3>8
  <2>4. CASE /\ down' = [down EXCEPT ![l] = Put(@, StateAckFrame(s, f.tx))]
             /\ b' = [b EXCEPT ![l].tx = @ + 1]
    <3>1. SessionKept(s, [s EXCEPT !.tx = @ + 1])
      BY <1>1 DEF SessionKept, SessionFields
    <3>2. b' = [b EXCEPT ![l] = [s EXCEPT !.tx = @ + 1]]
      BY <2>4, Zenon DEF s
    <3>3. DownGrows
      BY <1>6, <2>4, QueuesAt, Zenon
    <3> QED
      BY <1>3, <2>1, <3>1, <3>2, <3>3, Zenon
  <2>5. CASE UNCHANGED <<down, b>>
    BY <1>4, <2>1, <2>5, Stays, Zenon
  <2> QED
    BY <1>9, <2>2, <2>3, <2>4, <2>5, Zenon DEF HandleState, s
<1>10. CASE HandleHeartbeat(l)
  <2> DEFINE f == Head(up[l])
             t == [s EXCEPT !.seen = f.tx, !.state = "NORMAL", !.prog = FALSE,
                            !.online = @ \/ s.state # "NORMAL", !.done = FALSE,
                            !.doneTries = IF s.done THEN 0 ELSE @]
  <2>1. UpGrows
    BY <1>10, QueuesAt, Zenon DEF HandleHeartbeat, UpIs
  <2>2. SessionKept(s, t)
    BY <1>1 DEF SessionKept, SessionFields
  <2>3. \/ SendDeauth(l, f) /\ b' = b
        \/ b' = [b EXCEPT ![l] = t] /\ down' = down
        \/ UNCHANGED <<b, down>>
    BY <1>10, Zenon DEF HandleHeartbeat, s
  <2> HIDE DEF t, f
  <2> QED
    BY <1>3, <1>4, <1>6, <2>1, <2>2, <2>3, QueuesAt, Stays, Zenon DEF SendDeauth
<1>11. CASE SchemaRetry(l)
  <2> DEFINE t == [s EXCEPT !.tries = @ + 1]
  <2>1. UpGrows /\ s.flight
    BY <1>11, Stays, Zenon DEF SchemaRetry, s
  <2>2. \A sent : SessionKept(s, Requested(t, s.want, sent))
    BY <1>1, <2>1 DEF SessionKept, SessionFields, Requested
  <2>3. SessionKept(s, Dropped(s))
    BY <1>1 DEF SessionKept, SessionFields, Dropped
  <2>4. DownNew(l, RequestFrame(s, s.want))
    BY <2>1, Zenon DEF DownNew, RequestFrame, s
  <2>5. \/ /\ b' = [b EXCEPT ![l] = Requested(t, s.want, Room(down[l]))]
           /\ down' = [down EXCEPT ![l] = Put(@, RequestFrame(s, s.want))]
        \/ b' = [b EXCEPT ![l] = Dropped(s)] /\ UNCHANGED down
    BY <1>11, Zenon DEF SchemaRetry, s
  <2> HIDE DEF t
  <2> QED
    BY <1>3, <2>1, <2>2, <2>3, <2>4, <2>5, QueuesAt, Stays, Zenon
<1>12. CASE SyncTimeout(l)
  <2>1. SessionKept(s, [[s EXCEPT !.sync = FALSE] EXCEPT !.prog = FALSE])
    BY <1>1 DEF SessionKept, SessionFields
  <2>2. b' = [b EXCEPT ![l] = [[s EXCEPT !.sync = FALSE] EXCEPT !.prog = FALSE]]
    BY <1>12 DEF SyncTimeout, s, SchemaInv, Shape
  <2> QED
    BY <1>3, <1>12, <2>1, <2>2, Stays, Zenon DEF SyncTimeout
<1>13. CASE CompleteRetry(l)
  <2>1. \A n : SessionKept(s, [Completed(s) EXCEPT !.doneTries = n])
    BY <1>1 DEF SessionKept, SessionFields, Completed
  <2>2. SessionsKept
    BY <1>3, <1>13, <2>1, Zenon DEF CompleteRetry, s
  <2>3. DownNew(l, JoinAckFrame(s, TRUE, "COMPLETE"))
    BY <1>5, Zenon DEF Stages
  <2> QED
    BY <1>13, <2>2, <2>3, QueuesAt, Stays, Zenon DEF CompleteRetry, s
<1>14. CASE CompleteTimeout(l)
  <2>1. SessionKept(s, [s EXCEPT !.done = FALSE, !.doneTries = 0, !.prog = FALSE,
                                 !.online = FALSE, !.state = "NONE", !.flight = FALSE])
    BY <1>1 DEF SessionKept, SessionFields
  <2> QED
    BY <1>3, <1>14, <2>1, Stays, Zenon DEF CompleteTimeout, s
<1>15. CASE OfflineTimeout(l)
  <2>1. SessionKept(s, [[s EXCEPT !.online = FALSE] EXCEPT !.state = "NONE"])
    BY <1>1 DEF SessionKept, SessionFields
  <2>2. b' = [b EXCEPT ![l] = [[s EXCEPT !.online = FALSE] EXCEPT !.state = "NONE"]]
    BY <1>15 DEF OfflineTimeout, s, SchemaInv, Shape
  <2> QED
    BY <1>3, <1>15, <2>1, <2>2, Stays, Zenon DEF OfflineTimeout
<1> QED
  BY <1>7, <1>8, <1>9, <1>10, <1>11, <1>12, <1>13, <1>14, <1>15, Zenon

-----------------------------------------------------------------------------
(* The rest of the calm steps *)

\* The path, the leaf's environment and the slot's timeout.
LEMMA OthersCalm ==
  ASSUME SchemaInv,
         \/ \E l \in Leaves : Change(l) \/ RemoteRestart(l) \/ Lose(l) \/ Repeat(l)
         \/ SlotTimeout \/ UNCHANGED vars
  PROVE  Calm
<1>1. CASE SlotTimeout \/ UNCHANGED vars
  BY <1>1, Stays, Zenon DEF SlotTimeout, vars, Calm
<1>2. ASSUME NEW l \in Leaves, Change(l) PROVE Calm
  <2>1. SameScenario /\ SessionsKept /\ UpGrows /\ DownGrows
    BY <1>2, Stays, Zenon DEF Change
  <2>2. PICK e : r' = [r EXCEPT ![l] = [r[l] EXCEPT !.dirty = @ \cup {e}]]
    BY <1>2, Zenon DEF Change
  <2>3. LeafSound([r[l] EXCEPT !.dirty = @ \cup {e}])
    <3>1. LeafSound(r[l])
      BY Zenon DEF SchemaInv
    <3> QED
      BY <3>1 DEF LeafSound
  <2> QED
    BY <2>1, <2>2, <2>3, ChangesAt, Zenon DEF Calm
<1>3. ASSUME NEW l \in Leaves, RemoteRestart(l) PROVE Calm
  <2>1. SameScenario /\ SessionsKept /\ UpGrows /\ DownGrows
    BY <1>3, Stays, Zenon DEF RemoteRestart
  <2>2. LeafSound(Booted(r[l].nonce + 1))
    BY LeafRecords, Zenon DEF SchemaInv, LeafSound
  <2> QED
    BY <1>3, <2>1, <2>2, ChangesAt, Zenon DEF RemoteRestart, Calm
<1>4. ASSUME NEW l \in Leaves, Lose(l) PROVE Calm
  <2>1. SameScenario /\ SessionsKept /\ LeavesKept
    BY <1>4, Stays, Zenon DEF Lose
  <2>2. UpGrows /\ DownGrows
    BY <1>4, Stays, QueuesAt, Zenon DEF Lose
  <2> QED
    BY <2>1, <2>2, Zenon DEF Calm
<1>5. ASSUME NEW l \in Leaves, Repeat(l) PROVE Calm
  <2>1. SameScenario /\ SessionsKept /\ LeavesKept /\ DownGrows
    BY <1>5, Stays, Zenon DEF Repeat
  <2>2. IsSeq(up[l]) /\ up[l] # << >> /\ up' = [up EXCEPT ![l] = Append(up[l], Head(up[l]))]
    BY <1>5, Zenon DEF SchemaInv, Shape, Repeat
  <2>3. Head(up[l]) \in Frames(up[l])
    BY <2>2, Taken, Zenon
  <2>4. IsSeq(Append(up[l], Head(up[l]))) /\ Frames(Append(up[l], Head(up[l]))) \subseteq Frames(up[l])
    <3>1. /\ IsSeq(Append(up[l], Head(up[l])))
          /\ Frames(Append(up[l], Head(up[l]))) = Frames(up[l]) \cup {Head(up[l])}
      BY <2>2, Appended, Zenon
    <3> QED
      BY <2>3, <3>1
  <2>5. UpGrows
    BY <2>2, <2>4, ChangesAt, Zenon
  <2> QED
    BY <2>1, <2>5, Zenon DEF Calm
<1> QED
  BY <1>1, <1>2, <1>3, <1>4, <1>5, Zenon

-----------------------------------------------------------------------------
(* The steps of the exchange *)

\* The other leaves stay as they are.
OthersKept(l) ==
  /\ SameScenario /\ r' = r
  /\ DOMAIN b' = Leaves /\ DOMAIN cache' = Leaves /\ DOMAIN up' = Leaves /\ DOMAIN down' = Leaves
  /\ drawn' \in [Leaves -> Nat]
  /\ \A m \in Leaves \ {l} : /\ b'[m] = b[m] /\ cache'[m] = cache[m] /\ drawn'[m] = drawn[m]
                            /\ up'[m] = up[m] /\ down'[m] = down[m]

\* A step of one leaf's exchange has to keep what is said of that leaf.
LEMMA AtLeaf ==
  ASSUME SchemaInv, NEW l \in Leaves, OthersKept(l), IsSeq(up'[l]), IsSeq(down'[l]),
         CacheSound(cache[l])', SessionSound(l, b[l])',
         \A f \in Frames(up'[l]) : UpSound(l, f)',
         \A f \in Frames(down'[l]) : DownSound(l, f)'
  PROVE  SchemaInv'
<1>1. Leaves' = Leaves /\ Total' = Total /\ Entities' = Entities
  BY SameLeaves, Zenon DEF OthersKept
<1>2. Shape'
  BY <1>1, Zenon DEF SchemaInv, Shape, OthersKept, SameScenario
<1> SUFFICES ASSUME NEW m \in Leaves
             PROVE  /\ LeafSound(r[m])' /\ SessionSound(m, b[m])' /\ CacheSound(cache[m])'
                    /\ \A f \in Frames(up'[m]) : UpSound(m, f)'
                    /\ \A f \in Frames(down'[m]) : DownSound(m, f)'
  BY <1>1, <1>2, Zenon DEF SchemaInv, Frames
<1>3. LeafSound(r[m])'
  BY Zenon DEF SchemaInv, OthersKept, LeafSound, SentHashes
<1>4. CASE m = l
  BY <1>3, <1>4, Zenon
<1>5. CASE m # l
  <2>1. /\ b'[m] = b[m] /\ cache'[m] = cache[m] /\ drawn'[m] = drawn[m]
        /\ up'[m] = up[m] /\ down'[m] = down[m]
    BY <1>5, Zenon DEF OthersKept
  <2>2. SessionSound(m, b[m])' /\ CacheSound(cache[m])'
    BY <1>1, <2>1, Zenon DEF SchemaInv, SessionSound, SessionFields, Had, CacheSound
  <2>3. ASSUME NEW f, Exchange(m, f) PROVE Exchange(m, f)'
    BY <1>1, <2>1, <2>3, Zenon DEF Exchange, Key, Had
  <2>4. \A f \in Frames(up'[m]) : UpSound(m, f)'
    BY <2>1, <2>3, Zenon DEF SchemaInv, UpSound, SentHashes
  <2>5. \A f \in Frames(down'[m]) : DownSound(m, f)'
    BY <2>1, <2>3, Zenon DEF SchemaInv, DownSound, Stages
  <2> QED
    BY <1>3, <2>2, <2>4, <2>5, Zenon
<1> QED
  BY <1>4, <1>5

\* A scenario has a number of entities.
LEMMA TotalNat ==
  ASSUME SchemaInv
  PROVE  Total \in Nat
<1>1. hits.sc \in DOMAIN Scenarios
  BY Zenon DEF SchemaInv, Shape
<1>2. Scenarios[hits.sc] \in Scenario
  BY <1>1, JoinAssumption
<1> QED
  BY <1>2 DEF Total, sc, Scenario

\* handle_schema_push_: the answer brings the session one entity further.
LEMMA PushKeeps ==
  ASSUME SchemaInv, NEW l \in Leaves, HandleSchemaPush(l)
  PROVE  SchemaInv'
<1> DEFINE f == Head(up[l])
           s == [b[l] EXCEPT !.seen = f.tx, !.ents = IF f.index = 0 THEN @ ELSE @ \cup {f.index}]
           i == f.index
<1>1. CASE UNCHANGED <<b, down, cache, slot>>
  <2>1. Calm
    BY <1>1, QueuesAt, Stays, Zenon DEF HandleSchemaPush, UpIs, Calm
  <2> QED
    BY <2>1, CalmKeeps
<1>2. CASE b[l].valid /\ f.key = Key(b[l]) /\ f.tx > b[l].seen /\ SchemaStep(l, s, f.index)
  <2>1. IsSeq(up[l]) /\ IsSeq(down[l]) /\ up[l] # << >> /\ f.kind = "SCHEMA_PUSH"
    BY Zenon DEF SchemaInv, Shape, HandleSchemaPush, UpIs
  <2>2. IsSeq(Tail(up[l])) /\ Frames(Tail(up[l])) \subseteq Frames(up[l]) /\ f \in Frames(up[l])
    BY <2>1, Taken, Zenon
  <2>3. Exchange(l, f) /\ SessionSound(l, b[l])
    BY <2>1, <2>2, Zenon DEF SchemaInv, UpSound
  <2>4. Had(b[l], i) /\ i \in 0 .. Total /\ f.key[1] \in 1 .. drawn[l]
    BY <1>2, <2>3, Zenon DEF Exchange
  <2>5. Total \in Nat /\ drawn[l] \in Nat
    BY TotalNat, Zenon DEF SchemaInv, Shape
  <2>6. /\ SessionFields \subseteq DOMAIN s /\ s.bn = b[l].bn /\ s.rn = b[l].rn
        /\ s.want = b[l].want /\ s.flight = b[l].flight /\ s.schema = b[l].schema
        /\ s.ents = IF i = 0 THEN b[l].ents ELSE b[l].ents \cup {i}
    BY <2>3 DEF SessionSound, SessionFields
  <2> HIDE DEF s
  <2>7. Key(s) = Key(b[l]) /\ b[l].bn \in 1 .. drawn[l]
    BY <1>2, <2>4, <2>6 DEF Key
  <2>8. s.ents \subseteq Entities /\ b[l].ents \subseteq s.ents /\ (i # 0 => i \in s.ents)
    BY <2>3, <2>4, <2>5, <2>6 DEF SessionSound, Entities
  <2>9. Had(s, i + 1)
    BY <2>4, <2>5, <2>8 DEF Had
  <2>10. ASSUME i = Total PROVE s.ents = Entities
    <3>1. \A j \in 1 .. Total : j \in s.ents
      BY <2>5, <2>9, <2>10 DEF Had
    <3> QED
      BY <2>8, <3>1 DEF Entities
  <2>11. s.schema => s.ents = Entities
    BY <2>3, <2>6, <2>8, Zenon DEF SessionSound
  <2>12. ASSUME NEW t, SessionFields \subseteq DOMAIN t, t.bn = s.bn, t.rn = s.rn, t.ents = s.ents,
                t.want \in 0 .. Total, Had(s, t.want), t.schema => s.ents = Entities,
                NEW q, IsSeq(q),
                \A g \in Frames(q) : \/ g \in Frames(down[l])
                                     \/ (g.kind = "JOIN_ACK" /\ g.stage \in Stages)
                                     \/ (g.kind = "SCHEMA_REQUEST" /\ g = RequestFrame(s, i + 1) /\ i < Total),
                b' = [b EXCEPT ![l] = t], down' = [down EXCEPT ![l] = q],
                \/ cache' = cache
                \/ cache' = [cache EXCEPT ![l] = [hash |-> s.hash, ents |-> s.ents]] /\ s.ents = Entities
         PROVE  SchemaInv'
    <3>1. b'[l] = t /\ down'[l] = q /\ up'[l] = Tail(up[l]) /\ drawn' = drawn
      BY <2>12, Zenon DEF SchemaInv, Shape, HandleSchemaPush
    <3>2. OthersKept(l)
      <4>1. SameScenario /\ r' = r /\ drawn' \in [Leaves -> Nat]
        BY Stays, Zenon DEF HandleSchemaPush, SchemaInv, Shape
      <4>2. DOMAIN up' = Leaves /\ \A m \in Leaves \ {l} : up'[m] = up[m]
        BY Zenon DEF HandleSchemaPush, SchemaInv, Shape
      <4>3. /\ DOMAIN b' = Leaves /\ DOMAIN down' = Leaves /\ DOMAIN cache' = Leaves
            /\ \A m \in Leaves \ {l} : b'[m] = b[m] /\ down'[m] = down[m] /\ cache'[m] = cache[m]
        BY <2>12, Zenon DEF SchemaInv, Shape
      <4> QED
        BY <3>1, <4>1, <4>2, <4>3, Zenon DEF OthersKept
    <3>3. Leaves' = Leaves /\ Total' = Total /\ Entities' = Entities
      BY <3>2, SameLeaves, Zenon DEF OthersKept
    <3>4. CacheSound(cache[l])'
      <4>1. CacheSound(cache[l])
        BY Zenon DEF SchemaInv
      <4>2. CASE cache' = cache
        BY <3>3, <4>1, <4>2, Zenon DEF CacheSound
      <4>3. CASE cache' = [cache EXCEPT ![l] = [hash |-> s.hash, ents |-> s.ents]] /\ s.ents = Entities
        <5>1. cache'[l] = [hash |-> s.hash, ents |-> s.ents]
          BY <4>3, Zenon DEF SchemaInv, Shape
        <5>2. cache'[l].ents = s.ents
          BY <5>1
        <5> QED
          BY <3>3, <4>3, <5>2, Zenon DEF CacheSound
      <4> QED
        BY <2>12, <4>2, <4>3, Zenon
    <3>5. /\ Key(b'[l]) = Key(b[l])
          /\ \A j : Had(b[l], j) \/ Had(s, j) => Had(b'[l], j)
      BY <2>7, <2>8, <2>12, <3>1, Zenon DEF Key, Had
    <3>6. SessionSound(l, b[l])'
      <4>1. b'[l].bn \in 0 .. drawn[l] /\ b'[l].bn # 0
        BY <2>5, <2>6, <2>7, <2>12, <3>1
      <4> QED
        BY <2>8, <2>12, <3>1, <3>3, <3>5, <4>1, Zenon DEF SessionSound
    <3>7. ASSUME NEW g, Exchange(l, g) PROVE Exchange(l, g)'
      BY <3>1, <3>3, <3>5, <3>7, Zenon DEF Exchange
    <3>8. \A g \in Frames(up'[l]) : UpSound(l, g)'
      BY <2>2, <3>1, <3>7, Zenon DEF SchemaInv, UpSound, SentHashes
    <3>9. ASSUME NEW g \in Frames(down'[l]) PROVE DownSound(l, g)'
      <4>1. CASE g \in Frames(down[l])
        BY <3>7, <4>1, Zenon DEF SchemaInv, DownSound, Stages
      <4>2. CASE g.kind = "JOIN_ACK" /\ g.stage \in Stages
        BY <4>2, Zenon DEF DownSound, Stages
      <4>3. CASE g.kind = "SCHEMA_REQUEST" /\ g = RequestFrame(s, i + 1) /\ i < Total
        <5>1. g.kind = "SCHEMA_REQUEST" /\ g.key = Key(s) /\ g.index = i + 1
          BY <4>3, Zenon DEF RequestFrame
        <5>2. g.index \in 0 .. Total /\ g.key[1] \in 1 .. drawn[l]
          BY <2>4, <2>5, <2>7, <4>3, <5>1 DEF Key
        <5>3. Exchange(l, g)'
          BY <2>9, <3>1, <3>3, <3>5, <5>1, <5>2, Zenon DEF Exchange
        <5> QED
          BY <5>1, <5>3, Zenon DEF DownSound
      <4> QED
        BY <2>12, <3>1, <3>9, <4>1, <4>2, <4>3, Zenon
    <3> QED
      BY <2>2, <2>12, <3>1, <3>2, <3>4, <3>6, <3>8, <3>9, AtLeaf, Zenon
  <2>13. CASE i < Total
    <3> DEFINE n == Requested([s EXCEPT !.tries = IF i = 0 THEN 0 ELSE 1], i + 1, Room(down[l]))
               g == RequestFrame(s, i + 1)
               q == Put(down[l], g)
    <3>1. b' = [b EXCEPT ![l] = n] /\ down' = [down EXCEPT ![l] = q] /\ cache' = cache
      BY <1>2, <2>13, Zenon DEF SchemaStep
    <3>2. /\ SessionFields \subseteq DOMAIN n /\ n.bn = s.bn /\ n.rn = s.rn /\ n.ents = s.ents
          /\ n.want = i + 1 /\ n.schema = s.schema
      BY <2>6 DEF Requested, SessionFields
    <3>3. n.want \in 0 .. Total
      BY <2>4, <2>5, <2>13, <3>2
    <3>4. g.kind = "SCHEMA_REQUEST"
      BY Zenon DEF RequestFrame
    <3> HIDE DEF n, g
    <3>5. IsSeq(q) /\ Frames(q) \subseteq Frames(down[l]) \cup {g}
      BY <2>1, PutFrames, Zenon
    <3> HIDE DEF q
    <3>6. \A h \in Frames(q) :
            h \in Frames(down[l]) \/ (h.kind = "SCHEMA_REQUEST" /\ h = RequestFrame(s, i + 1) /\ i < Total)
      BY <2>13, <3>4, <3>5, Zenon DEF g
    <3>7. Had(s, n.want)
      BY <2>9, <3>2, Zenon
    <3> QED
      BY <2>11, <2>12, <3>1, <3>2, <3>3, <3>5, <3>6, <3>7, Zenon
  <2>14. CASE ~(i < Total)
    <3> DEFINE k == [s EXCEPT !.schema = TRUE, !.flight = FALSE]
               a == Completed(k)
               d == [Admitted(k) EXCEPT !.listed = TRUE, !.sync = TRUE, !.more = TRUE]
               n == IF Total = 0 THEN a ELSE d
               g == JoinAckFrame(k, TRUE, IF Total = 0 THEN "COMPLETE" ELSE "SEND_STATE")
               q == Put(down[l], g)
    <3>1. i = Total /\ s.ents = Entities
      BY <2>4, <2>5, <2>10, <2>14
    <3>2. /\ b' = [b EXCEPT ![l] = n] /\ down' = [down EXCEPT ![l] = q]
          /\ cache' = [cache EXCEPT ![l] = [hash |-> s.hash, ents |-> s.ents]]
      BY <1>2, <2>14, Zenon DEF SchemaStep
    <3>3. \A t \in {a, d} : /\ SessionFields \subseteq DOMAIN t /\ t.bn = s.bn /\ t.rn = s.rn
                           /\ t.ents = s.ents /\ t.want = s.want
      <4>1. /\ SessionFields \subseteq DOMAIN a /\ a.bn = s.bn /\ a.rn = s.rn
            /\ a.ents = s.ents /\ a.want = s.want
        BY <2>6 DEF Completed, SessionFields
      <4>2. /\ SessionFields \subseteq DOMAIN d /\ d.bn = s.bn /\ d.rn = s.rn
            /\ d.ents = s.ents /\ d.want = s.want
        BY <2>6 DEF Admitted, SessionFields
      <4> QED
        BY <4>1, <4>2, Zenon
    <3>4. g.kind = "JOIN_ACK" /\ g.stage \in Stages
      BY Zenon DEF JoinAckFrame, Stages
    <3>5. n \in {a, d}
      BY Zenon
    <3> HIDE DEF n, g, a, d
    <3>6. IsSeq(q) /\ Frames(q) \subseteq Frames(down[l]) \cup {g}
      BY <2>1, PutFrames, Zenon
    <3> HIDE DEF q
    <3>7. \A h \in Frames(q) : h \in Frames(down[l]) \/ (h.kind = "JOIN_ACK" /\ h.stage \in Stages)
      BY <3>4, <3>6, Zenon
    <3>8. n.want \in 0 .. Total /\ Had(s, n.want)
      BY <2>3, <2>6, <2>8, <3>3, <3>5, Zenon DEF SessionSound, Had
    <3> QED
      BY <2>12, <3>1, <3>2, <3>3, <3>5, <3>6, <3>7, <3>8, Zenon
  <2> QED
    BY <2>13, <2>14
<1> QED
  BY <1>1, <1>2, Zenon DEF HandleSchemaPush

\* handle_join_: the new key is of no frame on its way.
LEMMA FreshKeeps ==
  ASSUME SchemaInv, NEW l \in Leaves, JoinFresh(l)
  PROVE  SchemaInv'
<1> DEFINE f == Head(up[l])
           s == Started(b[l], f, drawn[l] + 1)
           k == [s EXCEPT !.schema = TRUE, !.ents = cache[l].ents]
           m == [s EXCEPT !.schema = FALSE, !.ents = {}]
           q == down[l]
<1>1. /\ IsSeq(up[l]) /\ IsSeq(q) /\ up[l] # << >> /\ f.kind = "JOIN"
      /\ up' = [up EXCEPT ![l] = Tail(@)] /\ drawn' = [drawn EXCEPT ![l] = @ + 1]
  BY Zenon DEF SchemaInv, Shape, JoinFresh, UpIs
<1>2. IsSeq(Tail(up[l])) /\ Frames(Tail(up[l])) \subseteq Frames(up[l]) /\ f \in Frames(up[l])
  BY <1>1, Taken, Zenon
<1>3. f.hash \in SentHashes /\ CacheSound(cache[l]) /\ SessionSound(l, b[l])
  BY <1>1, <1>2, Zenon DEF SchemaInv, UpSound
<1>4. drawn[l] \in Nat /\ Total \in Nat
  BY TotalNat, Zenon DEF SchemaInv, Shape
<1>5. SessionFields \subseteq DOMAIN s /\ s.bn = drawn[l] + 1 /\ s.want = 0 /\ s.flight = FALSE
  BY <1>3 DEF SessionSound, SessionFields, Started
<1> HIDE DEF s
<1>6. /\ SessionFields \subseteq DOMAIN k /\ k.bn = drawn[l] + 1 /\ k.want = 0
      /\ k.ents = cache[l].ents
  BY <1>5 DEF SessionFields
<1>7. /\ SessionFields \subseteq DOMAIN m /\ m.bn = drawn[l] + 1 /\ m.want = 0
      /\ m.schema = FALSE /\ m.ents = {}
  BY <1>5 DEF SessionFields
<1> HIDE DEF k, m
<1>8. ASSUME NEW t, SessionFields \subseteq DOMAIN t, t.bn = drawn[l] + 1, t.want = 0,
             t.ents \subseteq Entities, t.schema => t.ents = Entities, b' = [b EXCEPT ![l] = t],
             NEW d, IsSeq(d),
             \A g \in Frames(d) : \/ g \in Frames(q)
                                  \/ (g.kind = "JOIN_ACK" /\ g.stage \in Stages)
                                  \/ (g.kind = "SCHEMA_REQUEST" /\ g.index = 0 /\ g.key[1] = drawn[l] + 1),
             down' = [down EXCEPT ![l] = d] \/ (down' = down /\ d = q)
      PROVE  SchemaInv'
  <2>1. b'[l] = t /\ down'[l] = d /\ up'[l] = Tail(up[l]) /\ drawn'[l] = drawn[l] + 1 /\ cache' = cache
    BY <1>1, <1>8, Zenon DEF SchemaInv, Shape, JoinFresh
  <2>2. OthersKept(l)
    <3>1. SameScenario /\ r' = r
      BY Stays, Zenon DEF JoinFresh
    <3>2. drawn' \in [Leaves -> Nat]
      <4>1. drawn \in [Leaves -> Nat]
        BY Zenon DEF SchemaInv, Shape
      <4> QED
        BY <1>1, <4>1
    <3>3. /\ DOMAIN up' = Leaves /\ DOMAIN b' = Leaves /\ DOMAIN down' = Leaves /\ DOMAIN cache' = Leaves
          /\ \A j \in Leaves \ {l} : /\ b'[j] = b[j] /\ down'[j] = down[j] /\ cache'[j] = cache[j]
                                    /\ up'[j] = up[j] /\ drawn'[j] = drawn[j]
      BY <1>1, <1>8, <2>1, Zenon DEF SchemaInv, Shape
    <3> QED
      BY <3>1, <3>2, <3>3, Zenon DEF OthersKept
  <2>3. Leaves' = Leaves /\ Total' = Total /\ Entities' = Entities
    BY <2>2, SameLeaves, Zenon DEF OthersKept
  <2>4. CacheSound(cache[l])'
    BY <1>3, <2>1, <2>3, Zenon DEF CacheSound
  <2>5. Key(b'[l])[1] = drawn[l] + 1 /\ Had(b'[l], 0)
    BY <1>8, <2>1 DEF Key, Had
  <2>6. SessionSound(l, b[l])'
    <3>1. b'[l].bn \in 0 .. drawn'[l] /\ b'[l].bn # 0 /\ b'[l].want \in 0 .. Total
      BY <1>4, <1>8, <2>1
    <3> QED
      BY <1>8, <2>1, <2>3, <2>5, <3>1, Zenon DEF SessionSound
  <2>7. ASSUME NEW g, Exchange(l, g) PROVE Exchange(l, g)'
    <3>1. g.key[1] \in 1 .. drawn'[l] /\ g.key[1] # drawn[l] + 1
      BY <1>4, <2>1, <2>7 DEF Exchange
    <3> QED
      BY <2>3, <2>5, <2>7, <3>1, Zenon DEF Exchange
  <2>8. \A g \in Frames(up'[l]) : UpSound(l, g)'
    BY <1>2, <2>1, <2>7, Zenon DEF SchemaInv, UpSound, SentHashes
  <2>9. ASSUME NEW g \in Frames(down'[l]) PROVE DownSound(l, g)'
    <3>1. CASE g \in Frames(q)
      BY <2>7, <3>1, Zenon DEF SchemaInv, DownSound, Stages
    <3>2. CASE g.kind = "JOIN_ACK" /\ g.stage \in Stages
      BY <3>2, Zenon DEF DownSound, Stages
    <3>3. CASE g.kind = "SCHEMA_REQUEST" /\ g.index = 0 /\ g.key[1] = drawn[l] + 1
      <4>1. g.index \in 0 .. Total /\ g.key[1] \in 1 .. drawn'[l]
        BY <1>4, <2>1, <3>3
      <4>2. Exchange(l, g)'
        BY <2>3, <2>5, <3>3, <4>1, Zenon DEF Exchange
      <4> QED
        BY <3>3, <4>2, Zenon DEF DownSound
    <3> QED
      BY <1>8, <2>1, <2>9, <3>1, <3>2, <3>3, Zenon
  <2> QED
    BY <1>2, <1>8, <2>1, <2>2, <2>4, <2>6, <2>8, <2>9, AtLeaf, Zenon
<1>9. ASSUME cache[l].hash = f.hash PROVE k.ents = Entities
  <2>1. f.hash # "none"
    BY <1>3 DEF SentHashes
  <2> QED
    BY <1>3, <1>6, <1>9, <2>1, Zenon DEF CacheSound
<1>10. \A st, t : st \in Stages => /\ JoinAckFrame(t, TRUE, st).kind = "JOIN_ACK"
                                  /\ JoinAckFrame(t, TRUE, st).stage \in Stages
  BY Zenon DEF JoinAckFrame
<1>11. ASSUME NEW t, NEW st \in Stages
       PROVE  /\ IsSeq(Put(q, JoinAckFrame(t, TRUE, st)))
              /\ \A g \in Frames(Put(q, JoinAckFrame(t, TRUE, st))) :
                   g \in Frames(q) \/ (g.kind = "JOIN_ACK" /\ g.stage \in Stages)
  <2> DEFINE a == JoinAckFrame(t, TRUE, st)
  <2>1. a.kind = "JOIN_ACK" /\ a.stage \in Stages
    BY <1>10, Zenon
  <2> HIDE DEF a
  <2>2. IsSeq(Put(q, a)) /\ Frames(Put(q, a)) \subseteq Frames(q) \cup {a}
    BY <1>1, PutFrames, Zenon
  <2>3. \A g \in Frames(Put(q, a)) : g \in Frames(q) \/ (g.kind = "JOIN_ACK" /\ g.stage \in Stages)
    BY <2>1, <2>2, Zenon
  <2> QED
    BY <2>2, <2>3, Zenon DEF a
<1>12. CASE /\ cache[l].hash = f.hash
            /\ down' = [down EXCEPT ![l] = Put(q, JoinAckFrame(k, TRUE, "COMPLETE"))]
            /\ b' = [b EXCEPT ![l] = Completed(k)]
  <2> DEFINE t == Completed(k)
  <2>1. SessionFields \subseteq DOMAIN t /\ t.bn = drawn[l] + 1 /\ t.want = 0 /\ t.ents = k.ents
    BY <1>6 DEF Completed, SessionFields
  <2> HIDE DEF t
  <2>2. "COMPLETE" \in Stages
    BY Zenon DEF Stages
  <2> QED
    BY <1>8, <1>9, <1>11, <1>12, <2>1, <2>2, Zenon DEF t
<1>13. CASE /\ cache[l].hash = f.hash
            /\ down' = [down EXCEPT ![l] = Put(q, JoinAckFrame(k, TRUE, "SEND_STATE"))]
            /\ LET n == [Admitted(k) EXCEPT !.sync = TRUE, !.more = TRUE]
               IN b' = [b EXCEPT ![l] = IF Room(q) THEN n ELSE Dropped(n)]
  <2> DEFINE n == [Admitted(k) EXCEPT !.sync = TRUE, !.more = TRUE]
             t == IF Room(q) THEN n ELSE Dropped(n)
  <2>1. SessionFields \subseteq DOMAIN n /\ n.bn = drawn[l] + 1 /\ n.want = 0 /\ n.ents = k.ents
    BY <1>6 DEF Admitted, SessionFields
  <2> HIDE DEF n
  <2>2. SessionFields \subseteq DOMAIN Dropped(n) /\ Dropped(n).bn = n.bn /\ Dropped(n).want = n.want
        /\ Dropped(n).ents = n.ents
    BY <2>1 DEF Dropped, SessionFields
  <2>3. SessionFields \subseteq DOMAIN t /\ t.bn = drawn[l] + 1 /\ t.want = 0 /\ t.ents = k.ents
    BY <2>1, <2>2, Zenon
  <2>4. b' = [b EXCEPT ![l] = t]
    BY <1>13, Zenon DEF n
  <2> HIDE DEF t
  <2>5. "SEND_STATE" \in Stages
    BY Zenon DEF Stages
  <2> QED
    BY <1>8, <1>9, <1>11, <1>13, <2>3, <2>4, <2>5, Zenon
<1>14. CASE LET n == Admitted(m)
                p == Put(q, JoinAckFrame(m, TRUE, "SCHEMA_REFRESH"))
                a == Requested(n, 0, Room(p))
            IN IF ~Room(q)
                 THEN /\ down' = down /\ b' = [b EXCEPT ![l] = Dropped(n)]
                 ELSE /\ down' = [down EXCEPT ![l] = Put(p, RequestFrame(n, 0))]
                      /\ b' = [b EXCEPT ![l] = IF Room(p) THEN a ELSE Dropped(a)]
  <2> DEFINE n == Admitted(m)
             p == Put(q, JoinAckFrame(m, TRUE, "SCHEMA_REFRESH"))
             a == Requested(n, 0, Room(p))
             e == RequestFrame(n, 0)
             Blank(t) == /\ SessionFields \subseteq DOMAIN t /\ t.bn = drawn[l] + 1 /\ t.want = 0
                         /\ t.schema = FALSE /\ t.ents = {}
  <2>1. Blank(n)
    BY <1>7 DEF Admitted, SessionFields
  <2>2. /\ IsSeq(p)
        /\ \A g \in Frames(p) : g \in Frames(q) \/ (g.kind = "JOIN_ACK" /\ g.stage \in Stages)
    <3>1. "SCHEMA_REFRESH" \in Stages
      BY Zenon DEF Stages
    <3> QED
      BY <1>11, <3>1, Zenon
  <2>3. \/ down' = down /\ b' = [b EXCEPT ![l] = Dropped(n)]
        \/ /\ down' = [down EXCEPT ![l] = Put(p, e)]
           /\ b' = [b EXCEPT ![l] = a] \/ b' = [b EXCEPT ![l] = Dropped(a)]
    BY <1>14, Zenon
  <2> HIDE DEF n, p
  <2>4. Blank(a)
    BY <2>1 DEF Requested, SessionFields
  <2>5. ASSUME NEW t, Blank(t) PROVE Blank(Dropped(t))
    BY <2>5 DEF Dropped, SessionFields
  <2>6. e.kind = "SCHEMA_REQUEST" /\ e.index = 0 /\ e.key[1] = drawn[l] + 1
    <3>1. e.kind = "SCHEMA_REQUEST" /\ e.index = 0 /\ e.key = Key(n)
      BY Zenon DEF RequestFrame
    <3>2. Key(n)[1] = drawn[l] + 1
      BY <2>1 DEF Key
    <3> QED
      BY <3>1, <3>2, Zenon
  <2> HIDE DEF a, e
  <2>7. ASSUME NEW t, Blank(t), b' = [b EXCEPT ![l] = t],
               NEW d, IsSeq(d), down' = [down EXCEPT ![l] = d] \/ (down' = down /\ d = q),
               \A g \in Frames(d) : \/ g \in Frames(q)
                                    \/ (g.kind = "JOIN_ACK" /\ g.stage \in Stages)
                                    \/ (g.kind = "SCHEMA_REQUEST" /\ g.index = 0 /\ g.key[1] = drawn[l] + 1)
        PROVE  SchemaInv'
    <3>1. t.ents \subseteq Entities /\ (t.schema => t.ents = Entities)
      BY <2>7
    <3> QED
      BY <1>8, <2>7, <3>1, Zenon
  <2>8. /\ IsSeq(Put(p, e))
        /\ \A g \in Frames(Put(p, e)) : \/ g \in Frames(q)
                                       \/ (g.kind = "JOIN_ACK" /\ g.stage \in Stages)
                                       \/ (g.kind = "SCHEMA_REQUEST" /\ g.index = 0 /\ g.key[1] = drawn[l] + 1)
    <3>1. IsSeq(Put(p, e)) /\ Frames(Put(p, e)) \subseteq Frames(p) \cup {e}
      BY <2>2, PutFrames, Zenon
    <3> QED
      BY <2>2, <2>6, <3>1, Zenon
  <2>9. CASE down' = down /\ b' = [b EXCEPT ![l] = Dropped(n)]
    BY <1>1, <2>1, <2>5, <2>7, <2>9, Zenon
  <2>10. CASE down' = [down EXCEPT ![l] = Put(p, e)] /\ b' = [b EXCEPT ![l] = a]
    BY <2>4, <2>7, <2>8, <2>10, Zenon
  <2>11. CASE down' = [down EXCEPT ![l] = Put(p, e)] /\ b' = [b EXCEPT ![l] = Dropped(a)]
    BY <2>4, <2>5, <2>7, <2>8, <2>11, Zenon
  <2> QED
    BY <2>3, <2>9, <2>10, <2>11, Zenon
<1> QED
  BY <1>12, <1>13, <1>14, Zenon DEF JoinFresh, s, k, m

\* A restarted bridge has no session; every frame on its way is of an old key.
LEMMA RestartKeeps ==
  ASSUME SchemaInv, BridgeRestart
  PROVE  SchemaInv'
<1>1. SameScenario
  <2>1. hits' = [hits EXCEPT !["bridge"] = @ + 1]
    BY Zenon DEF BridgeRestart
  <2> QED
    BY <2>1, Stays
<1>2. Leaves' = Leaves /\ Total' = Total /\ Entities' = Entities
  BY <1>1, SameLeaves, Zenon
<1>3. Shape'
  BY <1>1, <1>2, Zenon DEF SchemaInv, Shape, BridgeRestart, SameScenario
<1> SUFFICES ASSUME NEW l \in Leaves
             PROVE  /\ LeafSound(r[l])' /\ SessionSound(l, b[l])' /\ CacheSound(cache[l])'
                    /\ \A f \in Frames(up'[l]) : UpSound(l, f)'
                    /\ \A f \in Frames(down'[l]) : DownSound(l, f)'
  BY <1>2, <1>3, Zenon DEF SchemaInv, Frames
<1>4. b'[l] = NewSession /\ cache'[l] = NoSchema /\ up' = up /\ down' = down /\ drawn' = drawn /\ r' = r
  BY Zenon DEF BridgeRestart
<1>5. LeafSound(r[l])' /\ CacheSound(cache[l])'
  <2>1. NoSchema.hash = "none"
    BY Zenon DEF NoSchema
  <2> QED
    BY <1>4, <2>1, Zenon DEF SchemaInv, LeafSound, SentHashes, CacheSound
<1>6. drawn[l] \in Nat /\ Total \in Nat
  BY TotalNat, Zenon DEF SchemaInv, Shape
<1>7. Key(b'[l])[1] = 0
  BY <1>4 DEF Key, NewSession
<1>8. SessionSound(l, b[l])'
  <2>1. /\ SessionFields \subseteq DOMAIN NewSession /\ NewSession.bn = 0 /\ NewSession.want = 0
        /\ NewSession.ents = {} /\ NewSession.flight = FALSE /\ NewSession.schema = FALSE
    BY DEF NewSession, SessionFields
  <2>2. 0 \in 0 .. drawn[l] /\ 0 \in 0 .. Total /\ Had(NewSession, 0)
    BY <1>6 DEF Had
  <2> QED
    BY <1>2, <1>4, <2>1, <2>2, Zenon DEF SessionSound
<1>9. ASSUME NEW f, Exchange(l, f) PROVE Exchange(l, f)'
  <2>1. f.key[1] # 0
    BY <1>6, <1>9 DEF Exchange
  <2> QED
    BY <1>2, <1>4, <1>7, <1>9, <2>1, Zenon DEF Exchange
<1>10. \A f \in Frames(up'[l]) : UpSound(l, f)'
  BY <1>4, <1>9, Zenon DEF SchemaInv, UpSound, SentHashes
<1>11. \A f \in Frames(down'[l]) : DownSound(l, f)'
  BY <1>4, <1>9, Zenon DEF SchemaInv, DownSound, Stages
<1> QED
  BY <1>5, <1>8, <1>10, <1>11

-----------------------------------------------------------------------------
(* The theorem *)

\* Before the first join there is no schema and no claim on one.
LEMMA SchemaInit ==
  ASSUME Init
  PROVE  SchemaInv
<1>1. "sc" \in DOMAIN hits /\ hits.sc \in DOMAIN Scenarios
  BY DEF Init
<1>2. /\ r = [l \in Leaves |-> Booted(1)] /\ b = [l \in Leaves |-> NewSession]
      /\ cache = [l \in Leaves |-> NoSchema] /\ drawn = [l \in Leaves |-> 0]
      /\ down = [l \in Leaves |-> << >>] /\ up = [l \in Leaves |-> << >>]
  BY Zenon DEF Init
<1>3. IsSeq(<< >>) /\ Frames(<< >>) = {}
  BY DEF IsSeq, Frames
<1>4. drawn \in [Leaves -> Nat]
  BY <1>2
<1>5. Shape
  BY <1>1, <1>2, <1>3, <1>4, Zenon DEF Shape
<1>6. Total \in Nat
  <2>1. Scenarios[hits.sc] \in Scenario
    BY <1>1, JoinAssumption
  <2> QED
    BY <2>1 DEF Total, sc, Scenario
<1>7. ASSUME NEW l \in Leaves PROVE SessionSound(l, b[l])
  <2>1. /\ SessionFields \subseteq DOMAIN NewSession /\ NewSession.bn = 0 /\ NewSession.want = 0
        /\ NewSession.ents = {} /\ NewSession.flight = FALSE /\ NewSession.schema = FALSE
    BY DEF NewSession, SessionFields
  <2>2. drawn[l] = 0 /\ b[l] = NewSession
    BY <1>2, Zenon
  <2>3. 0 \in 0 .. 0 /\ 0 \in 0 .. Total /\ Had(NewSession, 0)
    BY <1>6 DEF Had
  <2> QED
    BY <2>1, <2>2, <2>3, Zenon DEF SessionSound
<1>8. LeafSound(Booted(1)) /\ CacheSound(NoSchema)
  BY DEF LeafSound, Booted, SentHashes, CacheSound, NoSchema
<1> QED
  BY <1>2, <1>3, <1>5, <1>7, <1>8, Zenon DEF SchemaInv

\* The invariant is inductive: one case per action of Next.
LEMMA SchemaNext ==
  ASSUME SchemaInv, [Next]_vars
  PROVE  SchemaInv'
<1>1. CASE BridgeRestart
  BY <1>1, RestartKeeps
<1>2. ASSUME NEW l \in Leaves, BridgeStep(l) PROVE SchemaInv'
  BY <1>2, BridgeCalm, CalmKeeps, PushKeeps, FreshKeeps, Zenon DEF BridgeStep
<1>3. ASSUME NEW l \in Leaves, LeafStep(l) PROVE SchemaInv'
  BY <1>3, LeafCalm, CalmKeeps
<1>4. CASE \/ \E l \in Leaves : Change(l) \/ RemoteRestart(l) \/ Lose(l) \/ Repeat(l)
           \/ SlotTimeout \/ UNCHANGED vars
  BY <1>4, OthersCalm, CalmKeeps
<1> QED
  BY <1>1, <1>2, <1>3, <1>4, Zenon DEF Next

\* A session of the bridge whose schema counts as received (schema_received) holds every
\* entity of its leaf, in any scenario: with frames lost or repeated, timers that run out
\* early, restarts of either end and leaves that compete for the join slot.
THEOREM SchemaAlwaysWhole == Spec => []SchemaWhole
<1>1. SchemaInv => SchemaWhole
  BY Zenon DEF SchemaInv, SessionSound, SchemaWhole
<1> QED
  BY <1>1, SchemaInit, SchemaNext, PTL DEF Spec
=============================================================================
