------------------------- MODULE RelayRoutingProofs -------------------------
(***************************************************************************)
(* The hop count of downstream frames, and the tree the parents form as    *)
(* long as no remote restarts or recovers its route, for any set of        *)
(* remotes, any radio range and any number of faults.                      *)
(***************************************************************************)
EXTENDS RelayRouting, TLAPS

\* A frame has the fields the argument is about.
IsFrame(f) == {"up", "count", "passed"} \subseteq DOMAIN f

\* The hop count of a frame to a leaf is the number of times it was passed on.
CountsHops(f) == ~f.up => f.count \in 0 .. MaxHops /\ f.passed = f.count

HopInv == \A f \in air : IsFrame(f) /\ CountsHops(f)

\* Sent adds at most the frame it is given.
LEMMA SentSubset == \A f : Sent(f) \subseteq {f}
BY Zenon DEF Sent

\* A relay that passes on a frame to a leaf, which is not too deep, adds 1 to both counts.
LEMMA ForwardedDown ==
  ASSUME NEW f, IsFrame(f), CountsHops(f), ~f.up, ~TooDeep(f), NEW y, NEW to
  PROVE  LET g == Forwarded(f, y, to, 1) IN IsFrame(g) /\ CountsHops(g)
<1>1. MaxHops \in 1 .. 15
  BY Zenon, RelayAssumption
<1>2. f.count \in 0 .. MaxHops /\ f.passed = f.count /\ f.count < MaxHops
  BY <1>1 DEF CountsHops, TooDeep
<1>3. ((f.count + 1) % 16) = f.count + 1
  BY <1>1, <1>2
<1> DEFINE g == Forwarded(f, y, to, 1)
<1>4. IsFrame(g) /\ g.up = f.up /\ g.count = ((f.count + 1) % 16)
      /\ g.passed = IF f.passed > MaxHops THEN f.passed ELSE f.passed + 1
  BY Zenon DEF IsFrame, Forwarded
<1> HIDE DEF g
<1>5. IsFrame(g) /\ CountsHops(g)
  BY <1>1, <1>2, <1>3, <1>4 DEF CountsHops
<1> QED
  BY <1>5, Zenon DEF g

\* A frame to the bridge stays one.
LEMMA ForwardedUp ==
  ASSUME NEW f, IsFrame(f), f.up, NEW y, NEW to
  PROVE  LET g == Forwarded(f, y, to, 0) IN IsFrame(g) /\ CountsHops(g)
BY Zenon DEF IsFrame, CountsHops, Forwarded

\* The frames a remote and the bridge send first
LEMMA NewFrames ==
  ASSUME NEW x, NEW kind, NEW to, NEW count
  PROVE  /\ IsFrame(UpFrame(x, kind)) /\ CountsHops(UpFrame(x, kind))
         /\ IsFrame(DownFrame(x, kind)) /\ CountsHops(DownFrame(x, kind))
         /\ LET g == [DownFrame(x, kind) EXCEPT !.to = to] IN IsFrame(g) /\ CountsHops(g)
         /\ LET g == [kind |-> kind, up |-> TRUE, leaf |-> x, from |-> x, to |-> to,
                      count |-> count, passed |-> 0]
            IN IsFrame(g) /\ CountsHops(g)
<1>1. MaxHops \in 1 .. 15
  BY Zenon, RelayAssumption
<1> QED
  BY <1>1 DEF IsFrame, CountsHops, UpFrame, DownFrame

\* A step that takes frames from the air and adds one whose count is right keeps HopInv.
LEMMA AddFrame ==
  ASSUME HopInv, NEW g, IsFrame(g), CountsHops(g), air' \subseteq air \cup Sent(g)
  PROVE  HopInv'
<1> SUFFICES ASSUME NEW f \in air' PROVE IsFrame(f) /\ CountsHops(f)
  BY Zenon DEF HopInv, IsFrame, CountsHops
<1>1. f \in air \/ f = g
  BY Zenon, SentSubset
<1> QED
  BY <1>1, Zenon DEF HopInv

\* A step that adds no frame keeps HopInv.
LEMMA NoFrame ==
  ASSUME HopInv, air' \subseteq air
  PROVE  HopInv'
BY Zenon DEF HopInv, IsFrame, CountsHops

\* What the loops of remotes and bridge send
LEMMA NodeKeeps ==
  ASSUME HopInv, NEW x \in Nodes, NodeStep(x)
  PROVE  HopInv'
<1>1. CASE SendJoin(x)
  BY <1>1, NewFrames, AddFrame, ZenonT(30) DEF SendJoin
<1>2. CASE Resume(x)
  BY <1>2, NewFrames, AddFrame, ZenonT(30) DEF Resume
<1>3. CASE Heartbeat(x)
  BY <1>3, NewFrames, AddFrame, Zenon DEF Heartbeat
<1>4. CASE Command(x)
  BY <1>4, NewFrames, AddFrame, Zenon DEF Command
<1>5. CASE \/ SendDiscover(x) \/ BridgeAnnounce(x) \/ RelayAnnounce(x) \/ CloseWindow(x)
           \/ JoinExhausted(x) \/ RecoverRoute(x) \/ Restart(x)
           \/ \E y \in Nodes : ForgetAsked(x, y) \/ ExpireRoute(x, y)
  <2>1. air' = air
    BY <1>5, Zenon DEF SendDiscover, BridgeAnnounce, RelayAnnounce, CloseWindow, JoinExhausted,
                RecoverRoute, Restart, ForgetAsked, ExpireRoute
  <2> QED
    BY Zenon, <2>1, NoFrame
<1> QED
  BY <1>1, <1>2, <1>3, <1>4, <1>5, Zenon DEF NodeStep

\* What becomes of a frame
LEMMA FrameKeeps ==
  ASSUME HopInv, NEW f \in air, FrameStep(f)
  PROVE  HopInv'
<1>1. IsFrame(f) /\ CountsHops(f)
  BY Zenon DEF HopInv
<1>2. CASE HandleUpstream(f)
  <2> DEFINE g == Forwarded(f, f.to, n[f.to].parent, 0)
  <2>1. IsFrame(g) /\ CountsHops(g)
    BY <1>1, <1>2, ForwardedUp, Zenon DEF HandleUpstream
  <2>2. air' \subseteq air \cup Sent(g)
    BY <1>2, Zenon DEF HandleUpstream
  <2> HIDE DEF g
  <2> QED
    BY Zenon, <2>1, <2>2, AddFrame
<1>3. CASE HandleDownstream(f)
  <2> DEFINE g == Forwarded(f, f.to, n[f.to].routes[f.leaf], 1)
  <2>1. ~f.up /\ ~TooDeep(f)
    BY <1>3, Zenon DEF HandleDownstream
  <2>2. IsFrame(g) /\ CountsHops(g)
    BY Zenon, <1>1, <2>1, ForwardedDown
  <2>3. air' \subseteq air \cup Sent(g)
    BY <1>3, Zenon DEF HandleDownstream
  <2> HIDE DEF g
  <2> QED
    BY Zenon, <2>2, <2>3, AddFrame
<1>4. CASE BridgeReceive(f)
  <2> DEFINE g == [DownFrame(f.leaf, "JOIN_ACK") EXCEPT !.to = f.from]
  <2>1. IsFrame(g) /\ CountsHops(g)
    BY Zenon, NewFrames
  <2>2. air' \subseteq air \cup Sent(g)
    BY <1>4, Zenon DEF BridgeReceive
  <2> HIDE DEF g
  <2> QED
    BY Zenon, <2>1, <2>2, AddFrame
<1>5. CASE HandleOwn(f) \/ Discard(f)
  BY <1>5, NoFrame, Zenon DEF HandleOwn, Discard
<1> QED
  BY <1>2, <1>3, <1>4, <1>5, Zenon DEF FrameStep

\* Spec keeps HopInv: every downstream frame in the air has been passed on as often as its
\* hop count says, and no more than max_hops_ times.
THEOREM HopCount == Spec => []HopInv
<1>1. Init => HopInv
  BY Zenon DEF Init, HopInv
<1>2. ASSUME HopInv, [Next]_vars PROVE HopInv'
  <2>1. CASE \E x \in Nodes : NodeStep(x)
    BY Zenon, <1>2, <2>1, NodeKeeps
  <2>2. CASE \E f \in air : FrameStep(f)
    BY Zenon, <1>2, <2>2, FrameKeeps
  <2>3. CASE \E f \in air : Lose(f)
    BY <1>2, <2>3, NoFrame, Zenon DEF Lose
  <2>4. CASE \E p \in sc.mobile : Move(p)
    BY <1>2, <2>4, NoFrame, Zenon DEF Move
  <2>5. CASE UNCHANGED vars
    BY <1>2, <2>5, NoFrame, Zenon DEF vars
  <2> QED
    BY <1>2, <2>1, <2>2, <2>3, <2>4, <2>5, Zenon DEF Next
<1> QED
  BY <1>1, <1>2, PTL DEF Spec

\* handle_downstream_ and forward_packet_: whatever circles the route tables of the relays
\* form, a downstream frame is passed on at most max_hops_ times.
THEOREM DownstreamEnds == Spec => []DownBounded
<1>1. HopInv => DownBounded
  <2>1. MaxHops \in 1 .. 15
    BY Zenon, RelayAssumption
  <2> QED
    BY <2>1 DEF HopInv, CountsHops, DownBounded
<1> QED
  BY <1>1, HopCount, PTL

-----------------------------------------------------------------------------
(* The tree of parents.                                                     *)

\* What the argument needs of the record of a remote, whatever happened to it.
Shaped(s) ==
  /\ {"normal", "joined", "resume", "flight", "parent", "hops", "best", "queue"} \subseteq DOMAIN s
  /\ s.normal \in BOOLEAN /\ s.joined \in BOOLEAN /\ s.resume \in BOOLEAN /\ s.flight \in BOOLEAN
  /\ s.normal => s.joined
  /\ s.resume => ~s.flight
  /\ s.queue \in Seq([to : Nodes, hops : Nat])
  /\ s.hops \in Nat /\ s.best.hops \in Nat

\* A frame belongs to a leaf, and is its only one.
OneFrame ==
  /\ \A f \in air : {"kind", "leaf", "to"} \subseteq DOMAIN f /\ f.leaf \in Nodes
  /\ \A f, g \in air : f.leaf = g.leaf => f = g

\* A candidate is a node that offered itself, and is where it said it was.
Candidate(c) == c.hops \in 0 .. MaxHops /\ IsAt(c.hop, c.hops)

Offers(x) == \A i \in 1 .. Len(n[x].queue) : CanRelay(x) /\ n[x].queue[i].hops = n[x].hops

\* A leaf with a JOIN or its answer on the way waits for it, and has a candidate.
Joining(f) == f.kind \in {"JOIN", "JOIN_ACK"} => ~n[f.leaf].normal /\ n[f.leaf].best # Unknown

InTree(s) == s.hops \in 1 .. MaxHops + 1 /\ IsAt(s.parent, s.hops - 1)

Tree ==
  /\ \A x \in Nodes : n[x].normal => InTree(n[x])
  /\ \A x \in Nodes : n[x].best # Unknown => Candidate(n[x].best)
  /\ \A x \in Nodes : Offers(x)
  /\ \A f \in air : Joining(f)

TreeInv ==
  /\ DOMAIN n = Nodes /\ \A x \in Nodes : Shaped(n[x])
  /\ "boot" \in DOMAIN hits /\ hits.boot \in Nat
  /\ OneFrame
  /\ Undisturbed => Tree

-----------------------------------------------------------------------------
\* A remote at which a step changes nothing but its candidate and its queue: it hears of
\* nodes where they are, and offers itself from where it is.
Steady(x) ==
  /\ Shaped(n[x])'
  /\ n'[x].resume = n[x].resume /\ n'[x].normal = n[x].normal
  /\ n[x].normal => n'[x].parent = n[x].parent /\ n'[x].hops = n[x].hops
  /\ n'[x].best \in {n[x].best, Unknown} \/ (Undisturbed => Candidate(n'[x].best))
  /\ \A i \in 1 .. Len(n'[x].queue) :
       \/ \E j \in 1 .. Len(n[x].queue) : n'[x].queue[i] = n[x].queue[j]
       \/ CanRelay(x) /\ n'[x].queue[i].hops = n[x].hops

\* A remote at which nothing happens is steady.
LEMMA SameSteady ==
  ASSUME NEW x, Shaped(n[x]), n'[x] = n[x]
  PROVE  Steady(x)
BY Zenon DEF Steady, Shaped

\* A node that passes frames on stays where it is when no remote in NORMAL moves.
LEMMA StaysAt ==
  ASSUME NEW y, NEW hops, IsAt(y, hops),
         \A x \in Nodes : n[x].normal => n'[x].normal /\ n'[x].parent = n[x].parent /\ n'[x].hops = n[x].hops
  PROVE  IsAt(y, hops)'
<1>1. CASE y = Bridge /\ hops = 0
  BY <1>1, Zenon DEF IsAt
<1>2. CASE y \in Nodes /\ CanRelay(y) /\ n[y].hops = hops
  BY <1>2, Zenon DEF IsAt, CanRelay
<1> QED
  BY <1>1, <1>2, Zenon DEF IsAt

\* A step that leaves every remote steady keeps the tree.
LEMMA SteadyTree ==
  ASSUME TreeInv, DOMAIN n' = Nodes, \A x \in Nodes : Steady(x),
         "boot" \in DOMAIN hits', hits'.boot = hits.boot, OneFrame',
         Undisturbed => \A f \in air' : Joining(f)'
  PROVE  TreeInv'
<1>1. \A x \in Nodes : Shaped(n[x])'
  BY Zenon DEF Steady
<1>2. hits'.boot \in Nat
  BY Zenon DEF TreeInv
<1>3. ASSUME Undisturbed' PROVE Tree'
  <2>1. Undisturbed
    BY <1>3, Zenon DEF Undisturbed, Steady
  <2>2. Tree
    BY <2>1, Zenon DEF TreeInv
  <2>3. \A x \in Nodes : n[x].normal => n'[x].normal /\ n'[x].parent = n[x].parent /\ n'[x].hops = n[x].hops
    BY Zenon DEF Steady
  <2>4. ASSUME NEW x \in Nodes, n'[x].normal PROVE InTree(n[x])'
    <3>1. n[x].normal /\ n'[x].parent = n[x].parent /\ n'[x].hops = n[x].hops
      BY <2>4, Zenon DEF Steady
    <3>2. n[x].hops \in 1 .. MaxHops + 1 /\ IsAt(n[x].parent, n[x].hops - 1)
      BY <2>2, <3>1, Zenon DEF Tree, InTree
    <3>3. ASSUME NEW y, y = n[x].parent, NEW h, h = n[x].hops - 1 PROVE IsAt(y, h)'
      BY Zenon, <2>3, <3>2, <3>3, StaysAt
    <3>4. IsAt(n[x].parent, n[x].hops - 1)'
      BY <3>1, <3>3, ZenonT(30) DEF IsAt, CanRelay
    <3> QED
      BY <3>1, <3>2, <3>4, Zenon DEF InTree
  <2>5. ASSUME NEW x \in Nodes, n'[x].best # Unknown PROVE Candidate(n[x].best)'
    <3>1. Candidate(n'[x].best)
      BY <2>1, <2>2, <2>5, Zenon DEF Tree, Steady
    <3>2. ASSUME NEW c, c = n'[x].best PROVE c.hops \in 0 .. MaxHops /\ IsAt(c.hop, c.hops)'
      BY <2>3, <3>1, <3>2, StaysAt, Zenon DEF Candidate
    <3> QED
      BY <3>2, Zenon DEF Candidate, IsAt, CanRelay
  <2>6. ASSUME NEW x \in Nodes PROVE Offers(x)'
    <3> SUFFICES ASSUME NEW i \in 1 .. Len(n'[x].queue)
                 PROVE  CanRelay(x)' /\ n'[x].queue[i].hops = n'[x].hops
      BY Zenon DEF Offers
    <3>1. CanRelay(x) /\ n'[x].queue[i].hops = n[x].hops
      <4>1. CASE \E j \in 1 .. Len(n[x].queue) : n'[x].queue[i] = n[x].queue[j]
        BY <2>2, <4>1, Zenon DEF Tree, Offers
      <4> QED
        BY <4>1, Zenon DEF Steady
    <3> QED
      BY <2>3, <3>1, Zenon DEF CanRelay
  <2> QED
    BY <2>1, <2>4, <2>5, <2>6, Zenon DEF Tree
<1> QED
  BY <1>1, <1>2, <1>3, Zenon DEF TreeInv

\* After a restart or a route recovery nothing is said of the tree.
LEMMA Disturbed ==
  ASSUME TreeInv, DOMAIN n' = Nodes, \A x \in Nodes : Shaped(n[x])',
         "boot" \in DOMAIN hits', hits'.boot \in Nat, OneFrame', ~Undisturbed'
  PROVE  TreeInv'
BY Zenon DEF TreeInv

-----------------------------------------------------------------------------
\* A step that takes frames from the air leaves at most one of each leaf.
LEMMA FewerFrames ==
  ASSUME OneFrame, air' \subseteq air
  PROVE  OneFrame'
BY Zenon DEF OneFrame

\* A frame that is passed on, or answered, takes the place of the one before.
LEMMA PassedFrame ==
  ASSUME OneFrame, NEW f \in air, NEW g, {"kind", "leaf", "to"} \subseteq DOMAIN g, g.leaf = f.leaf,
         air' \subseteq (air \ {f}) \cup {g}
  PROVE  OneFrame'
BY Zenon DEF OneFrame

\* A node sends for a leaf that has no frame in the air.
LEMMA FirstFrame ==
  ASSUME OneFrame, NEW x \in Nodes, Quiet(x), NEW g, {"kind", "leaf", "to"} \subseteq DOMAIN g, g.leaf = x,
         air' \subseteq air \cup {g}
  PROVE  OneFrame'
BY Zenon DEF OneFrame, Quiet

\* A frame of a join stays one of a leaf that waits for it.
LEMMA StaysJoining ==
  ASSUME TreeInv, Undisturbed, NEW f \in air, NEW g, g.leaf = f.leaf,
         g.kind \in {"JOIN", "JOIN_ACK"} => f.kind \in {"JOIN", "JOIN_ACK"},
         n'[f.leaf].normal = n[f.leaf].normal,
         n[f.leaf].best # Unknown => n'[f.leaf].best # Unknown
  PROVE  Joining(g)'
BY Zenon DEF TreeInv, Tree, Joining

\* The leaf of a frame is a remote.
LEMMA LeafOfFrame ==
  ASSUME TreeInv, NEW f \in air
  PROVE  f.leaf \in Nodes /\ {"kind", "leaf", "to"} \subseteq DOMAIN f
BY Zenon DEF TreeInv, OneFrame

\* The first and the other entries of a queue
LEMMA HeadAndTail ==
  ASSUME NEW S, NEW q \in Seq(S), q # << >>
  PROVE  /\ Head(q) = q[1] /\ q[1] \in S /\ 1 \in 1 .. Len(q)
         /\ Tail(q) \in Seq(S)
         /\ \A i \in 1 .. Len(Tail(q)) : i + 1 \in 1 .. Len(q) /\ Tail(q)[i] = q[i + 1]
OBVIOUS

\* The entries of a queue after one was added
LEMMA Appended ==
  ASSUME NEW S, NEW q \in Seq(S), NEW e \in S
  PROVE  /\ Append(q, e) \in Seq(S)
         /\ \A i \in 1 .. Len(Append(q, e)) :
              (\E j \in 1 .. Len(q) : Append(q, e)[i] = q[j]) \/ Append(q, e)[i] = e
<1>1. Append(q, e) \in Seq(S) /\ Len(Append(q, e)) = Len(q) + 1 /\ Len(q) \in Nat
  OBVIOUS
<1>2. ASSUME NEW i \in 1 .. Len(Append(q, e))
      PROVE  (i \in 1 .. Len(q) /\ Append(q, e)[i] = q[i]) \/ Append(q, e)[i] = e
  BY <1>1
<1> QED
  BY Zenon, <1>1, <1>2

\* An announce that arrives makes its sender a candidate, or changes nothing; it never takes
\* a candidate away.
LEMMA AnnouncedCandidate ==
  ASSUME NEW x \in Nodes, Shaped(n[x]), NEW y, NEW hops \in Nat, NEW s \in Announced(x, y, hops),
         Undisturbed => IsAt(y, hops)
  PROVE  /\ Shaped(s) /\ s.resume = n[x].resume /\ s.normal = n[x].normal
         /\ s.parent = n[x].parent /\ s.hops = n[x].hops /\ s.queue = n[x].queue
         /\ s.best = n[x].best \/ (s.best # Unknown /\ (Undisturbed => Candidate(s.best)))
<1>1. MaxHops \in 1 .. 15
  BY Zenon, RelayAssumption
<1> DEFINE c == [hop |-> y, hops |-> hops, rank |-> Rank(x, y)]
<1>2. PICK closer \in BOOLEAN :
        s = [n[x] EXCEPT !.best = IF hops <= MaxHops /\ Better(c, @, closer) THEN c ELSE @]
  BY Zenon DEF Announced
<1>3. c.hop = y /\ c.hops = hops
  BY Zenon
<1> HIDE DEF c
<1>4. /\ s.resume = n[x].resume /\ s.normal = n[x].normal /\ s.parent = n[x].parent
      /\ s.hops = n[x].hops /\ s.queue = n[x].queue
      /\ s.joined = n[x].joined /\ s.flight = n[x].flight /\ DOMAIN s = DOMAIN n[x]
      /\ s.best = n[x].best \/ (hops <= MaxHops /\ s.best = c)
  BY <1>2, Zenon DEF Shaped
<1>5. hops <= MaxHops => c # Unknown
  BY <1>1, <1>3 DEF Unknown, NoHops
<1>6. hops <= MaxHops /\ Undisturbed => Candidate(c)
  BY <1>1, <1>3 DEF Candidate
<1>7. s.best.hops \in Nat
  BY <1>3, <1>4, Zenon DEF Shaped
<1>8. Shaped(s)
  BY <1>4, <1>7, Zenon DEF Shaped
<1> QED
  BY Zenon, <1>4, <1>5, <1>6, <1>8

\* An announce leaves the remotes steady, and the air as it is.
LEMMA BridgeAnnounceTree ==
  ASSUME TreeInv, NEW x \in Nodes, BridgeAnnounce(x)
  PROVE  TreeInv'
<1>1. air' = air /\ hits' = hits
  BY Zenon DEF BridgeAnnounce
<1>2. PICK s : /\ n' = [n EXCEPT ![x] = s] \/ n' = n
               /\ s \in Announced(x, Bridge, 0) \/ s = n[x]
  BY Zenon DEF BridgeAnnounce
<1>3. \A z \in Nodes : Shaped(n[z])
  BY Zenon DEF TreeInv
<1>4. DOMAIN n' = Nodes /\ \A z \in Nodes : n'[z] = n[z] \/ (z = x /\ n'[z] = s)
  BY <1>2, Zenon DEF TreeInv
<1>5. Undisturbed => IsAt(Bridge, 0)
  BY Zenon DEF IsAt
<1>6. \/ s = n[x]
      \/ /\ Shaped(s) /\ s.resume = n[x].resume /\ s.normal = n[x].normal
         /\ s.parent = n[x].parent /\ s.hops = n[x].hops /\ s.queue = n[x].queue
         /\ s.best = n[x].best \/ (s.best # Unknown /\ (Undisturbed => Candidate(s.best)))
  BY Zenon, <1>2, <1>3, <1>5, AnnouncedCandidate, 0 \in Nat
<1>7. ASSUME NEW z \in Nodes PROVE Steady(z) /\ (n[z].best # Unknown => n'[z].best # Unknown)
  <2>1. CASE n'[z] = n[z]
    BY Zenon, <1>3, <2>1, SameSteady
  <2>2. CASE n'[z] # n[z]
    BY <1>4, <1>6, <2>2, Zenon DEF Steady
  <2> QED
    BY Zenon, <2>1, <2>2
<1>8. OneFrame'
  BY <1>1, FewerFrames, Zenon DEF TreeInv
<1>9. ASSUME Undisturbed, NEW f \in air' PROVE Joining(f)'
  BY <1>1, <1>7, <1>9, LeafOfFrame, StaysJoining, Zenon DEF Steady
<1>10. "boot" \in DOMAIN hits' /\ hits'.boot = hits.boot
  BY <1>1, Zenon DEF TreeInv
<1> QED
  BY Zenon, <1>4, <1>7, <1>8, <1>9, <1>10, SteadyTree

\* So does one that a relay queued, which is where it was then.
LEMMA RelayAnnounceTree ==
  ASSUME TreeInv, NEW y \in Nodes, RelayAnnounce(y)
  PROVE  TreeInv'
<1> DEFINE e == Head(n[y].queue)
           left == [n EXCEPT ![y].queue = Tail(@)]
<1>1. air' = air /\ hits' = hits
  BY Zenon DEF RelayAnnounce
<1>2. PICK s : /\ n' = [left EXCEPT ![e.to] = s] \/ n' = left
               /\ s \in Announced(e.to, y, e.hops) \/ s = left[e.to]
  BY Zenon DEF RelayAnnounce
<1>3. \A z \in Nodes : Shaped(n[z])
  BY Zenon DEF TreeInv
<1>4. n[y].queue \in Seq([to : Nodes, hops : Nat]) /\ n[y].queue # << >>
  BY <1>3, Zenon DEF Shaped, RelayAnnounce
<1>5. /\ e.to \in Nodes /\ e.hops \in Nat /\ e = n[y].queue[1] /\ 1 \in 1 .. Len(n[y].queue)
      /\ Tail(n[y].queue) \in Seq([to : Nodes, hops : Nat])
      /\ \A i \in 1 .. Len(Tail(n[y].queue)) :
           i + 1 \in 1 .. Len(n[y].queue) /\ Tail(n[y].queue)[i] = n[y].queue[i + 1]
  <2> DEFINE S == [to : Nodes, hops : Nat]
             q == n[y].queue
  <2>1. q \in Seq(S) /\ q # << >>
    BY Zenon, <1>4
  <2> HIDE DEF S, q
  <2>2. /\ Head(q) = q[1] /\ q[1] \in S /\ 1 \in 1 .. Len(q) /\ Tail(q) \in Seq(S)
        /\ \A i \in 1 .. Len(Tail(q)) : i + 1 \in 1 .. Len(q) /\ Tail(q)[i] = q[i + 1]
    BY Zenon, <2>1, HeadAndTail
  <2>3. Head(q).to \in Nodes /\ Head(q).hops \in Nat
    BY <2>2, Zenon DEF S
  <2> QED
    BY <2>2, <2>3, Zenon DEF S, q
<1>6. /\ DOMAIN left = Nodes /\ \A z \in Nodes : z # y => left[z] = n[z]
      /\ left[y] = [n[y] EXCEPT !.queue = Tail(@)]
  BY Zenon DEF TreeInv
<1>7. Undisturbed => IsAt(y, e.hops)
  BY <1>5, ZenonT(30) DEF TreeInv, Tree, Offers, IsAt
<1> HIDE DEF e, left
<1>8. Shaped(left[y]) /\ left[y].resume = n[y].resume /\ left[y].normal = n[y].normal
      /\ left[y].parent = n[y].parent /\ left[y].hops = n[y].hops /\ left[y].best = n[y].best
      /\ left[y].queue = Tail(n[y].queue)
  BY <1>3, <1>5, <1>6, ZenonT(30) DEF Shaped
<1>9. \/ s = left[e.to]
      \/ /\ Shaped(s) /\ s.resume = n[e.to].resume /\ s.normal = n[e.to].normal
         /\ s.parent = n[e.to].parent /\ s.hops = n[e.to].hops /\ s.queue = n[e.to].queue
         /\ s.best = n[e.to].best \/ (s.best # Unknown /\ (Undisturbed => Candidate(s.best)))
  BY Zenon, <1>2, <1>3, <1>5, <1>7, AnnouncedCandidate
<1>10. DOMAIN n' = Nodes /\ \A z \in Nodes : n'[z] = left[z] \/ (z = e.to /\ n'[z] = s)
  BY Zenon, <1>2, <1>6
<1>11. ASSUME NEW z \in Nodes PROVE Steady(z) /\ (n[z].best # Unknown => n'[z].best # Unknown)
  <2>1. CASE n'[z] = n[z]
    BY Zenon, <1>3, <2>1, SameSteady
  <2>2. CASE z = y /\ n'[z] = left[y]
    BY <1>5, <1>8, <2>2, ZenonT(30) DEF Steady
  <2>3. CASE z = e.to /\ n'[z] = s /\ s # left[e.to]
    BY <1>9, <2>3, Zenon DEF Steady
  <2> QED
    BY Zenon, <1>6, <1>10, <2>1, <2>2, <2>3
<1>12. OneFrame'
  BY <1>1, FewerFrames, Zenon DEF TreeInv
<1>13. ASSUME Undisturbed, NEW f \in air' PROVE Joining(f)'
  BY <1>1, <1>11, <1>13, LeafOfFrame, StaysJoining, Zenon DEF Steady
<1>14. "boot" \in DOMAIN hits' /\ hits'.boot = hits.boot
  BY <1>1, Zenon DEF TreeInv
<1> QED
  BY Zenon, <1>10, <1>11, <1>12, <1>13, <1>14, SteadyTree

\* A relay that hears a DISCOVER offers itself from where it is.
LEMMA DiscoverHeard ==
  ASSUME NEW y \in Nodes, NEW x \in Nodes, Shaped(n[y]), n'[y] = HandleDiscover(y, x)
  PROVE  Steady(y) /\ n'[y].best = n[y].best
<1>1. CASE n'[y] = n[y]
  BY Zenon, <1>1, SameSteady
<1> DEFINE e == [to |-> x, hops |-> n[y].hops]
<1>2. CASE n'[y] # n[y]
  <2>1. CanRelay(y) /\ n'[y] = [n[y] EXCEPT !.asked = @ \cup {x},
                                  !.queue = IF Len(@) >= QueueCap THEN @ ELSE Append(@, e)]
    BY <1>2, Zenon DEF HandleDiscover
  <2>2. e \in [to : Nodes, hops : Nat] /\ e.hops = n[y].hops
    BY Zenon DEF Shaped
  <2> HIDE DEF e
  <2>3. n[y].queue \in Seq([to : Nodes, hops : Nat])
    BY Zenon DEF Shaped
  <2>4. n'[y].queue = n[y].queue \/ n'[y].queue = Append(n[y].queue, e)
    BY <2>1, Zenon DEF Shaped
  <2>5. /\ n'[y].queue \in Seq([to : Nodes, hops : Nat])
        /\ \A i \in 1 .. Len(n'[y].queue) :
             \/ \E j \in 1 .. Len(n[y].queue) : n'[y].queue[i] = n[y].queue[j]
             \/ n'[y].queue[i].hops = n[y].hops
    <3> DEFINE S == [to : Nodes, hops : Nat]
               q == n[y].queue
    <3>1. q \in Seq(S) /\ e \in S
      BY Zenon, <2>2, <2>3
    <3> HIDE DEF S, q
    <3>2. /\ Append(q, e) \in Seq(S)
          /\ \A i \in 1 .. Len(Append(q, e)) :
               (\E j \in 1 .. Len(q) : Append(q, e)[i] = q[j]) \/ Append(q, e)[i] = e
      BY ZenonT(30), <3>1, Appended
    <3>3. CASE n'[y].queue = q
      BY <3>1, <3>3, Zenon DEF q, S
    <3>4. CASE n'[y].queue = Append(q, e)
      BY <2>2, <3>2, <3>4, Zenon DEF q, S
    <3> QED
      BY <2>4, <3>3, <3>4, Zenon DEF q
  <2>6. /\ DOMAIN n'[y] = DOMAIN n[y] /\ n'[y].resume = n[y].resume /\ n'[y].normal = n[y].normal
        /\ n'[y].parent = n[y].parent /\ n'[y].hops = n[y].hops /\ n'[y].best = n[y].best
        /\ n'[y].joined = n[y].joined /\ n'[y].flight = n[y].flight
    BY <2>1, Zenon DEF Shaped
  <2>7. Shaped(n[y])'
    BY <2>5, <2>6, Zenon DEF Shaped
  <2> QED
    BY <2>1, <2>5, <2>6, <2>7, Zenon DEF Steady
<1> QED
  BY Zenon, <1>1, <1>2

\* So does a DISCOVER.
LEMMA SendDiscoverTree ==
  ASSUME TreeInv, NEW x \in Nodes, SendDiscover(x)
  PROVE  TreeInv'
<1>1. PICK heard : /\ hits' = [hits EXCEPT !.loss = @ + Cardinality(InRange(x) \ heard)]
                   /\ n' = [y \in Nodes |-> IF y \in heard THEN HandleDiscover(y, x) ELSE n[y]]
  BY Zenon DEF SendDiscover
<1>2. air' = air
  BY Zenon DEF SendDiscover
<1>3. \A z \in Nodes : Shaped(n[z])
  BY Zenon DEF TreeInv
<1>4. ASSUME NEW z \in Nodes PROVE Steady(z) /\ n'[z].best = n[z].best
  <2>1. n'[z] = n[z] \/ n'[z] = HandleDiscover(z, x)
    BY Zenon, <1>1
  <2> QED
    BY Zenon, <1>3, <2>1, SameSteady, DiscoverHeard
<1>5. DOMAIN n' = Nodes
  BY Zenon, <1>1
<1>6. OneFrame'
  BY <1>2, FewerFrames, Zenon DEF TreeInv
<1>7. ASSUME Undisturbed, NEW f \in air' PROVE Joining(f)'
  BY <1>2, <1>4, <1>7, LeafOfFrame, StaysJoining, Zenon DEF Steady
<1>8. "boot" \in DOMAIN hits' /\ hits'.boot = hits.boot
  BY <1>1, Zenon DEF TreeInv
<1> QED
  BY Zenon, <1>4, <1>5, <1>6, <1>7, <1>8, SteadyTree

\* A remote that has just started
LEMMA BootedShaped ==
  Shaped(Booted) /\ Booted.normal = FALSE /\ Booted.best = Unknown /\ Booted.queue = << >>
<1>1. /\ DOMAIN Booted = {"disc", "swept", "resume", "normal", "joined", "parent", "hops", "best",
                          "flight", "retry", "routes", "asked", "queue"}
      /\ Booted.resume = FALSE /\ Booted.normal = FALSE /\ Booted.joined = FALSE
      /\ Booted.hops = NoHops /\ Booted.best = Unknown /\ Booted.flight = FALSE
      /\ Booted.queue = << >>
  BY Zenon DEF Booted
<1>2. NoHops \in Nat /\ Unknown.hops = NoHops
  BY DEF NoHops, Unknown
<1>3. << >> \in Seq([to : Nodes, hops : Nat])
  OBVIOUS
<1> QED
  BY <1>1, <1>2, <1>3, Zenon DEF Shaped

\* A remote at which only its routes, its askers and its window change is steady.
LEMMA AsideSteady ==
  ASSUME NEW x, Shaped(n[x]), DOMAIN n'[x] = DOMAIN n[x], n'[x].resume = n[x].resume,
         n'[x].normal = n[x].normal, n'[x].joined = n[x].joined, n'[x].flight = n[x].flight,
         n'[x].parent = n[x].parent, n'[x].hops = n[x].hops, n'[x].best = n[x].best,
         n'[x].queue = n[x].queue
  PROVE  Steady(x)
BY Zenon DEF Steady, Shaped

\* Steps that change nothing else
LEMMA AsideTree ==
  ASSUME TreeInv, NEW x \in Nodes, air' = air, hits' = hits,
         \/ n' = [n EXCEPT ![x].swept = TRUE]
         \/ \E a : n' = [n EXCEPT ![x].asked = a]
         \/ \E r : n' = [n EXCEPT ![x].routes = r]
  PROVE  TreeInv'
<1>1. \A z \in Nodes : Shaped(n[z])
  BY Zenon DEF TreeInv
<1>2. DOMAIN n' = Nodes /\ \A z \in Nodes : z # x => n'[z] = n[z]
  BY Zenon DEF TreeInv
<1>3. Steady(x) /\ n'[x].best = n[x].best
  <2>1. /\ DOMAIN n'[x] = DOMAIN n[x] /\ n'[x].resume = n[x].resume /\ n'[x].normal = n[x].normal
        /\ n'[x].joined = n[x].joined /\ n'[x].flight = n[x].flight /\ n'[x].parent = n[x].parent
        /\ n'[x].hops = n[x].hops /\ n'[x].best = n[x].best /\ n'[x].queue = n[x].queue
    <3>1. CASE n' = [n EXCEPT ![x].swept = TRUE]
      BY <1>1, <3>1, Zenon DEF TreeInv, Shaped
    <3>2. CASE \E a : n' = [n EXCEPT ![x].asked = a]
      BY <1>1, <3>2, ZenonT(30) DEF TreeInv, Shaped
    <3>3. CASE \E r : n' = [n EXCEPT ![x].routes = r]
      BY <1>1, <3>3, ZenonT(30) DEF TreeInv, Shaped
    <3> QED
      BY Zenon, <3>1, <3>2, <3>3
  <2> QED
    BY Zenon, <1>1, <2>1, AsideSteady
<1>4. \A z \in Nodes : Steady(z) /\ n'[z].best = n[z].best
  BY Zenon, <1>1, <1>2, <1>3, SameSteady
<1>5. OneFrame'
  BY FewerFrames, Zenon DEF TreeInv
<1>6. ASSUME Undisturbed, NEW f \in air' PROVE Joining(f)'
  BY <1>4, <1>6, LeafOfFrame, StaysJoining, Zenon DEF Steady
<1>7. "boot" \in DOMAIN hits' /\ hits'.boot = hits.boot
  BY Zenon DEF TreeInv
<1> QED
  BY Zenon, <1>2, <1>4, <1>5, <1>6, <1>7, SteadyTree

\* Steps that change no remote, and take frames from the air or add one that is not a JOIN's
LEMMA AirTree ==
  ASSUME TreeInv, n' = n, "boot" \in DOMAIN hits', hits'.boot = hits.boot, OneFrame',
         \A g \in air' : \/ g.kind \notin {"JOIN", "JOIN_ACK"}
                         \/ \E f \in air : f.leaf = g.leaf /\ f.kind \in {"JOIN", "JOIN_ACK"}
  PROVE  TreeInv'
<1>1. \A x \in Nodes : Steady(x)
  BY SameSteady, Zenon DEF TreeInv
<1>2. ASSUME Undisturbed, NEW g \in air' PROVE Joining(g)'
  <2>1. CASE g.kind \notin {"JOIN", "JOIN_ACK"}
    BY <2>1, Zenon DEF Joining
  <2>2. CASE \E f \in air : f.leaf = g.leaf /\ f.kind \in {"JOIN", "JOIN_ACK"}
    BY Zenon, <1>2, <2>2, StaysJoining
  <2> QED
    BY Zenon, <2>1, <2>2
<1>3. DOMAIN n' = Nodes
  BY Zenon DEF TreeInv
<1> QED
  BY Zenon, <1>1, <1>2, <1>3, SteadyTree

\* A JOIN is sent by a remote that is not in NORMAL and has a candidate.
LEMMA SendJoinTree ==
  ASSUME TreeInv, NEW x \in Nodes, SendJoin(x)
  PROVE  TreeInv'
<1> DEFINE s == n[x]
           g == [kind |-> "JOIN", up |-> TRUE, leaf |-> x, from |-> x, to |-> s.best.hop,
                 count |-> (s.best.hops + 1) % 16, passed |-> 0]
<1>1. \A z \in Nodes : Shaped(n[z])
  BY Zenon DEF TreeInv
<1>2. /\ ~s.resume /\ s.best # Unknown /\ ~s.joined /\ Quiet(x) /\ hits' = hits
      /\ n' = [n EXCEPT ![x] = [s EXCEPT !.parent = s.best.hop, !.hops = s.best.hops + 1,
                                         !.flight = TRUE, !.retry = @ + 1]]
      /\ air' = air \cup Sent(g)
  BY Zenon DEF SendJoin, TreeInv, Shaped
<1>3. g.leaf = x /\ {"kind", "leaf", "to"} \subseteq DOMAIN g
  BY Zenon
<1> HIDE DEF g
<1>4. air' \subseteq air \cup {g}
  BY Zenon, <1>2, SentSubset
<1>5. OneFrame'
  BY <1>2, <1>3, <1>4, FirstFrame, Zenon DEF TreeInv
<1>6. ~s.normal
  BY <1>1, <1>2, Zenon DEF Shaped
<1>7. DOMAIN n' = Nodes /\ \A z \in Nodes : z # x => n'[z] = n[z]
  BY <1>2, Zenon DEF TreeInv
<1>8. /\ DOMAIN n'[x] = DOMAIN s /\ n'[x].resume = s.resume /\ n'[x].normal = s.normal
      /\ n'[x].joined = s.joined /\ n'[x].flight = TRUE /\ n'[x].hops = s.best.hops + 1
      /\ n'[x].best = s.best /\ n'[x].queue = s.queue
  BY <1>1, <1>2, Zenon DEF TreeInv, Shaped
<1>9. Shaped(n[x])'
  <2>1. Shaped(s)
    BY Zenon, <1>1
  <2>2. s.best.hops + 1 \in Nat
    BY <2>1 DEF Shaped
  <2> HIDE DEF s
  <2> QED
    BY <1>2, <1>8, <2>1, <2>2, Zenon DEF Shaped
<1>10. Steady(x)
  BY <1>6, <1>8, <1>9, Zenon DEF Steady
<1>11. \A z \in Nodes : Steady(z) /\ n'[z].best = n[z].best
  BY Zenon, <1>1, <1>7, <1>8, <1>10, SameSteady
<1>12. ASSUME Undisturbed, NEW f \in air' PROVE Joining(f)'
  <2>1. CASE f \in air
    BY <1>11, <1>12, <2>1, LeafOfFrame, StaysJoining, Zenon DEF Steady
  <2>2. CASE f = g
    BY <1>2, <1>3, <1>6, <1>8, <2>2, Zenon DEF Joining
  <2> QED
    BY Zenon, <1>4, <2>1, <2>2
<1>13. "boot" \in DOMAIN hits' /\ hits'.boot = hits.boot
  BY <1>2, Zenon DEF TreeInv
<1> QED
  BY Zenon, <1>5, <1>7, <1>11, <1>12, <1>13, SteadyTree

\* A remote that was never in NORMAL starts its discovery again.
LEMMA JoinExhaustedTree ==
  ASSUME TreeInv, NEW x \in Nodes, JoinExhausted(x)
  PROVE  TreeInv'
<1>1. \A z \in Nodes : Shaped(n[z])
  BY Zenon DEF TreeInv
<1>2. /\ n[x].flight /\ ~n[x].joined /\ Quiet(x) /\ air' = air /\ hits' = hits
      /\ n' = [n EXCEPT ![x] = Rediscovering(n[x])]
  BY Zenon DEF JoinExhausted
<1>3. ~n[x].normal /\ ~n[x].resume
  BY <1>1, <1>2, Zenon DEF Shaped
<1>4. DOMAIN n' = Nodes /\ n'[x] = Rediscovering(n[x]) /\ \A z \in Nodes : z # x => n'[z] = n[z]
  BY <1>2, Zenon DEF TreeInv
<1>5. /\ Shaped(Rediscovering(n[x]))
      /\ LET s == Rediscovering(n[x])
         IN ~s.resume /\ ~s.normal /\ s.best = Unknown /\ s.queue = << >>
  BY DEF Rediscovering, Booted, Shaped, Unknown, NoHops
<1>6. Steady(x)
  BY <1>1, <1>3, <1>4, <1>5 DEF Steady, Shaped
<1>7. \A z \in Nodes : Steady(z)
  BY Zenon, <1>1, <1>4, <1>6, SameSteady
<1>8. OneFrame'
  BY <1>2, FewerFrames, Zenon DEF TreeInv
<1>9. ASSUME Undisturbed, NEW f \in air' PROVE Joining(f)'
  <2>1. f \in air /\ f.leaf \in Nodes /\ f.leaf # x
    BY <1>2, LeafOfFrame, Zenon DEF Quiet
  <2> QED
    BY Zenon, <1>4, <1>9, <2>1, StaysJoining
<1>10. "boot" \in DOMAIN hits' /\ hits'.boot = hits.boot
  BY <1>2, Zenon DEF TreeInv
<1> QED
  BY Zenon, <1>4, <1>7, <1>8, <1>9, <1>10, SteadyTree

\* The steps that end what Undisturbed says, or come after its end
LEMMA DisturbingTree ==
  ASSUME TreeInv, NEW x \in Nodes, Restart(x) \/ RecoverRoute(x) \/ Resume(x)
  PROVE  TreeInv'
<1>1. \A z \in Nodes : Shaped(n[z])
  BY Zenon DEF TreeInv
<1>2. CASE Restart(x)
  <2>1. air' = air /\ n' = [n EXCEPT ![x] = Booted] /\ hits' = [hits EXCEPT !.boot = @ + 1]
    BY <1>2, Zenon DEF Restart
  <2>2. /\ "boot" \in DOMAIN hits' /\ hits'.boot = hits.boot + 1 /\ hits.boot \in Nat
        /\ hits'.boot \in Nat
    BY <2>1 DEF TreeInv
  <2>3. Shaped(Booted)
    BY Zenon, BootedShaped
  <2>4. DOMAIN n' = Nodes /\ \A z \in Nodes : Shaped(n'[z])
    BY <1>1, <2>1, <2>3, Zenon DEF TreeInv
  <2>5. OneFrame'
    BY <2>1, FewerFrames, Zenon DEF TreeInv
  <2>6. ~Undisturbed'
    BY <2>2 DEF Undisturbed
  <2> QED
    BY <2>2, <2>4, <2>5, <2>6, Disturbed, Zenon DEF Shaped
<1>3. CASE RecoverRoute(x)
  <2>1. /\ air' = air /\ n' = [n EXCEPT ![x] = Recovering(n[x])]
        /\ hits' = hits \/ hits' = [hits EXCEPT !.recover = @ + 1]
    BY <1>3, Zenon DEF RecoverRoute
  <2>2. "boot" \in DOMAIN hits' /\ hits'.boot \in Nat
    BY <2>1, Zenon DEF TreeInv
  <2>3. Shaped(Recovering(n[x])) /\ Recovering(n[x]).resume
    <3> DEFINE t == Recovering(n[x])
    <3>1. Shaped(n[x])
      BY Zenon, <1>1
    <3>2. /\ DOMAIN t = DOMAIN n[x] /\ t.resume = TRUE /\ t.normal = FALSE /\ t.best = Unknown
          /\ t.flight = FALSE /\ t.joined = n[x].joined /\ t.hops = n[x].hops /\ t.queue = n[x].queue
      BY <3>1, Zenon DEF Shaped, Recovering
    <3> HIDE DEF t
    <3>3. Unknown.hops \in Nat
      BY DEF Unknown, NoHops
    <3>4. Shaped(t) /\ t.resume
      BY <3>1, <3>2, <3>3, Zenon DEF Shaped
    <3> QED
      BY <3>4, Zenon DEF t
  <2>4. DOMAIN n' = Nodes /\ n'[x] = Recovering(n[x]) /\ \A z \in Nodes : Shaped(n'[z])
    BY <1>1, <2>1, <2>3, Zenon DEF TreeInv
  <2>5. OneFrame'
    BY <2>1, FewerFrames, Zenon DEF TreeInv
  <2>6. ~Undisturbed'
    BY <2>3, <2>4, Zenon DEF Undisturbed
  <2> QED
    BY <2>2, <2>4, <2>5, <2>6, Disturbed, Zenon DEF Shaped
<1>4. CASE Resume(x)
  <2> DEFINE t == [n[x] EXCEPT !.disc = FALSE, !.swept = FALSE, !.normal = TRUE, !.joined = TRUE,
                               !.parent = n[x].best.hop, !.hops = n[x].best.hops + 1]
             g == [kind |-> "HEARTBEAT", up |-> TRUE, leaf |-> x, from |-> x, to |-> n[x].best.hop,
                   count |-> (n[x].best.hops + 1) % 16, passed |-> 0]
  <2>1. /\ n[x].resume /\ Quiet(x) /\ hits' = hits
        /\ n' = [n EXCEPT ![x] = t] /\ air' = air \cup Sent(g)
    BY <1>4, Zenon DEF Resume
  <2>2. g.leaf = x /\ {"kind", "leaf", "to"} \subseteq DOMAIN g
    BY Zenon
  <2> HIDE DEF g
  <2>3. OneFrame'
    BY <2>1, <2>2, SentSubset, FirstFrame, Zenon DEF TreeInv
  <2>4. Shaped(t) /\ t.resume
    <3>1. Shaped(n[x])
      BY Zenon, <1>1
    <3>2. /\ DOMAIN t = DOMAIN n[x] /\ t.resume = n[x].resume /\ t.normal = TRUE /\ t.best = n[x].best
          /\ t.flight = n[x].flight /\ t.joined = TRUE /\ t.hops = n[x].best.hops + 1
          /\ t.queue = n[x].queue
      BY <3>1, Zenon DEF Shaped
    <3> HIDE DEF t
    <3>3. n[x].resume /\ n[x].best.hops + 1 \in Nat
      BY <2>1, <3>1 DEF Shaped
    <3>4. t.resume
      BY Zenon, <3>2, <3>3
    <3> QED
      BY <3>1, <3>2, <3>3, <3>4, Zenon DEF Shaped
  <2> HIDE DEF t
  <2>5. DOMAIN n' = Nodes /\ n'[x] = t /\ \A z \in Nodes : Shaped(n'[z])
    BY <1>1, <2>1, <2>4, Zenon DEF TreeInv
  <2>6. ~Undisturbed'
    BY <2>4, <2>5, Zenon DEF Undisturbed
  <2>7. "boot" \in DOMAIN hits' /\ hits'.boot \in Nat
    BY <2>1, Zenon DEF TreeInv
  <2> QED
    BY <2>3, <2>5, <2>6, <2>7, Disturbed, Zenon DEF Shaped
<1> QED
  BY Zenon, <1>2, <1>3, <1>4

\* JOIN_ACK(COMPLETE): the remote takes its place one hop below its candidate of now.
LEMMA JoinedTree ==
  ASSUME TreeInv, NEW f \in air, HandleOwn(f), f.kind = "JOIN_ACK"
  PROVE  TreeInv'
<1> DEFINE x == f.leaf
           t == Joined(n[x])
<1>1. \A z \in Nodes : Shaped(n[z])
  BY Zenon DEF TreeInv
<1>2. x \in Nodes /\ n' = [n EXCEPT ![x] = t] /\ air' = air \ {f} /\ hits' = hits
  BY LeafOfFrame, Zenon DEF HandleOwn
<1>3. /\ DOMAIN t = DOMAIN n[x] /\ t.resume = n[x].resume /\ t.normal = TRUE /\ t.joined = TRUE
      /\ t.flight = FALSE /\ t.best = n[x].best /\ t.queue = n[x].queue
      /\ t.parent = n[x].best.hop /\ t.hops = (n[x].best.hops + 1) % 256
  BY <1>1, <1>2, ZenonT(30) DEF Joined, Shaped
<1> HIDE DEF t, x
<1>4. n[x].best.hops \in Nat /\ Shaped(n[x])
  BY <1>1, <1>2, Zenon DEF Shaped
<1>5. (n[x].best.hops + 1) % 256 \in Nat
  BY <1>4
<1>6. Shaped(t)
  BY <1>3, <1>4, <1>5, ZenonT(30) DEF Shaped
<1>7. DOMAIN n' = Nodes /\ n'[x] = t /\ \A z \in Nodes : z # x => n'[z] = n[z]
  BY <1>2, Zenon DEF TreeInv
<1>8. \A z \in Nodes : Shaped(n[z])'
  BY <1>1, <1>6, <1>7, ZenonT(30) DEF Shaped
<1>9. OneFrame'
  BY <1>2, FewerFrames, Zenon DEF TreeInv
<1>10. "boot" \in DOMAIN hits' /\ hits'.boot = hits.boot /\ hits'.boot \in Nat
  BY <1>2, Zenon DEF TreeInv
<1>11. ASSUME Undisturbed' PROVE Tree'
  <2>1. Undisturbed
    <3>1. \A z \in Nodes : n'[z].resume = n[z].resume
      BY Zenon, <1>3, <1>7
    <3> QED
      BY <1>10, <1>11, <3>1, Zenon DEF Undisturbed
  <2>2. Tree
    BY <2>1, Zenon DEF TreeInv
  <2>3. ~n[x].normal /\ n[x].best # Unknown /\ Candidate(n[x].best)
    BY <1>2, <2>2, Zenon DEF Tree, Joining, x
  <2>4. \A z \in Nodes : n[z].normal => n'[z].normal /\ n'[z].parent = n[z].parent /\ n'[z].hops = n[z].hops
    BY Zenon, <1>7, <2>3
  <2>5. ASSUME NEW y, NEW h, IsAt(y, h) PROVE IsAt(y, h)'
    BY Zenon, <2>4, <2>5, StaysAt
  <2>6. n[x].best.hops \in 0 .. MaxHops /\ IsAt(n[x].best.hop, n[x].best.hops)
    BY <2>3, ZenonT(30) DEF Candidate
  <2>7. t.hops = n[x].best.hops + 1 /\ t.hops \in 1 .. MaxHops + 1
    <3>1. MaxHops \in 1 .. 15
      BY Zenon, RelayAssumption
    <3>2. (n[x].best.hops + 1) % 256 = n[x].best.hops + 1
      BY <2>6, <3>1
    <3> QED
      BY SMTT(30), <1>3, <2>6, <3>1, <3>2
  <2>8. ASSUME NEW z \in Nodes, n'[z].normal PROVE InTree(n[z])'
    <3>1. PICK y, h : /\ IsAt(y, h) /\ y = n'[z].parent
                      /\ n'[z].hops \in 1 .. MaxHops + 1 /\ h = n'[z].hops - 1
      <4>1. CASE z = x
        BY <1>3, <1>7, <2>6, <2>7, <4>1
      <4>2. CASE z # x
        BY <1>7, <2>2, <2>8, <4>2, Zenon DEF Tree, InTree
      <4> QED
        BY ZenonT(30), <4>1, <4>2
    <3>2. IsAt(y, h)'
      BY Zenon, <2>5, <3>1
    <3> QED
      BY <3>1, <3>2, ZenonT(30) DEF InTree, IsAt, CanRelay
  <2>9. ASSUME NEW z \in Nodes, n'[z].best # Unknown PROVE Candidate(n[z].best)'
    <3>1. n'[z].best = n[z].best
      BY ZenonT(30), <1>3, <1>7
    <3>2. ASSUME NEW c, c = n[z].best PROVE c.hops \in 0 .. MaxHops /\ IsAt(c.hop, c.hops)'
      <4>1. Candidate(c)
        BY <2>2, <2>9, <3>1, <3>2, Zenon DEF Tree
      <4> QED
        BY <2>5, <4>1, Zenon DEF Candidate
    <3> QED
      BY <3>1, <3>2, Zenon DEF Candidate, IsAt, CanRelay
  <2>10. ASSUME NEW z \in Nodes PROVE Offers(z)'
    <3>1. n'[z].queue = n[z].queue
      BY ZenonT(30), <1>3, <1>7
    <3> SUFFICES ASSUME NEW i \in 1 .. Len(n[z].queue)
                 PROVE  CanRelay(z)' /\ n'[z].queue[i].hops = n'[z].hops
      BY <3>1, Zenon DEF Offers
    <3>2. CanRelay(z) /\ n[z].queue[i].hops = n[z].hops
      BY <2>2, Zenon DEF Tree, Offers
    <3> QED
      BY <2>4, <3>1, <3>2, Zenon DEF CanRelay
  <2>11. ASSUME NEW g \in air' PROVE Joining(g)'
    <3>1. g \in air /\ g.leaf \in Nodes /\ g.leaf # x
      BY <1>2, LeafOfFrame, Zenon DEF TreeInv, OneFrame, x
    <3> QED
      BY Zenon, <1>7, <2>1, <3>1, StaysJoining
  <2> QED
    BY <2>8, <2>9, <2>10, <2>11, Zenon DEF Tree
<1> QED
  BY <1>7, <1>8, <1>9, <1>10, <1>11, Zenon DEF TreeInv

\* What relays, the bridge and the leaf do with a frame
LEMMA FrameTree ==
  ASSUME TreeInv, NEW f \in air, FrameStep(f)
  PROVE  TreeInv'
<1>1. f.leaf \in Nodes /\ {"kind", "leaf", "to"} \subseteq DOMAIN f
  BY Zenon, LeafOfFrame
<1>2. OneFrame /\ "boot" \in DOMAIN hits
  BY Zenon DEF TreeInv
<1>3. ASSUME n' = n, hits' = hits, air' = air \ {f} PROVE TreeInv'
  <2>1. OneFrame'
    BY Zenon, <1>2, <1>3, FewerFrames
  <2> QED
    BY Zenon, <1>2, <1>3, <2>1, AirTree
<1>4. ASSUME n' = n, hits' = hits, NEW g, air' \subseteq (air \ {f}) \cup {g}, g.leaf = f.leaf,
             {"kind", "leaf", "to"} \subseteq DOMAIN g,
             g.kind \in {"JOIN", "JOIN_ACK"} => f.kind \in {"JOIN", "JOIN_ACK"}
      PROVE  TreeInv'
  <2>1. OneFrame'
    BY Zenon, <1>2, <1>4, PassedFrame
  <2>2. ASSUME NEW h \in air'
        PROVE  \/ h.kind \notin {"JOIN", "JOIN_ACK"}
               \/ \E k \in air : k.leaf = h.leaf /\ k.kind \in {"JOIN", "JOIN_ACK"}
    BY Zenon, <1>4, <2>2
  <2> QED
    BY Zenon, <1>2, <1>4, <2>1, <2>2, AirTree
<1>5. CASE HandleOwn(f)
  <2>1. CASE f.kind = "JOIN_ACK"
    BY Zenon, <1>5, <2>1, JoinedTree
  <2>2. CASE f.kind # "JOIN_ACK"
    BY <1>3, <1>5, <2>2, Zenon DEF HandleOwn
  <2> QED
    BY Zenon, <2>1, <2>2
<1>6. CASE Discard(f)
  BY <1>3, <1>6, Zenon DEF Discard
<1>7. CASE HandleDownstream(f)
  <2> DEFINE g == Forwarded(f, f.to, n[f.to].routes[f.leaf], 1)
  <2>1. g.leaf = f.leaf /\ g.kind = f.kind /\ {"kind", "leaf", "to"} \subseteq DOMAIN g
    BY <1>1, Zenon DEF Forwarded
  <2>2. n' = n /\ hits' = hits /\ air' = (air \ {f}) \cup Sent(g)
    BY <1>7, Zenon DEF HandleDownstream
  <2> HIDE DEF g
  <2> QED
    BY Zenon, <1>4, <2>1, <2>2, SentSubset
<1>8. CASE BridgeReceive(f)
  <2> DEFINE g == [DownFrame(f.leaf, "JOIN_ACK") EXCEPT !.to = f.from]
  <2>1. g.leaf = f.leaf /\ {"kind", "leaf", "to"} \subseteq DOMAIN g
    BY Zenon DEF DownFrame
  <2>2. n' = n /\ hits' = hits
        /\ (air' = air \ {f} \/ (f.kind = "JOIN" /\ air' = (air \ {f}) \cup Sent(g)))
    BY <1>8, Zenon DEF BridgeReceive
  <2> HIDE DEF g
  <2> QED
    BY Zenon, <1>3, <1>4, <2>1, <2>2, SentSubset
<1>9. CASE HandleUpstream(f)
  <2> DEFINE g == Forwarded(f, f.to, n[f.to].parent, 0)
             r == RefreshRoute(f.to, n[f.to].routes, f.leaf, f.from)
  <2>1. g.leaf = f.leaf /\ g.kind = f.kind /\ {"kind", "leaf", "to"} \subseteq DOMAIN g
    BY <1>1, Zenon DEF Forwarded
  <2>2. /\ f.to \in Nodes /\ hits' = hits /\ air' = (air \ {f}) \cup Sent(g)
        /\ n' = [n EXCEPT ![f.to].routes = r]
    BY <1>9, Zenon DEF HandleUpstream
  <2> HIDE DEF g, r
  <2>3. \A z \in Nodes : Shaped(n[z])
    BY Zenon DEF TreeInv
  <2>4. DOMAIN n' = Nodes /\ \A z \in Nodes : z # f.to => n'[z] = n[z]
    BY <2>2, Zenon DEF TreeInv
  <2>5. LET y == f.to IN
        /\ DOMAIN n'[y] = DOMAIN n[y] /\ n'[y].resume = n[y].resume /\ n'[y].normal = n[y].normal
        /\ n'[y].joined = n[y].joined /\ n'[y].flight = n[y].flight /\ n'[y].parent = n[y].parent
        /\ n'[y].hops = n[y].hops /\ n'[y].best = n[y].best /\ n'[y].queue = n[y].queue
    BY <2>2, <2>3, Zenon DEF TreeInv, Shaped
  <2>6. \A z \in Nodes : Steady(z) /\ n'[z].best = n[z].best
    BY <2>2, <2>3, <2>4, <2>5, SameSteady, AsideSteady
  <2>7. OneFrame'
    BY Zenon, <1>2, <2>1, <2>2, SentSubset, PassedFrame
  <2>8. ASSUME Undisturbed, NEW h \in air' PROVE Joining(h)'
    <3>1. CASE h \in air
      BY <2>6, <2>8, <3>1, LeafOfFrame, StaysJoining, Zenon DEF Steady
    <3>2. CASE h = g
      BY <1>1, <2>1, <2>6, <2>8, <3>2, StaysJoining, ZenonT(30) DEF Steady
    <3> QED
      BY Zenon, <2>2, <3>1, <3>2, SentSubset
  <2>9. "boot" \in DOMAIN hits' /\ hits'.boot = hits.boot
    BY Zenon, <1>2, <2>2
  <2> QED
    BY Zenon, <2>4, <2>6, <2>7, <2>8, <2>9, SteadyTree
<1> QED
  BY <1>5, <1>6, <1>7, <1>8, <1>9, Zenon DEF FrameStep

\* What the loops of remotes and bridge do
LEMMA NodeTree ==
  ASSUME TreeInv, NEW x \in Nodes, NodeStep(x)
  PROVE  TreeInv'
<1>1. OneFrame /\ "boot" \in DOMAIN hits
  BY Zenon DEF TreeInv
<1>2. ASSUME n' = n, hits' = hits, Quiet(x), NEW g, air' \subseteq air \cup {g}, g.leaf = x,
             {"kind", "leaf", "to"} \subseteq DOMAIN g, g.kind \notin {"JOIN", "JOIN_ACK"}
      PROVE  TreeInv'
  <2>1. OneFrame'
    BY Zenon, <1>1, <1>2, FirstFrame
  <2>2. ASSUME NEW h \in air'
        PROVE  \/ h.kind \notin {"JOIN", "JOIN_ACK"}
               \/ \E k \in air : k.leaf = h.leaf /\ k.kind \in {"JOIN", "JOIN_ACK"}
    BY Zenon, <1>2, <2>2
  <2> QED
    BY Zenon, <1>1, <1>2, <2>1, <2>2, AirTree
<1>3. CASE Heartbeat(x)
  <2> DEFINE g == UpFrame(x, "HEARTBEAT")
  <2>1. g.leaf = x /\ g.kind = "HEARTBEAT" /\ {"kind", "leaf", "to"} \subseteq DOMAIN g
    BY Zenon DEF UpFrame
  <2>2. Quiet(x) /\ n' = n /\ hits' = hits /\ air' = air \cup Sent(g)
    BY <1>3, Zenon DEF Heartbeat
  <2> HIDE DEF g
  <2> QED
    BY Zenon, <1>2, <2>1, <2>2, SentSubset
<1>4. CASE Command(x)
  <2> DEFINE g == DownFrame(x, "COMMAND")
  <2>1. g.leaf = x /\ g.kind = "COMMAND" /\ {"kind", "leaf", "to"} \subseteq DOMAIN g
    BY Zenon DEF DownFrame
  <2>2. Quiet(x) /\ n' = n /\ hits' = hits /\ air' = air \cup Sent(g)
    BY <1>4, Zenon DEF Command
  <2> HIDE DEF g
  <2> QED
    BY Zenon, <1>2, <2>1, <2>2, SentSubset
<1>5. CASE CloseWindow(x) \/ \E y \in Nodes : ForgetAsked(x, y) \/ ExpireRoute(x, y)
  <2>1. air' = air /\ hits' = hits
    BY <1>5, Zenon DEF CloseWindow, ForgetAsked, ExpireRoute
  <2>2. \/ n' = [n EXCEPT ![x].swept = TRUE]
        \/ \E a : n' = [n EXCEPT ![x].asked = a]
        \/ \E r : n' = [n EXCEPT ![x].routes = r]
    <3>1. CASE CloseWindow(x)
      BY <3>1, Zenon DEF CloseWindow
    <3>2. CASE \E y \in Nodes : ForgetAsked(x, y)
      BY <3>2, Zenon DEF ForgetAsked
    <3>3. CASE \E y \in Nodes : ExpireRoute(x, y)
      BY <3>3, Zenon DEF ExpireRoute
    <3> QED
      BY Zenon, <1>5, <3>1, <3>2, <3>3
  <2> QED
    BY Zenon, <2>1, <2>2, AsideTree
<1> QED
  BY Zenon, <1>3, <1>4, <1>5, SendDiscoverTree, BridgeAnnounceTree, RelayAnnounceTree, SendJoinTree,
     JoinExhaustedTree, DisturbingTree DEF NodeStep

\* TreeInv is inductive.
THEOREM TreeKept == Spec => []TreeInv
<1>1. ASSUME Init PROVE TreeInv
  <2>1. PICK k : hits = [sc |-> k, loss |-> 0, move |-> 0, boot |-> 0, recover |-> 0]
    BY <1>1, Zenon DEF Init
  <2>2. n = [x \in Nodes |-> Booted] /\ air = {}
    BY <1>1, Zenon DEF Init
  <2>3. /\ Shaped(Booted) /\ Booted.normal = FALSE /\ Booted.best = Unknown /\ Booted.queue = << >>
    BY Zenon, BootedShaped
  <2>4. DOMAIN n = Nodes /\ \A x \in Nodes : n[x] = Booted
    BY Zenon, <2>2
  <2>5. Tree
    BY <2>2, <2>3, <2>4 DEF Tree, Offers
  <2>6. OneFrame
    BY <2>2, Zenon DEF OneFrame
  <2>7. "boot" \in DOMAIN hits /\ hits.boot \in Nat
    BY Zenon, <2>1
  <2> QED
    BY <2>3, <2>4, <2>5, <2>6, <2>7, Zenon DEF TreeInv
<1>2. ASSUME TreeInv, [Next]_vars PROVE TreeInv'
  <2>1. OneFrame /\ "boot" \in DOMAIN hits
    BY <1>2, Zenon DEF TreeInv
  <2>2. ASSUME n' = n, air' \subseteq air, "boot" \in DOMAIN hits', hits'.boot = hits.boot PROVE TreeInv'
    <3>1. OneFrame'
      BY Zenon, <2>1, <2>2, FewerFrames
    <3> QED
      BY Zenon, <1>2, <2>2, <3>1, AirTree
  <2>3. CASE \E x \in Nodes : NodeStep(x)
    BY Zenon, <1>2, <2>3, NodeTree
  <2>4. CASE \E f \in air : FrameStep(f)
    BY Zenon, <1>2, <2>4, FrameTree
  <2>5. CASE \E f \in air : Lose(f)
    BY <2>1, <2>2, <2>5, Zenon DEF Lose
  <2>6. CASE \E p \in sc.mobile : Move(p)
    BY <2>1, <2>2, <2>6, Zenon DEF Move
  <2>7. CASE UNCHANGED vars
    BY <2>1, <2>2, <2>7, Zenon DEF vars
  <2> QED
    BY <1>2, <2>3, <2>4, <2>5, <2>6, <2>7, Zenon DEF Next
<1> QED
  BY <1>1, <1>2, PTL DEF Spec

\* handle_discover_, handle_discover_announce_ and handle_join_ack_: as long as no remote
\* restarts or recovers its route, the parents form a tree with the bridge as its root and
\* the hops of every remote are its depth in it, for any number of remotes and any faults of
\* the radio.
THEOREM ParentsFormTree == Spec => []TreeGrows
<1>1. TreeInv => TreeGrows
  BY Zenon DEF TreeInv, Tree, InTree, TreeGrows
<1> QED
  BY <1>1, TreeKept, PTL
=============================================================================
