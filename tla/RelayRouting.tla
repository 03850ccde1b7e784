---------------------------- MODULE RelayRouting ----------------------------
(***************************************************************************)
(* How remotes find a parent and pass each other's frames                  *)
(* (remote_protocol.cpp; the bridge's part of it in bridge_protocol.cpp):  *)
(* DISCOVER and DISCOVER_ANNOUNCE with their queues, the choice of a       *)
(* parent, the route table, forwarding up and down, route recovery.        *)
(*                                                                         *)
(* The join exchange is a JOIN and the JOIN_ACK(COMPLETE) that answers it  *)
(* (module JoinSession has the rest); a heartbeat or a command stands for  *)
(* all other frames up and down.  Channels are in module DiscoverySweep.   *)
(***************************************************************************)
EXTENDS Integers, Sequences, FiniteSets

CONSTANTS
  Nodes,       \* the remotes
  Relays,      \* those with relay_enabled_
  Bridge,      \* the bridge
  NoNode,      \* no node
  Zero,        \* the address 00:00:00:00:00:00
  MaxHops,     \* max_hops_
  MaxRetries,  \* ESPNOW_MAX_RETRIES
  PendingCap,  \* max_discover_pending_
  QueueCap,    \* ANNOUNCE_QUEUE_SIZE - 1
  Scenarios    \* a list of what is explored; each behaviour has one of them

Scenario(s) ==
  /\ s.near \subseteq {{a, c} : a \in Nodes, c \in Nodes \cup {Bridge}}  \* pairs in radio range at first
  /\ s.mobile \subseteq s.near      \* those of them that come and go
  /\ s.preferred \in [Nodes -> Seq(Nodes)]   \* preferred_parents_ of each remote
  /\ s.talkers \subseteq Nodes      \* those whose heartbeats and commands are of interest
  /\ s.loss \in Nat                \* bound: frames lost
  /\ s.move \in Nat                \* bound: pairs that get out of range or into it
  /\ s.boot \in Nat                \* bound: restarts
  /\ s.recover \in Nat             \* bound: route recoveries
  /\ s.persistent \in BOOLEAN      \* whether those of a node without a path to the bridge are free of it

ASSUME RelayAssumption ==
  /\ Bridge \notin Nodes /\ Zero \notin Nodes \cup {Bridge} /\ NoNode \notin Nodes \cup {Bridge, Zero}
  /\ Relays \subseteq Nodes
  /\ MaxHops \in 1 .. 15 /\ MaxRetries \in Nat \ {0} /\ PendingCap \in Nat \ {0}
  /\ QueueCap \in Nat \ {0}
  /\ \A x \in DOMAIN Scenarios : Scenario(Scenarios[x])

VARIABLES
  n,      \* the remotes: RemoteProtocol
  pend,   \* sessions of the bridge with a discover_announce_deadline_ms
  via,    \* next_hop_mac of the bridge's sessions, NoNode without a session
  air,    \* frames up and down between two nodes
  links,  \* pairs in radio range
  hits    \* the scenario; losses, moves, restarts and recoveries so far

vars == <<n, pend, via, air, links, hits>>

sc == Scenarios[hits.sc]

NoHops == 255
Unknown == [hop |-> Zero, hops |-> NoHops, rank |-> NoHops]

\* RemoteProtocol after init
Booted ==
  [disc |-> TRUE, swept |-> FALSE, resume |-> FALSE, normal |-> FALSE, joined |-> FALSE,
   parent |-> NoNode, hops |-> NoHops, best |-> Unknown, flight |-> FALSE, retry |-> 0,
   routes |-> [l \in Nodes |-> NoNode], asked |-> {}, queue |-> <<>>]

Init ==
  /\ n = [x \in Nodes |-> Booted]
  /\ \E k \in DOMAIN Scenarios :
       hits = [sc |-> k, loss |-> 0, move |-> 0, boot |-> 0, recover |-> 0]
  /\ pend = {} /\ via = [x \in Nodes |-> NoNode] /\ air = {} /\ links = sc.near

\* refresh_can_relay_
CanRelay(x) == x \in Relays /\ n[x].normal /\ n[x].parent # NoNode /\ n[x].hops # NoHops

InRange(x) == {y \in Nodes \cup {Bridge} : {x, y} \in links}

\* send_fn_ reports success whether or not anybody is there to hear the frame.
Sent(f) == IF {f.from, f.to} \in links THEN {f} ELSE {}

Quiet(x) == \A f \in air : f.leaf # x

UpFrame(x, kind) ==
  [kind |-> kind, up |-> TRUE, leaf |-> x, from |-> x, to |-> n[x].parent,
   count |-> n[x].hops % 16, passed |-> 0]

DownFrame(x, kind) ==
  [kind |-> kind, up |-> FALSE, leaf |-> x, from |-> Bridge, to |-> via[x], count |-> 0, passed |-> 0]

-----------------------------------------------------------------------------
\* Discovery.

\* start_discovery_cycle_: routes_ and pending_discovers_ stay.
Rediscovering(s) == [Booted EXCEPT !.routes = s.routes, !.asked = s.asked]

\* start_route_recovery_cycle_: parent, hops and the queued announces stay.
Recovering(s) ==
  [s EXCEPT !.disc = TRUE, !.swept = FALSE, !.resume = TRUE, !.normal = FALSE, !.best = Unknown,
            !.flight = FALSE, !.retry = 0]

\* handle_discover_ and send_discover_announce_with_jitter_ at relay y
HandleDiscover(y, x) ==
  LET s == n[y] IN
  IF ~CanRelay(y) \/ s.hops > MaxHops \/ x \in s.asked \/ Cardinality(s.asked) >= PendingCap
    THEN s
    ELSE [s EXCEPT !.asked = @ \cup {x},
                   !.queue = IF Len(@) >= QueueCap THEN @ ELSE Append(@, [to |-> x, hops |-> s.hops])]

\* send_discover_: a broadcast, heard by some of the nodes in range.
SendDiscover(x) ==
  /\ n[x].disc /\ ~n[x].swept /\ n[x].best = Unknown /\ x \notin pend
  /\ \A y \in Nodes : \A i \in DOMAIN n[y].queue : n[y].queue[i].to # x
  /\ \E heard \in SUBSET InRange(x) :
       /\ hits.loss + Cardinality(InRange(x) \ heard) <= sc.loss
       /\ hits' = [hits EXCEPT !.loss = @ + Cardinality(InRange(x) \ heard)]
       /\ n' = [y \in Nodes |-> IF y \in heard THEN HandleDiscover(y, x) ELSE n[y]]
       /\ pend' = IF Bridge \in heard THEN pend \cup {x} ELSE pend
  /\ UNCHANGED <<via, air, links>>

\* preferred_index of select_parent_candidate_
Rank(x, y) ==
  LET at == {i \in DOMAIN sc.preferred[x] : sc.preferred[x][i] = y}
  IN IF at = {} THEN NoHops ELSE (CHOOSE i \in at : \A j \in at : i <= j) - 1

\* select_parent_candidate_: closer says whether the new one has the better RSSI.
Better(c, best, closer) ==
  \/ best = Unknown
  \/ c.rank < best.rank
  \/ c.rank = best.rank /\ (c.hops < best.hops \/ (c.hops = best.hops /\ closer))

\* handle_discover_announce_, in whatever state x is
Announced(x, y, hops) ==
  LET c == [hop |-> y, hops |-> hops, rank |-> Rank(x, y)] IN
  {[n[x] EXCEPT !.best = IF hops <= MaxHops /\ Better(c, @, closer) THEN c ELSE @] :
     closer \in BOOLEAN}

\* The bridge's loop(): an announce is due.
BridgeAnnounce(x) ==
  /\ x \in pend
  /\ pend' = pend \ {x}
  /\ n' \in IF {x, Bridge} \in links
              THEN {[n EXCEPT ![x] = s] : s \in Announced(x, Bridge, 0)}
              ELSE {n}
  /\ UNCHANGED <<via, air, links, hits>>

\* flush_pending_discover_announce_: with the hops of the time it was queued.
RelayAnnounce(y) ==
  /\ n[y].queue # <<>>
  /\ LET e == Head(n[y].queue)
         left == [n EXCEPT ![y].queue = Tail(@)]
     IN n' \in IF {e.to, y} \in links
                 THEN {[left EXCEPT ![e.to] = s] : s \in Announced(e.to, y, e.hops)}
                 ELSE {left}
  /\ UNCHANGED <<pend, via, air, links, hits>>

\* prune_pending_discovers_
ForgetAsked(y, x) ==
  /\ x \in n[y].asked
  /\ n' = [n EXCEPT ![y].asked = @ \ {x}]
  /\ UNCHANGED <<pend, via, air, links, hits>>

\* loop(): the collection window closes.
CloseWindow(x) ==
  /\ n[x].disc /\ ~n[x].swept /\ n[x].best # Unknown
  /\ n' = [n EXCEPT ![x].swept = TRUE]
  /\ UNCHANGED <<pend, via, air, links, hits>>

-----------------------------------------------------------------------------
\* Taking a parent.

\* loop() and send_join_
SendJoin(x) ==
  LET s == n[x] IN
  /\ s.disc /\ ~s.resume /\ s.swept /\ s.best # Unknown /\ ~s.joined /\ s.retry < MaxRetries /\ Quiet(x)
  /\ n' = [n EXCEPT ![x].parent = s.best.hop, ![x].hops = s.best.hops + 1,
                    ![x].flight = TRUE, ![x].retry = @ + 1]
  /\ air' = air \cup Sent([kind |-> "JOIN", up |-> TRUE, leaf |-> x, from |-> x, to |-> s.best.hop,
                           count |-> (s.best.hops + 1) % 16, passed |-> 0])
  /\ UNCHANGED <<pend, via, links, hits>>

\* loop(): join retries exhausted.
JoinExhausted(x) ==
  /\ n[x].flight /\ n[x].retry >= MaxRetries /\ ~n[x].joined /\ Quiet(x)
  /\ n' = [n EXCEPT ![x] = Rediscovering(@)]
  /\ UNCHANGED <<pend, via, air, links, hits>>

\* Mutant: the hops stay those of the JOIN.
JoinedOldHops(s) ==
  [s EXCEPT !.disc = FALSE, !.joined = TRUE, !.normal = TRUE, !.flight = FALSE, !.retry = 0,
            !.parent = s.best.hop]

\* handle_join_ack_ for JOIN_ACK(COMPLETE): the parent is the best candidate of now.
Joined(s) ==
  [s EXCEPT !.disc = FALSE, !.joined = TRUE, !.normal = TRUE, !.flight = FALSE, !.retry = 0,
            !.parent = s.best.hop, !.hops = (s.best.hops + 1) % 256]

\* loop(), adopt_best_parent_candidate_(true), send_heartbeat_
Resume(x) ==
  LET s == n[x] IN
  /\ s.disc /\ s.swept /\ s.resume /\ s.best # Unknown /\ Quiet(x)
  /\ n' = [n EXCEPT ![x] = [s EXCEPT !.disc = FALSE, !.swept = FALSE, !.normal = TRUE, !.joined = TRUE,
                                     !.parent = s.best.hop, !.hops = s.best.hops + 1]]
  /\ air' = air \cup Sent([kind |-> "HEARTBEAT", up |-> TRUE, leaf |-> x, from |-> x, to |-> s.best.hop,
                           count |-> (s.best.hops + 1) % 16, passed |-> 0])
  /\ UNCHANGED <<pend, via, links, hits>>

-----------------------------------------------------------------------------
\* Frames.

\* Where a frame of x goes, hop by hop, over relays that pass it.
UpChain(x) ==
  LET step[k \in 0 .. Cardinality(Nodes)] ==
        IF k = 0 THEN x
        ELSE LET y == step[k - 1] IN
             IF y \in Nodes /\ (y = x \/ CanRelay(y)) /\ {y, n[y].parent} \in links
               THEN n[y].parent ELSE NoNode
  IN {step[k] : k \in 0 .. Cardinality(Nodes)}

DownChain(x) ==
  LET step[k \in 0 .. Cardinality(Nodes)] ==
        IF k = 0 THEN Bridge
        ELSE LET y == step[k - 1]
                 z == IF y = Bridge THEN via[x] ELSE IF y \in Nodes THEN n[y].routes[x] ELSE NoNode
             IN IF y # x /\ (y = Bridge \/ (y \in Nodes /\ CanRelay(y))) /\ {y, z} \in links
                  THEN z ELSE NoNode
  IN {step[k] : k \in 0 .. Cardinality(Nodes)}

Reached(x) == n[x].normal /\ Bridge \in UpChain(x) /\ x \in DownChain(x)

\* loop(), rejoin_due_to_transmit_stall_: a state without an ack; a weak signal or the
\* periodic look for a preferred parent when the path is whole.
RecoverRoute(x) ==
  /\ n[x].normal /\ Quiet(x)
  /\ IF sc.persistent /\ ~Reached(x)
       THEN UNCHANGED hits
       ELSE hits.recover < sc.recover /\ hits' = [hits EXCEPT !.recover = @ + 1]
  /\ n' = [n EXCEPT ![x] = Recovering(@)]
  /\ UNCHANGED <<pend, via, air, links>>

\* loop(): a heartbeat is due.
Heartbeat(x) ==
  /\ x \in sc.talkers /\ n[x].normal /\ n[x].joined /\ Quiet(x)
  /\ Sent(UpFrame(x, "HEARTBEAT")) # {}
  /\ air' = air \cup Sent(UpFrame(x, "HEARTBEAT"))
  /\ UNCHANGED <<n, pend, via, links, hits>>

\* The bridge sends to a leaf.
Command(x) ==
  /\ x \in sc.talkers /\ via[x] # NoNode /\ Quiet(x)
  /\ Sent(DownFrame(x, "COMMAND")) # {}
  /\ air' = air \cup Sent(DownFrame(x, "COMMAND"))
  /\ UNCHANGED <<n, pend, via, links, hits>>

\* refresh_route_
RefreshRoute(y, routes, leaf, hop) ==
  IF leaf = y \/ hop = y THEN routes ELSE [routes EXCEPT ![leaf] = hop]

\* Mutant: hop_count is not increased.
ForwardedUncounted(f, y, to, delta) ==
  [f EXCEPT !.from = y, !.to = to, !.passed = IF @ > MaxHops THEN @ ELSE @ + IF delta >= 0 THEN 1 ELSE 0]

\* forward_frame_; passed counts what hop_count should.
Forwarded(f, y, to, delta) ==
  [f EXCEPT !.from = y, !.to = to, !.count = (@ + delta) % 16,
            !.passed = IF @ > MaxHops THEN @ ELSE @ + 1]

\* on_espnow_frame drops a frame that is too deep.
TooDeep(f) == f.count >= MaxHops

\* on_espnow_frame for a frame to or of the node itself
HandleOwn(f) ==
  /\ f.to = f.leaf /\ ~TooDeep(f)
  /\ n' = IF f.kind = "JOIN_ACK" THEN [n EXCEPT ![f.to] = Joined(@)] ELSE n
  /\ air' = air \ {f}
  /\ UNCHANGED <<pend, via, links, hits>>

\* handle_upstream_, forward_packet_
HandleUpstream(f) ==
  LET y == f.to IN
  /\ y \in Nodes /\ f.up /\ y # f.leaf /\ ~TooDeep(f) /\ CanRelay(y)
  /\ n' = [n EXCEPT ![y].routes = RefreshRoute(y, @, f.leaf, f.from)]
  /\ air' = (air \ {f}) \cup Sent(Forwarded(f, y, n[y].parent, 0))
  /\ UNCHANGED <<pend, via, links, hits>>

\* handle_downstream_, forward_packet_
HandleDownstream(f) ==
  LET y == f.to IN
  /\ y \in Nodes /\ ~f.up /\ y # f.leaf /\ ~TooDeep(f) /\ CanRelay(y) /\ n[y].routes[f.leaf] # NoNode
  /\ air' = (air \ {f}) \cup Sent(Forwarded(f, y, n[y].routes[f.leaf], 1))
  /\ UNCHANGED <<n, pend, via, links, hits>>

\* on_espnow_frame: too deep, no relay or no route.
Discard(f) ==
  LET y == f.to IN
  /\ y \in Nodes
  /\ TooDeep(f) \/ (y # f.leaf /\ (~CanRelay(y) \/ (~f.up /\ n[y].routes[f.leaf] = NoNode)))
  /\ air' = air \ {f}
  /\ UNCHANGED <<n, pend, via, links, hits>>

\* Mutant: the next hop of a leaf is learned once.
BridgeReceiveFirst(f) ==
  /\ f.to = Bridge
  /\ via' = [via EXCEPT ![f.leaf] = IF @ = NoNode THEN f.from ELSE @]
  /\ air' = (air \ {f}) \cup
              IF f.kind = "JOIN"
                THEN Sent([DownFrame(f.leaf, "JOIN_ACK") EXCEPT !.to = f.from])
                ELSE {}
  /\ UNCHANGED <<n, pend, links, hits>>

\* The bridge takes the sender for the next hop of the leaf and answers a JOIN.
BridgeReceive(f) ==
  /\ f.to = Bridge
  /\ via' = [via EXCEPT ![f.leaf] = f.from]
  /\ air' = (air \ {f}) \cup
              IF f.kind = "JOIN"
                THEN Sent([DownFrame(f.leaf, "JOIN_ACK") EXCEPT !.to = f.from])
                ELSE {}
  /\ UNCHANGED <<n, pend, links, hits>>

\* prune_routes_: nothing of the leaf came this way for route_ttl_seconds_.
ExpireRoute(y, x) ==
  /\ n[y].routes[x] # NoNode /\ Quiet(x) /\ y \notin UpChain(x) \cup DownChain(x)
  /\ n' = [n EXCEPT ![y].routes[x] = NoNode]
  /\ UNCHANGED <<pend, via, air, links, hits>>

-----------------------------------------------------------------------------
\* The world.

Lose(f) ==
  /\ hits.loss < sc.loss
  /\ hits' = [hits EXCEPT !.loss = @ + 1]
  /\ air' = air \ {f}
  /\ UNCHANGED <<n, pend, via, links>>

Move(p) ==
  /\ hits.move < sc.move
  /\ hits' = [hits EXCEPT !.move = @ + 1]
  /\ links' = IF p \in links THEN links \ {p} ELSE links \cup {p}
  /\ air' = {f \in air : {f.from, f.to} # p}
  /\ UNCHANGED <<n, pend, via>>

Restart(x) ==
  /\ hits.boot < sc.boot
  /\ hits' = [hits EXCEPT !.boot = @ + 1]
  /\ n' = [n EXCEPT ![x] = Booted]
  /\ UNCHANGED <<pend, via, air, links>>

NodeStep(x) ==
  \/ SendDiscover(x) \/ BridgeAnnounce(x) \/ RelayAnnounce(x) \/ CloseWindow(x) \/ SendJoin(x)
  \/ JoinExhausted(x) \/ Resume(x) \/ RecoverRoute(x) \/ Heartbeat(x) \/ Command(x) \/ Restart(x)
  \/ \E y \in Nodes : ForgetAsked(x, y) \/ ExpireRoute(x, y)

FrameStep(f) ==
  HandleOwn(f) \/ HandleUpstream(f) \/ HandleDownstream(f) \/ Discard(f) \/ BridgeReceive(f)

Next ==
  \/ \E x \in Nodes : NodeStep(x)
  \/ \E f \in air : FrameStep(f) \/ Lose(f)
  \/ \E p \in sc.mobile : Move(p)

Spec == Init /\ [][Next]_vars

\* Loops run, frames arrive, and a leaf that reports nothing else sends heartbeats; a
\* leaf without a path has a state to report some day.
Fairness ==
  \A x \in Nodes :
    /\ WF_vars(\/ SendDiscover(x) \/ BridgeAnnounce(x) \/ RelayAnnounce(x) \/ CloseWindow(x)
               \/ \E y \in Nodes : ForgetAsked(y, x))
    /\ SF_vars(SendJoin(x) \/ JoinExhausted(x) \/ Resume(x))
    /\ WF_vars(Heartbeat(x))
    /\ SF_vars(RecoverRoute(x) /\ ~Reached(x))
    /\ WF_vars(\E f \in air : f.leaf = x /\ FrameStep(f))

FairSpec == Spec /\ Fairness

-----------------------------------------------------------------------------
TypeOK ==
  /\ \A x \in Nodes :
       /\ n[x].hops \in 0 .. NoHops /\ n[x].retry \in 0 .. MaxRetries
       /\ n[x].parent \in (Nodes \ {x}) \cup {Bridge, NoNode, Zero}
       /\ Len(n[x].queue) <= QueueCap /\ Cardinality(n[x].asked) <= PendingCap
       /\ \A l \in Nodes : n[x].routes[l] \in (Nodes \ {x}) \cup {NoNode}
  /\ \A f \in air : f.count \in 0 .. 15

\* hop_count bounds how often a frame to a leaf is passed on, also when the route
\* tables of the relays send it round in a circle.
DownBounded == \A f \in air : ~f.up => f.passed <= MaxHops

\* x is in a circle of relays that pass frames up to each other.
Circle(x) ==
  LET step[k \in 0 .. Cardinality(Nodes)] ==
        IF k = 0 THEN x
        ELSE LET y == step[k - 1] IN IF y \in Nodes /\ CanRelay(y) THEN n[y].parent ELSE NoNode
  IN \E k \in 1 .. Cardinality(Nodes) : step[k] = x

\* direct_child_count_, total_children_count_: what a heartbeat reports
DirectChildren(y) == {l \in Nodes \ {y} : n[y].routes[l] = l}

TotalChildren(y) ==
  LET Walk(l) ==
        LET step[k \in 0 .. Cardinality(Nodes) + 1] ==
              IF k = 0 THEN l
              ELSE IF step[k - 1] \in Nodes THEN n[y].routes[step[k - 1]] ELSE NoNode
        IN {step[k] : k \in 0 .. Cardinality(Nodes)}
  IN IF CanRelay(y) THEN {l \in Nodes \ {y} : n[y].routes[l] # NoNode /\ y \in Walk(l)} ELSE {}

\* No remote has restarted or looked for another parent so far.
Undisturbed == hits.boot = 0 /\ \A x \in Nodes : ~n[x].resume

\* y passes frames on, hops steps away from the bridge.
IsAt(y, hops) == (y = Bridge /\ hops = 0) \/ (y \in Nodes /\ CanRelay(y) /\ n[y].hops = hops)

\* Until then the parents form a tree with the bridge as its root: the parent of every remote
\* in NORMAL passes frames on and is one hop closer to the bridge, whatever announces were
\* lost, were late, or came between a JOIN and its JOIN_ACK.
TreeGrows ==
  Undisturbed => \A x \in Nodes : n[x].normal => IsAt(n[x].parent, n[x].hops - 1)

\* In the end every remote that has a neighbour is NORMAL, its frames reach the bridge
\* and the bridge's frames reach it.
Heals == <>[](sc.persistent => \A x \in Nodes \cap UNION sc.near : Reached(x))

-----------------------------------------------------------------------------
\* Not true of the code, although a document, a comment or the design says so: section 4
\* of README.md tells what happens instead.

\* A frame to the bridge is passed on at most max_hops_ times too.
UpBounded == \A f \in air : f.up => f.passed <= MaxHops

\* No relays are in a circle of parents.
NoParentCircle == \A x \in Nodes : ~Circle(x)

\* A join, unlike a route recovery, closes no circle: the JOIN came to the bridge.
JoinNoCircle ==
  [][\A x \in Nodes : ~n[x].normal /\ n'[x].normal /\ ~n[x].resume => ~Circle(x)']_vars

\* The total of a relay's children includes the direct ones.
TotalIncludesDirect ==
  \A y \in Nodes : CanRelay(y) => Cardinality(DirectChildren(y)) <= Cardinality(TotalChildren(y))
=============================================================================
