----------------------------- MODULE JoinSession -----------------------------
(***************************************************************************)
(* How a leaf gets a session (bridge_protocol.cpp, remote_protocol.cpp):   *)
(* JOIN and JOIN_ACK with the nonces both keys are derived from, the       *)
(* schema exchange, the state sync with MORE_DIRTY, JOIN_ACK(COMPLETE) and *)
(* the heartbeat that answers it; the bridge's global join slot, the WAIT  *)
(* rejection; every retry and timeout of the exchange; DEAUTH.             *)
(*                                                                         *)
(* A nonce is the number of nonces its owner has drawn for the leaf, a key *)
(* the pair of nonces.  Schema pushes and states are one frame here (their *)
(* fragments are in FragmentAssembly) and a state is confirmed as it       *)
(* arrives (its sinks are in StateDelivery).  Looking for a parent is one  *)
(* step (RelayRouting takes it apart).                                     *)
(***************************************************************************)
EXTENDS Integers, Sequences, FiniteSets

CONSTANTS
  MaxRetries,  \* ESPNOW_MAX_RETRIES
  QueueCap,    \* frames the path holds in one direction; a send beyond it fails
  MaxNonce,    \* bound: nonces a leaf draws
  MaxTx,       \* bound: frames a leaf sends by itself
  AllLeaves,   \* the leaves of all scenarios
  Scenarios    \* a list of what is explored; each behaviour has one of them

AllFaults == {"early", "remote restart", "bridge restart"}

Scenario ==
  [leaves : SUBSET AllLeaves,
   total : Nat,          \* total_entities of a leaf; its entities are 1 .. Total
   loss : Nat,           \* bound: frames lost
   dup : Nat,            \* bound: frames that arrive twice
   boot : Nat,           \* bound: restarts of leaves and bridge
   change : Nat,         \* bound: new values in NORMAL
   blocked : Nat,        \* bound: nonces tried while another leaf holds the join slot
   faults : SUBSET AllFaults]

ASSUME JoinAssumption ==
  /\ MaxRetries \in Nat \ {0} /\ QueueCap \in Nat \ {0} /\ MaxNonce \in Nat /\ MaxTx \in Nat
  /\ Scenarios \in Seq(Scenario)

VARIABLES
  r,         \* the leaf: RemoteProtocol
  b,         \* the bridge's BridgeSession of the leaf
  drawn,     \* bridge nonces drawn for the leaf
  cache,     \* schema_hash_cache_ and schema_cache_ of the leaf
  slot,      \* joining_leaf_mac_, NoLeaf when joining_in_progress_ is false
  down, up,  \* frames in flight to and from the leaf
  hits       \* the scenario; losses, repetitions, restarts and changes so far

vars == <<r, b, drawn, cache, slot, down, up, hits>>

sc == Scenarios[hits.sc]
Leaves == sc.leaves
Total == sc.total
Entities == 1 .. Total
NoLeaf == "none"

\* RemoteProtocol after clear_session_state_(false, true): the route is kept.
LeftSession(x) ==
  [x EXCEPT !.disc = TRUE, !.resume = FALSE, !.nonce = @ + 1, !.valid = FALSE,
            !.joined = FALSE, !.normal = FALSE, !.push = FALSE, !.flight = FALSE,
            !.retry = 0, !.waits = 0, !.seen = 0, !.pend = 0, !.tries = 0, !.timer = FALSE,
            !.told = FALSE, !.since = x.tx]

\* start_discovery_cycle_
Rediscovering(x) ==
  [LeftSession(x) EXCEPT !.found = FALSE, !.best = FALSE, !.parent = "none"]

\* A booted leaf: every entity is dirty, and its schema hash lacks what
\* send_identity_descriptor_ fills in.  found: sweep_complete_; best: best_parent_ is
\* valid; parent: "set" and "zero" are parent_valid_, with best_parent_'s address or an
\* empty one; pend: the counter of the state it waits an ack for; timer:
\* joined_started_ms_ > 0.  History: told, JOIN_ACK(COMPLETE) came in this
\* session; since, the first counter of this session.
Booted(nonce) ==
  [disc |-> TRUE, resume |-> FALSE, found |-> FALSE, best |-> FALSE, parent |-> "none",
   nonce |-> nonce, key |-> << >>, valid |-> FALSE, joined |-> FALSE, normal |-> FALSE,
   push |-> FALSE, flight |-> FALSE, retry |-> 0, waits |-> 0, seen |-> 0, tx |-> 1,
   hash |-> "partial", dirty |-> Entities, pend |-> 0, entity |-> 0, tries |-> 0,
   timer |-> FALSE, told |-> FALSE, since |-> 1]

\* A fresh BridgeSession.  prog: join_in_progress_; done: join_complete_pending;
\* ents: schema_entities; want: pending_schema_index, 0 for the identity; more:
\* awaiting_more_dirty_; listed: discovery_all_confirmed_; shown: the entities in
\* entity_values_, kept over a JOIN.  History: got, the
\* entities whose state was confirmed since the JOIN; synced, COMPLETE came out of a
\* state sync.
NewSession ==
  [bn |-> 0, rn |-> 0, valid |-> FALSE, online |-> FALSE, state |-> "NONE", prog |-> FALSE,
   done |-> FALSE, doneTries |-> 0, hash |-> "none", schema |-> FALSE, ents |-> {}, want |-> 0,
   flight |-> FALSE, tries |-> 0, sync |-> FALSE, more |-> TRUE, listed |-> FALSE,
   seen |-> 0, tx |-> 1, last |-> 0, shown |-> {}, got |-> {}, synced |-> FALSE]

NoSchema == [hash |-> "none", ents |-> {}]

Init ==
  /\ \E x \in DOMAIN Scenarios :
       hits = [sc |-> x, loss |-> 0, dup |-> 0, boot |-> 0, bridge |-> 0, change |-> 0]
  /\ r = [l \in Leaves |-> Booted(1)]
  /\ b = [l \in Leaves |-> NewSession]
  /\ drawn = [l \in Leaves |-> 0]
  /\ cache = [l \in Leaves |-> NoSchema]
  /\ slot = NoLeaf
  /\ down = [l \in Leaves |-> << >>] /\ up = [l \in Leaves |-> << >>]

Key(s) == <<s.bn, s.rn>>
Room(q) == Len(q) < QueueCap
Put(q, f) == IF Room(q) THEN Append(q, f) ELSE q

DownIs(l, kind) == down[l] # << >> /\ Head(down[l]).kind = kind
UpIs(l, kind)   == up[l] # << >> /\ Head(up[l]).kind = kind

\* Timers.  A retry is due, and a sweep of the channels over, when nothing is in flight
\* any more; the long timeouts (30 s and more) when no shorter wait is left either.
Quiet(l) == "early" \in sc.faults \/ (up[l] = << >> /\ down[l] = << >>)

Busy(l) ==
  \/ r[l].disc \/ r[l].pend # 0 \/ (r[l].push /\ r[l].dirty # {} /\ r[l].parent = "set")
  \/ b[l].done \/ (b[l].online /\ ~b[l].schema /\ b[l].flight)

Idle(l) == "early" \in sc.faults \/ (Quiet(l) /\ ~Busy(l))

\* Frames of the leaf go to its parent; to an empty address they fail.
Sent(x, q) == x.parent = "set" /\ Room(q)
SendUp(x, q, f) == IF Sent(x, q) THEN Append(q, f) ELSE q

-----------------------------------------------------------------------------
\* The leaf.

\* send_discover_ and handle_discover_announce_ until the collection window closes.
FindParent(l) ==
  /\ r[l].disc /\ ~r[l].found /\ Quiet(l)
  /\ r[l].nonce <= MaxNonce /\ r[l].tx <= MaxTx
  /\ r' = [r EXCEPT ![l].found = TRUE, ![l].best = TRUE]
  /\ UNCHANGED <<b, drawn, cache, slot, down, up, hits>>

\* Mutant: dirty_count is never filled in.
JoinFrameClean(x) ==
  [kind |-> "JOIN", nonce |-> x.nonce, hash |-> x.hash, dirty |-> FALSE, tx |-> x.tx]

JoinFrame(x) ==
  [kind |-> "JOIN", nonce |-> x.nonce, hash |-> x.hash, dirty |-> x.dirty # {}, tx |-> x.tx]

\* send_join_ once the frame is taken.
Joining(x) == [x EXCEPT !.parent = "set", !.tx = @ + 1, !.flight = TRUE, !.retry = @ + 1]

\* loop(): the JOIN and its retries; one that is not taken is tried again at once.
SendJoin(l) ==
  LET x == r[l] IN
  /\ x.disc /\ ~x.resume /\ x.found /\ x.best /\ ~x.joined
  /\ x.retry < MaxRetries /\ (x.flight => Quiet(l)) /\ Room(up[l])
  /\ slot \in {NoLeaf, l} \/ x.nonce <= sc.blocked
  /\ up' = [up EXCEPT ![l] = Append(@, JoinFrame(x))]
  /\ r' = [r EXCEPT ![l] = Joining(x)]
  /\ UNCHANGED <<b, drawn, cache, slot, down, hits>>

\* loop(): once the last JOIN is out the next round starts over, its answer unseen.
JoinExhausted(l) ==
  /\ r[l].flight /\ r[l].retry >= MaxRetries /\ ~r[l].joined
  /\ r' = [r EXCEPT ![l] = Rediscovering(r[l])]
  /\ UNCHANGED <<b, drawn, cache, slot, down, up, hits>>

\* handle_join_ack_ with accepted = 0 (WAIT).
Refused(x) ==
  IF x.waits + 1 >= MaxRetries THEN Rediscovering(x)
  ELSE [x EXCEPT !.valid = FALSE, !.flight = FALSE, !.waits = @ + 1, !.retry = 0]

\* handle_join_ack_ with accepted = 1: the key is made of the ack's nonce and the
\* leaf's present one, whichever JOIN the ack answers.
Accepted(x, ack) ==
  LET y == [x EXCEPT !.key = <<ack.bn, x.nonce>>, !.valid = TRUE, !.joined = TRUE,
                     !.disc = FALSE, !.flight = FALSE, !.retry = 0, !.seen = ack.tx]
  IN CASE ack.stage = "COMPLETE" ->
            [y EXCEPT !.normal = TRUE, !.push = TRUE, !.timer = FALSE, !.told = TRUE,
                      !.parent = IF x.best THEN "set" ELSE "zero"]
       [] ack.stage # "COMPLETE" /\ x.normal -> y
       [] ack.stage = "SEND_STATE" /\ ~x.normal ->
            [y EXCEPT !.push = TRUE, !.pend = 0, !.tries = 0, !.timer = TRUE, !.dirty = Entities]
       [] ack.stage = "SCHEMA_REFRESH" /\ ~x.normal -> [y EXCEPT !.push = FALSE, !.timer = TRUE]

HeartbeatFrame(x) == [kind |-> "HEARTBEAT", key |-> x.key, tx |-> x.tx]

\* send_heartbeat_
Beat(l, x) ==
  /\ r' = [r EXCEPT ![l] = [x EXCEPT !.tx = @ + 1]]
  /\ up' = [up EXCEPT ![l] = SendUp(x, @, HeartbeatFrame(x))]

HandleJoinAck(l) ==
  /\ DownIs(l, "JOIN_ACK")
  /\ down' = [down EXCEPT ![l] = Tail(@)]
  /\ LET ack == Head(down[l])
         x   == r[l]
     IN IF x.joined /\ ack.tx <= x.seen THEN UNCHANGED <<r, up>>
        ELSE IF ~ack.accepted THEN r' = [r EXCEPT ![l] = Refused(x)] /\ UNCHANGED up
        ELSE IF ack.stage = "COMPLETE" THEN Beat(l, Accepted(x, ack))
        ELSE r' = [r EXCEPT ![l] = Accepted(x, ack)] /\ UNCHANGED up
  /\ UNCHANGED <<b, drawn, cache, slot, hits>>

\* handle_schema_request_, send_identity_descriptor_, send_schema_push_
HandleSchemaRequest(l) ==
  /\ DownIs(l, "SCHEMA_REQUEST")
  /\ down' = [down EXCEPT ![l] = Tail(@)]
  /\ LET req == Head(down[l])
         x   == r[l]
     IN IF x.joined /\ req.tx > x.seen /\ x.valid /\ x.key = req.key
          THEN /\ r' = [r EXCEPT ![l] = [x EXCEPT !.seen = req.tx, !.push = FALSE, !.tx = @ + 1,
                                          !.hash = IF req.index = 0 THEN "full" ELSE @]]
               /\ up' = [up EXCEPT ![l] = SendUp(x, @, [kind |-> "SCHEMA_PUSH", key |-> x.key,
                                                       tx |-> x.tx, index |-> req.index])]
          ELSE UNCHANGED <<r, up>>
  /\ UNCHANGED <<b, drawn, cache, slot, hits>>

\* loop(): ESPNOW_JOINED_TO_NORMAL_TIMEOUT_MS
JoinedTimeout(l) ==
  /\ r[l].joined /\ ~r[l].normal /\ r[l].timer /\ Idle(l)
  /\ r' = [r EXCEPT ![l] = Rediscovering(r[l])]
  /\ UNCHANGED <<b, drawn, cache, slot, down, up, hits>>

\* Mutant: the search for another dirty entity starts one too far.
StateFrameSkips(x, e) ==
  [kind |-> "STATE", key |-> x.key, tx |-> x.tx, entity |-> e, more |-> \E d \in x.dirty : d > e + 1]

\* send_state_; MORE_DIRTY looks at the entities behind this one only.
StateFrame(x, e) ==
  [kind |-> "STATE", key |-> x.key, tx |-> x.tx, entity |-> e, more |-> \E d \in x.dirty : d > e]

\* loop(): the first dirty entity.
SendState(l) ==
  LET x == r[l]
      e == CHOOSE e \in x.dirty : \A d \in x.dirty : e <= d
  IN
  /\ x.joined /\ x.push /\ x.pend = 0 /\ x.dirty # {} /\ Sent(x, up[l]) /\ x.tx <= MaxTx
  /\ up' = [up EXCEPT ![l] = Append(@, StateFrame(x, e))]
  /\ r' = [r EXCEPT ![l] = [x EXCEPT !.pend = x.tx, !.entity = e, !.tries = 0, !.tx = @ + 1]]
  /\ UNCHANGED <<b, drawn, cache, slot, down, hits>>

\* loop(): the retry of a state; one that is not taken is no longer waited for.
RetryState(l) ==
  LET x == r[l] IN
  /\ x.joined /\ x.push /\ x.pend # 0 /\ x.tries < MaxRetries /\ Quiet(l)
  /\ up' = [up EXCEPT ![l] = SendUp(x, @, StateFrame(x, x.entity))]
  /\ r' = [r EXCEPT ![l] = IF Sent(x, up[l])
                             THEN [x EXCEPT !.pend = x.tx, !.tries = @ + 1, !.tx = @ + 1]
                             ELSE [x EXCEPT !.pend = 0, !.tx = @ + 1]]
  /\ UNCHANGED <<b, drawn, cache, slot, down, hits>>

\* start_route_recovery_cycle_: the session is kept, also one that is still joining.
Recovering(x) ==
  [x EXCEPT !.disc = TRUE, !.resume = TRUE, !.found = FALSE, !.best = FALSE, !.normal = FALSE,
            !.push = FALSE, !.flight = FALSE, !.retry = 0, !.pend = 0, !.tries = 0]

\* loop(): a state without an ack; rejoin_due_to_transmit_stall_ after repeated send
\* failures.
RouteLost(l) ==
  LET x == r[l] IN
  /\ x.joined
  /\ \/ x.pend # 0 /\ x.tries >= MaxRetries /\ Quiet(l)
     \/ x.push /\ x.parent = "zero"
  /\ r' = [r EXCEPT ![l] = Recovering(x)]
  /\ UNCHANGED <<b, drawn, cache, slot, down, up, hits>>

\* rejoin_due_to_transmit_stall_: a leaf that sends nothing for two minutes restarts.
MuteRestart(l) ==
  /\ r[l].joined /\ r[l].normal /\ ~r[l].push /\ Idle(l)
  /\ r' = [r EXCEPT ![l] = Booted(r[l].nonce + 1)]
  /\ UNCHANGED <<b, drawn, cache, slot, down, up, hits>>

\* adopt_best_parent_candidate_(true)
Resumed(x) ==
  [x EXCEPT !.disc = FALSE, !.found = FALSE, !.parent = "set", !.normal = TRUE, !.joined = TRUE,
            !.push = TRUE]

ResumeNormal(l) ==
  /\ r[l].disc /\ r[l].resume /\ r[l].found /\ r[l].best
  /\ Beat(l, Resumed(r[l]))
  /\ UNCHANGED <<b, drawn, cache, slot, down, hits>>

\* handle_ack_ for a state: dirty is cleared by the awaited one only.
HandleStateAck(l) ==
  /\ DownIs(l, "ACK")
  /\ down' = [down EXCEPT ![l] = Tail(@)]
  /\ LET ack == Head(down[l])
         x   == [r[l] EXCEPT !.seen = ack.tx]
     IN IF ~(r[l].joined /\ r[l].valid /\ x.key = ack.key /\ ack.tx > r[l].seen) THEN UNCHANGED r
        ELSE r' = [r EXCEPT ![l] = IF x.pend # 0 /\ x.pend = ack.ref
                                     THEN [x EXCEPT !.pend = 0, !.tries = 0, !.dirty = @ \ {x.entity}]
                                     ELSE x]
  /\ UNCHANGED <<b, drawn, cache, slot, up, hits>>

\* handle_deauth_: the session ends whatever frame the DEAUTH answers; a leaf with a
\* route joins again at once.
HandleDeauth(l) ==
  /\ DownIs(l, "DEAUTH")
  /\ down' = [down EXCEPT ![l] = Tail(@)]
  /\ LET x == [LeftSession(r[l]) EXCEPT !.found = TRUE] IN
     IF x.parent = "set" /\ x.best /\ Room(up[l])
       THEN /\ up' = [up EXCEPT ![l] = Append(@, JoinFrame(x))]
            /\ r' = [r EXCEPT ![l] = Joining(x)]
       ELSE r' = [r EXCEPT ![l] = Rediscovering(r[l])] /\ UNCHANGED up
  /\ UNCHANGED <<b, drawn, cache, slot, hits>>

\* A heartbeat that would tell the bridge nothing is left out.
Heartbeat(l) ==
  /\ r[l].joined /\ r[l].normal /\ r[l].push /\ Quiet(l) /\ r[l].tx <= MaxTx
  /\ \/ ~b[l].valid
     \/ Key(b[l]) = r[l].key /\ (b[l].state # "NORMAL" \/ b[l].done \/ b[l].prog)
  /\ Beat(l, r[l])
  /\ UNCHANGED <<b, drawn, cache, slot, down, hits>>

Change(l) ==
  /\ r[l].normal /\ hits.change < sc.change
  /\ hits' = [hits EXCEPT !.change = @ + 1]
  /\ \E e \in Entities : r' = [r EXCEPT ![l].dirty = @ \cup {e}]
  /\ UNCHANGED <<b, drawn, cache, slot, down, up>>

RemoteRestart(l) ==
  /\ "remote restart" \in sc.faults /\ hits.boot + hits.bridge < sc.boot
  /\ hits' = [hits EXCEPT !.boot = @ + 1]
  /\ r' = [r EXCEPT ![l] = Booted(r[l].nonce + 1)]
  /\ UNCHANGED <<b, drawn, cache, slot, down, up>>

-----------------------------------------------------------------------------
\* The bridge.

JoinAckFrame(s, accepted, stage) ==
  [kind |-> "JOIN_ACK", accepted |-> accepted, stage |-> stage, bn |-> s.bn, tx |-> s.tx]

RequestFrame(s, i) == [kind |-> "SCHEMA_REQUEST", key |-> Key(s), index |-> i, tx |-> s.tx]

\* send_join_ack_ with accepted = 1 marks the session and takes a free slot, sent or not.
Admitted(s) == [s EXCEPT !.prog = TRUE, !.tx = @ + 1]
TakeSlot(l) == slot' = IF slot = NoLeaf THEN l ELSE slot

\* send_join_complete_
Completed(s) == [s EXCEPT !.done = TRUE, !.doneTries = 0, !.prog = FALSE, !.tx = @ + 1]

\* Mutant: the slot is not given back.
FreeSlotNever == slot' = slot

\* send_join_complete_ frees the slot, whoever holds it.
FreeSlot == slot' = NoLeaf

\* The reset after a send that failed.
Dropped(s) ==
  [s EXCEPT !.prog = FALSE, !.online = FALSE, !.state = "NONE", !.schema = FALSE,
            !.flight = FALSE, !.valid = FALSE]

\* send_schema_request_
Requested(s, i, sent) == [s EXCEPT !.want = i, !.flight = sent, !.tx = @ + 1]

\* handle_join_: the slot is held by another leaf.
JoinBlocked(l) ==
  /\ UpIs(l, "JOIN") /\ slot \notin {NoLeaf, l}
  /\ up' = [up EXCEPT ![l] = Tail(@)]
  /\ down' = [down EXCEPT ![l] = Put(@, JoinAckFrame(b[l], FALSE, "NONE"))]
  /\ b' = [b EXCEPT ![l].tx = @ + 1]
  /\ UNCHANGED <<r, drawn, cache, slot, hits>>

SameJoin(s, f) == s.prog /\ s.rn = f.nonce /\ s.hash = f.hash

\* handle_join_: the JOIN of the exchange in progress, again.
JoinRepeated(l) ==
  /\ UpIs(l, "JOIN") /\ slot \in {NoLeaf, l}
  /\ SameJoin(b[l], Head(up[l]))
  /\ up' = [up EXCEPT ![l] = Tail(@)]
  /\ LET s     == b[l]
         stage == IF s.done THEN "COMPLETE"
                  ELSE IF s.sync \/ s.schema THEN "SEND_STATE" ELSE "SCHEMA_REFRESH"
     IN /\ down' = [down EXCEPT ![l] = Put(@, JoinAckFrame(s, TRUE, stage))]
        /\ b' = [b EXCEPT ![l] = [Admitted(s) EXCEPT !.seen = Head(up[l]).tx]]
  /\ TakeSlot(l)
  /\ UNCHANGED <<r, drawn, cache, hits>>

\* handle_join_: nonces and key are made anew and the exchange starts over.
Started(s, f, bn) ==
  [s EXCEPT !.rn = f.nonce, !.bn = bn, !.valid = TRUE, !.done = FALSE, !.doneTries = 0,
            !.hash = f.hash, !.state = "JOINED", !.seen = f.tx, !.prog = FALSE, !.want = 0,
            !.flight = FALSE, !.tries = 0, !.last = 0, !.sync = FALSE, !.got = {}, !.synced = FALSE]

JoinFresh(l) ==
  /\ UpIs(l, "JOIN") /\ slot \in {NoLeaf, l}
  /\ LET f == Head(up[l])
         s == Started(b[l], f, drawn[l] + 1)
         k == [s EXCEPT !.schema = TRUE, !.ents = cache[l].ents]
         m == [s EXCEPT !.schema = FALSE, !.ents = {}]
         q == down[l]
     IN
     /\ ~SameJoin(b[l], f)
     /\ up' = [up EXCEPT ![l] = Tail(@)]
     /\ \/ /\ cache[l].hash = f.hash /\ ~f.dirty
           /\ down' = [down EXCEPT ![l] = Put(q, JoinAckFrame(k, TRUE, "COMPLETE"))]
           /\ b' = [b EXCEPT ![l] = Completed(k)]
           /\ FreeSlot
        \/ /\ cache[l].hash = f.hash /\ f.dirty
           /\ down' = [down EXCEPT ![l] = Put(q, JoinAckFrame(k, TRUE, "SEND_STATE"))]
           /\ LET n == [Admitted(k) EXCEPT !.sync = TRUE, !.more = TRUE]
              IN b' = [b EXCEPT ![l] = IF Room(q) THEN n ELSE Dropped(n)]
           /\ TakeSlot(l)
        \/ /\ cache[l].hash # f.hash
           /\ LET n == Admitted(m)
                  p == Put(q, JoinAckFrame(m, TRUE, "SCHEMA_REFRESH"))
                  a == Requested(n, 0, Room(p))
              IN IF ~Room(q)
                   THEN /\ down' = down /\ b' = [b EXCEPT ![l] = Dropped(n)]
                   ELSE /\ down' = [down EXCEPT ![l] = Put(p, RequestFrame(n, 0))]
                        /\ b' = [b EXCEPT ![l] = IF Room(p) THEN a ELSE Dropped(a)]
           /\ TakeSlot(l)
  /\ drawn' = [drawn EXCEPT ![l] = @ + 1]
  /\ UNCHANGED <<r, cache, hits>>

\* Mutant: the last entity is taken for the one before it.
SchemaStepShort(l, s, i) ==
  IF i + 1 < Total
    THEN /\ b' = [b EXCEPT ![l] = Requested(s, i + 1, Room(down[l]))]
         /\ down' = [down EXCEPT ![l] = Put(@, RequestFrame(s, i + 1))]
         /\ UNCHANGED <<cache, slot>>
    ELSE /\ cache' = [cache EXCEPT ![l] = [hash |-> s.hash, ents |-> s.ents]]
         /\ LET k == [s EXCEPT !.schema = TRUE, !.flight = FALSE] IN
            /\ b' = [b EXCEPT ![l] = [Admitted(k) EXCEPT !.listed = TRUE, !.sync = TRUE, !.more = TRUE]]
            /\ down' = [down EXCEPT ![l] = Put(@, JoinAckFrame(k, TRUE, "SEND_STATE"))]
         /\ TakeSlot(l)

\* handle_schema_push_: the identity, then the entities one by one.
SchemaStep(l, s, i) ==
  IF i < Total
    THEN /\ b' = [b EXCEPT ![l] = Requested([s EXCEPT !.tries = IF i = 0 THEN 0 ELSE 1],
                                            i + 1, Room(down[l]))]
         /\ down' = [down EXCEPT ![l] = Put(@, RequestFrame(s, i + 1))]
         /\ UNCHANGED <<cache, slot>>
    ELSE /\ cache' = [cache EXCEPT ![l] = [hash |-> s.hash, ents |-> s.ents]]
         /\ LET k == [s EXCEPT !.schema = TRUE, !.flight = FALSE] IN
            IF Total = 0
              THEN /\ b' = [b EXCEPT ![l] = Completed(k)]
                   /\ down' = [down EXCEPT ![l] = Put(@, JoinAckFrame(k, TRUE, "COMPLETE"))]
                   /\ FreeSlot
              ELSE /\ b' = [b EXCEPT ![l] = [Admitted(k) EXCEPT !.listed = TRUE, !.sync = TRUE,
                                                               !.more = TRUE]]
                   /\ down' = [down EXCEPT ![l] = Put(@, JoinAckFrame(k, TRUE, "SEND_STATE"))]
                   /\ TakeSlot(l)

HandleSchemaPush(l) ==
  /\ UpIs(l, "SCHEMA_PUSH")
  /\ up' = [up EXCEPT ![l] = Tail(@)]
  /\ LET f == Head(up[l])
         s == [b[l] EXCEPT !.seen = f.tx, !.ents = IF f.index = 0 THEN @ ELSE @ \cup {f.index}]
     IN IF b[l].valid /\ f.key = Key(b[l]) /\ f.tx > b[l].seen
          THEN SchemaStep(l, s, f.index)
          ELSE UNCHANGED <<b, down, cache, slot>>
  /\ UNCHANGED <<r, drawn, hits>>

\* on_espnow_frame without a session, handle_state_ when the frame does not validate.
SendDeauth(l, f) == down' = [down EXCEPT ![l] = Put(@, [kind |-> "DEAUTH", ref |-> f.tx])]

StateAckFrame(s, ref) == [kind |-> "ACK", key |-> Key(s), ref |-> ref, tx |-> s.tx]

\* handle_state_, confirm_state_delivery_: the COMPLETE goes out before the ack.
Confirmed(l, f) ==
  LET s == [b[l] EXCEPT !.seen = IF @ < f.tx THEN f.tx ELSE @, !.last = f.tx,
                        !.online = @ \/ b[l].state = "NORMAL", !.got = @ \cup {f.entity},
                        !.shown = @ \cup {f.entity},
                        !.more = IF b[l].sync THEN f.more ELSE @]
      k == [Completed(s) EXCEPT !.sync = FALSE, !.synced = TRUE]
  IN IF s.sync /\ ~s.more /\ s.listed
       THEN /\ down' = [down EXCEPT ![l] = Put(Put(@, JoinAckFrame(s, TRUE, "COMPLETE")),
                                               StateAckFrame(k, f.tx))]
            /\ b' = [b EXCEPT ![l] = [k EXCEPT !.tx = @ + 1]]
            /\ FreeSlot
       ELSE /\ down' = [down EXCEPT ![l] = Put(@, StateAckFrame(s, f.tx))]
            /\ b' = [b EXCEPT ![l] = [s EXCEPT !.tx = @ + 1]]
            /\ UNCHANGED slot

HandleState(l) ==
  /\ UpIs(l, "STATE")
  /\ up' = [up EXCEPT ![l] = Tail(@)]
  /\ LET f == Head(up[l])
         s == b[l]
     IN \/ /\ ~s.valid \/ f.key # Key(s)
           /\ SendDeauth(l, f) /\ UNCHANGED <<b, slot>>
        \/ /\ s.valid /\ f.key = Key(s) /\ f.tx > s.last
           /\ Confirmed(l, f)
        \/ /\ s.valid /\ f.key = Key(s) /\ f.tx <= s.last
           /\ IF f.tx = s.last
                THEN /\ down' = [down EXCEPT ![l] = Put(@, StateAckFrame(s, f.tx))]
                     /\ b' = [b EXCEPT ![l].tx = @ + 1]
                ELSE UNCHANGED <<down, b>>
           /\ UNCHANGED slot
  /\ UNCHANGED <<r, drawn, cache, hits>>

\* handle_heartbeat_: one under another key is dropped without an answer.
HandleHeartbeat(l) ==
  /\ UpIs(l, "HEARTBEAT")
  /\ up' = [up EXCEPT ![l] = Tail(@)]
  /\ LET f == Head(up[l])
         s == b[l]
     IN \/ ~s.valid /\ SendDeauth(l, f) /\ UNCHANGED b
        \/ /\ s.valid /\ f.key = Key(s) /\ f.tx > s.seen
           /\ b' = [b EXCEPT ![l] = [s EXCEPT !.seen = f.tx, !.state = "NORMAL", !.prog = FALSE,
                                     !.online = @ \/ s.state # "NORMAL", !.done = FALSE,
                                     !.doneTries = IF s.done THEN 0 ELSE @]]
           /\ UNCHANGED down
        \/ s.valid /\ (f.key # Key(s) \/ f.tx <= s.seen) /\ UNCHANGED <<b, down>>
  /\ UNCHANGED <<r, drawn, cache, slot, hits>>

\* loop(): the pending schema request again, and its end.
SchemaRetry(l) ==
  LET s == b[l] IN
  /\ s.online /\ ~s.schema /\ s.flight /\ Quiet(l)
  /\ IF s.tries < MaxRetries
       THEN /\ b' = [b EXCEPT ![l] = Requested([s EXCEPT !.tries = @ + 1], s.want, Room(down[l]))]
            /\ down' = [down EXCEPT ![l] = Put(@, RequestFrame(s, s.want))]
       ELSE /\ b' = [b EXCEPT ![l] = Dropped(s)]
            /\ UNCHANGED down
  /\ UNCHANGED <<r, drawn, cache, slot, up, hits>>

\* loop(): ESPNOW_STATE_SYNC_TIMEOUT_MS
SyncTimeout(l) ==
  /\ b[l].sync /\ ~b[l].done /\ Idle(l)
  /\ b' = [b EXCEPT ![l].sync = FALSE, ![l].prog = FALSE]
  /\ UNCHANGED <<r, drawn, cache, slot, down, up, hits>>

\* loop(): JOIN_ACK(COMPLETE) again, until the heartbeat comes.
CompleteRetry(l) ==
  LET s == b[l] IN
  /\ s.done /\ s.doneTries < MaxRetries /\ Quiet(l)
  /\ down' = [down EXCEPT ![l] = Put(@, JoinAckFrame(s, TRUE, "COMPLETE"))]
  /\ b' = [b EXCEPT ![l] = [Completed(s) EXCEPT !.doneTries = IF Room(down[l]) THEN s.doneTries + 1
                                                             ELSE s.doneTries]]
  /\ FreeSlot
  /\ UNCHANGED <<r, drawn, cache, up, hits>>

CompleteTimeout(l) ==
  /\ b[l].done /\ b[l].doneTries >= MaxRetries /\ Quiet(l)
  /\ b' = [b EXCEPT ![l] = [b[l] EXCEPT !.done = FALSE, !.doneTries = 0, !.prog = FALSE,
                                       !.online = FALSE, !.state = "NONE", !.flight = FALSE]]
  /\ UNCHANGED <<r, drawn, cache, slot, down, up, hits>>

\* loop(): the slot after 45 s.
SlotTimeout ==
  /\ slot # NoLeaf /\ Idle(slot)
  /\ FreeSlot
  /\ UNCHANGED <<r, b, drawn, cache, down, up, hits>>

\* loop(): no frame of this session for three heartbeats.
OfflineTimeout(l) ==
  /\ b[l].online /\ Idle(l)
  /\ "early" \in sc.faults \/ ~(r[l].normal /\ r[l].push /\ r[l].key = Key(b[l]))
  /\ b' = [b EXCEPT ![l].online = FALSE, ![l].state = "NONE"]
  /\ UNCHANGED <<r, drawn, cache, slot, down, up, hits>>

BridgeRestart ==
  /\ "bridge restart" \in sc.faults /\ hits.boot + hits.bridge < sc.boot
  /\ hits' = [hits EXCEPT !.bridge = @ + 1]
  /\ b' = [l \in Leaves |-> NewSession]
  /\ cache' = [l \in Leaves |-> NoSchema]
  /\ slot' = NoLeaf
  /\ UNCHANGED <<r, drawn, down, up>>

-----------------------------------------------------------------------------
\* The path: a frame is lost, or comes a second time after the ones behind it.
Lose(l) ==
  /\ hits.loss < sc.loss
  /\ hits' = [hits EXCEPT !.loss = @ + 1]
  /\ \/ down[l] # << >> /\ down' = [down EXCEPT ![l] = Tail(@)] /\ UNCHANGED up
     \/ up[l] # << >> /\ up' = [up EXCEPT ![l] = Tail(@)] /\ UNCHANGED down
  /\ UNCHANGED <<r, b, drawn, cache, slot>>

Repeat(l) ==
  /\ hits.dup < sc.dup /\ up[l] # << >> /\ Room(up[l])
  /\ hits' = [hits EXCEPT !.dup = @ + 1]
  /\ up' = [up EXCEPT ![l] = Append(@, Head(@))]
  /\ UNCHANGED <<r, b, drawn, cache, slot, down>>

LeafStep(l) ==
  \/ FindParent(l) \/ SendJoin(l) \/ JoinExhausted(l) \/ HandleJoinAck(l) \/ HandleSchemaRequest(l)
  \/ JoinedTimeout(l) \/ SendState(l) \/ RetryState(l) \/ RouteLost(l) \/ MuteRestart(l)
  \/ ResumeNormal(l) \/ HandleStateAck(l) \/ HandleDeauth(l) \/ Heartbeat(l)

BridgeStep(l) ==
  \/ JoinBlocked(l) \/ JoinRepeated(l) \/ JoinFresh(l) \/ HandleSchemaPush(l) \/ HandleState(l)
  \/ HandleHeartbeat(l) \/ SchemaRetry(l) \/ SyncTimeout(l) \/ CompleteRetry(l)
  \/ CompleteTimeout(l) \/ OfflineTimeout(l)

Next ==
  \/ \E l \in Leaves : \/ LeafStep(l) \/ BridgeStep(l) \/ Change(l) \/ RemoteRestart(l)
                       \/ Lose(l) \/ Repeat(l)
  \/ SlotTimeout \/ BridgeRestart

Spec == Init /\ [][Next]_vars

\* Both loops keep running; values, restarts and the path's faults are not promised.
Fairness ==
  /\ \A l \in AllLeaves : /\ WF_vars(l \in Leaves /\ LeafStep(l))
                         /\ WF_vars(l \in Leaves /\ BridgeStep(l))
  /\ WF_vars(SlotTimeout)

FairSpec == Spec /\ Fairness

-----------------------------------------------------------------------------
TypeOK ==
  /\ \A l \in Leaves :
       /\ r[l].nonce \in Nat /\ r[l].tx \in Nat /\ r[l].seen \in Nat /\ r[l].dirty \subseteq Entities
       /\ r[l].retry \in 0 .. MaxRetries /\ r[l].tries \in 0 .. MaxRetries
       /\ r[l].waits \in 0 .. MaxRetries - 1 /\ r[l].parent \in {"none", "set", "zero"}
       /\ b[l].tries \in 0 .. MaxRetries /\ b[l].doneTries \in 0 .. MaxRetries
       /\ b[l].want \in 0 .. Total /\ b[l].state \in {"NONE", "JOINED", "NORMAL"}
       /\ b[l].ents \subseteq Entities /\ b[l].got \subseteq Entities
       /\ Len(down[l]) <= QueueCap /\ Len(up[l]) <= QueueCap
  /\ slot \in Leaves \cup {NoLeaf}

\* A session whose schema counts as received (schema_received) holds every entity of
\* the leaf, whether it came in this join, frame by frame, or from schema_cache_.
SchemaWhole == \A l \in Leaves : b[l].schema => b[l].ents = Entities

\* A state sync ends in JOIN_ACK(COMPLETE) only after the state of every entity was
\* confirmed in this session: MORE_DIRTY never ends it early.
SyncCoversAll == \A l \in Leaves : b[l].synced => b[l].got = Entities

\* A join that completes without a state sync (schema known, nothing dirty) needs none:
\* unless the bridge itself restarted, it has a value for every entity.
NoSyncNeeded == hits.bridge = 0 => \A l \in Leaves : b[l].done => b[l].shown = Entities

\* Leaf and bridge are in the same session, both NORMAL, nothing left to report.
Settled(l) ==
  /\ r[l].normal /\ r[l].push /\ r[l].valid /\ r[l].dirty = {} /\ r[l].parent = "set"
  /\ b[l].valid /\ b[l].online /\ b[l].state = "NORMAL" /\ b[l].schema /\ ~b[l].done
  /\ r[l].key = Key(b[l])

\* Every leaf ends up in a session both ends agree on and stays there, whatever frames
\* were lost and whichever end restarted on the way.
JoinSettles == <>[](\A l \in Leaves : Settled(l))

-----------------------------------------------------------------------------
\* Not true of the code, although a document, a comment or the design says so: section 4
\* of README.md tells what happens instead.

\* The leaf is NORMAL only after JOIN_ACK(COMPLETE) of this session.
NormalNeedsComplete == \A l \in Leaves : r[l].normal => r[l].told

\* A DEAUTH that answers no frame of the present session changes nothing.
DeauthMatches ==
  [][\A l \in Leaves :
       DownIs(l, "DEAUTH") /\ down'[l] = Tail(down[l]) /\ Head(down[l]).ref < r[l].since
         => r'[l] = r[l]]_vars

\* A JOIN whose counter is not newer than the last one seen of this leaf leaves
\* its session alone.
OldJoinDropped ==
  [][\A l \in Leaves :
       UpIs(l, "JOIN") /\ up'[l] = Tail(up[l]) /\ b[l].valid /\ Head(up[l]).tx <= b[l].seen
         => Key(b'[l]) = Key(b[l])]_vars
=============================================================================
