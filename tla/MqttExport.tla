----------------------------- MODULE MqttExport -----------------------------
(***************************************************************************)
(* The MQTT export of one remote: ESPTreeBridgeMQTT keeps a record of      *)
(* every entity and of the device, queues of what to clear and of the      *)
(* availability, and publishes them in tick(), a few messages in each      *)
(* round of the main loop.  The calls that fill the queues come from the   *)
(* session of the remote in BridgeProtocol: joins, schema pushes, states,  *)
(* timeouts and evictions, in any order between two ticks.  A tick is one  *)
(* step, since no other component runs inside it.                          *)
(*                                                                         *)
(* The broker is external: it keeps the retained discovery configs, and    *)
(* Home Assistant shows the last state and availability that came through. *)
(* An entity is known by its name and kind, the remote in every topic by   *)
(* its node key: its ESPHome name, or its MAC while the session has none.  *)
(* The index of an entity counts from 1.  A publish that fails, a tick that*)
(* runs out of its 200 ms and a lost connection are bounded faults.        *)
(*                                                                         *)
(* first_state_publish_pending is left out: do_publish_discovery_ resets   *)
(* it whenever it sets discovery_published, so the grace period that tick  *)
(* grants a first state never applies.                                     *)
(***************************************************************************)
EXTENDS Naturals, Sequences, SequencesExt, FiniteSets

CONSTANT Scenarios    \* a list of what is explored; each behaviour has one of them

AllEvents == {"reflash", "change", "restart", "repeat", "offline", "timeout", "evict", "drop", "broker restart"}
Publishes == {"bridge", "clear", "device clear", "avail", "remote diag", "device", "config",
              "state 1", "state 2", "slow start", "slow entities"}

Scenario(s) ==
  /\ s.schemas # {}                    \* the lists of entities of the remote's firmwares
  /\ \A l \in s.schemas : Len(l) \in 1 .. 2
  /\ s.joins \in Nat                   \* bound: JOINs of the remote
  /\ s.states \in Nat                  \* bound: states the remote reports
  /\ s.faults \in Nat                  \* bound: faults of the network and of the session
  /\ s.events \subseteq AllEvents      \* the faults of the session and the network
  /\ s.failures \subseteq Publishes    \* the publishes that may fail

ASSUME MqttAssumption == \A x \in DOMAIN Scenarios : Scenario(Scenarios[x])

VARIABLES ses,      \* BridgeSession of the remote and the schema caches
          m,        \* the members of ESPTreeBridgeMQTT
          bk,       \* what the broker retains and Home Assistant shows
          conn,     \* is_connected()
          told,     \* the last state of each entity that the remote reported
          used      \* the scenario, how much of its bounds is used up, and the lapses

vars == <<ses, m, bk, conn, told, used>>

sc == Scenarios[used.sc]

Index == 1 .. 2
Entity == UNION {Range(s) : s \in sc.schemas}
Name == {e.name : e \in Entity}
ObjId == Name \X Index
None == [of |-> <<"none", 0>>, n |-> 0]

\* ids.  The second entity of a name gets a suffix; one that the session does
\* not list (yet) gets none.
Same(list, i, name) == Cardinality({j \in 1 .. i : list[j].name = name})
ObjectIdIn(list, i) == <<list[i].name, Same(list, i, list[i].name)>>
ObjectId(e, i) ==
  <<e.name, IF i <= Len(ses.ents) /\ Same(ses.ents, i, e.name) > 1
              THEN Same(ses.ents, i, e.name) ELSE 1>>

Routes(e) == CASE e.kind = "sensor" -> {} [] e.kind = "switch" -> {"set"}
               [] e.kind = "fan" -> {"set", "percentage_set"}
NodeKey == IF ses.named THEN "name" ELSE "mac"
CfgTopic(e, id) == <<NodeKey, e.kind, id>>
CmdTopics(e, id) == {<<NodeKey, id, r>> : r \in Routes(e)}

NoRec == [known |-> FALSE, node |-> FALSE, pub |-> FALSE, dirty |-> FALSE]
NoSession == [stage |-> "none", ents |-> << >>, next |-> 0, named |-> FALSE,
              pend |-> FALSE, online |-> FALSE]

Init ==
  /\ \E x \in DOMAIN Scenarios : used = [sc |-> x, joins |-> 0, states |-> 0, faults |-> 0, lapses |-> 0]
  /\ \E s \in sc.schemas : ses = [leaf |-> s, cache |-> << >>] @@ NoSession
  /\ m = [ent |-> [i \in Index |-> NoRec], dev |-> [dirty |-> FALSE, pub |-> FALSE],
          clears |-> << >>, devClear |-> FALSE, avail |-> << >>, routes |-> << >>,
          was |-> FALSE, backoff |-> FALSE, diag |-> FALSE, button |-> FALSE,
          rdiag |-> {}, refresh |-> FALSE]
  /\ bk = [cfg |-> {}, dev |-> FALSE, diag |-> FALSE, button |-> FALSE, rdiag |-> {},
           shown |-> [o \in ObjId |-> None], avail |-> FALSE]
  /\ conn = FALSE
  /\ told = [i \in Index |-> None]

DevKnown(x) == \E i \in Index : x.ent[i].node

-----------------------------------------------------------------------------
(* The queues *)

QueueDiscovery(x, e, i) ==
  LET old == x.ent[i]
      val == IF old.known THEN old.val ELSE None
  IN [x EXCEPT !.ent[i] = [known |-> TRUE, e |-> e, node |-> TRUE, pub |-> FALSE,
                           dirty |-> old.dirty, val |-> val],
               !.dev = [dirty |-> TRUE, pub |-> FALSE]]

QueueState(x, e, i, v) ==
  LET old == x.ent[i]
  IN [x EXCEPT !.ent[i] = [known |-> TRUE, e |-> IF old.known THEN old.e ELSE e,
                           node |-> old.node, pub |-> old.pub, dirty |-> TRUE, val |-> v]]

QueueAvailability(x, online) ==
  [x EXCEPT !.avail = Append(@, online), !.refresh = online]

WithoutIndexes(routes, idx) ==
  [t \in {u \in DOMAIN routes : routes[u] \notin idx} |-> routes[t]]

\* Mutant: clearing leaves the command routes of the entities.
QueueClearKeepsRoutes(x, list) ==
  LET idx == DOMAIN list
      ent == [i \in Index |-> IF i \in idx THEN NoRec ELSE x.ent[i]]
      new == [i \in idx |-> [cfg  |-> CfgTopic(list[i], ObjectIdIn(list, i)),
                             cmds |-> CmdTopics(list[i], ObjectIdIn(list, i))]]
      gone == DevKnown(x) /\ ~\E i \in Index : ent[i].node
  IN [x EXCEPT !.clears = new @@ @, !.ent = ent, !.devClear = @ \/ gone,
               !.dev = IF DevKnown(x) THEN [dirty |-> TRUE, pub |-> FALSE] ELSE @]

\* queue_clear_entities: the newer clear of an index replaces the older one.
QueueClearEntities(x, list) ==
  LET idx == DOMAIN list
      ent == [i \in Index |-> IF i \in idx THEN NoRec ELSE x.ent[i]]
      new == [i \in idx |-> [cfg  |-> CfgTopic(list[i], ObjectIdIn(list, i)),
                             cmds |-> CmdTopics(list[i], ObjectIdIn(list, i))]]
      gone == DevKnown(x) /\ ~\E i \in Index : ent[i].node
  IN [x EXCEPT !.clears = new @@ @, !.ent = ent, !.routes = WithoutIndexes(@, idx),
               !.devClear = @ \/ gone,
               !.dev = IF DevKnown(x) THEN [dirty |-> TRUE, pub |-> FALSE] ELSE @]

OnSchemaComplete(x) ==
  [x EXCEPT !.dev = IF DevKnown(x) THEN [dirty |-> TRUE, pub |-> FALSE] ELSE @,
            !.refresh = TRUE]

-----------------------------------------------------------------------------
(* The session of the remote *)

Used(k) == used' = [used EXCEPT ![k] = @ + 1]
MayFault(e) == e \in sc.events /\ used.faults < sc.faults
Fault(e) == MayFault(e) /\ Used("faults")
\* A fault that clears entities of a session that goes on.
Lapse(e) == MayFault(e) /\ used' = [used EXCEPT !.faults = @ + 1, !.lapses = @ + 1]
Quiet == UNCHANGED <<bk, conn>>

\* A JOIN.  The schema cached under the name of the session is taken over when
\* its hash is the same; otherwise the name and the list are emptied before the
\* identity and the entities are asked for.
Join ==
  /\ used.joins < sc.joins /\ Used("joins")
  /\ ses.stage \in {"none", "joined", "lapsed"} \/ "restart" \in sc.events
  /\ \E s \in sc.schemas :
       /\ s = ses.leaf \/ "change" \in sc.events \/ (ses.stage = "none" /\ "reflash" \in sc.events)
       /\ IF ses.named /\ s = ses.cache
            THEN /\ ses' = [ses EXCEPT !.leaf = s, !.ents = s, !.stage = "joined", !.pend = TRUE]
                 /\ m' = OnSchemaComplete(m)
                 /\ UNCHANGED told
            ELSE /\ ses' = [ses EXCEPT !.leaf = s, !.ents = << >>, !.stage = "identity",
                                       !.named = FALSE, !.pend = FALSE]
                 /\ told' = [i \in Index |-> None]
                 /\ UNCHANGED m
  /\ Quiet

\* The identity: whatever the session still lists is cleared as stale.
HandleIdentity ==
  /\ ses.stage = "identity" \/ (ses.stage = "entities" /\ Lapse("repeat"))
  /\ ses.stage = "identity" => UNCHANGED used
  /\ ses' = [ses EXCEPT !.stage = "entities", !.next = 1, !.named = TRUE]
  /\ m' = IF ses.ents = << >> THEN m ELSE QueueClearEntities(m, ses.ents)
  /\ UNCHANGED told /\ Quiet

PublishAllEntities(x, list) ==
  FoldLeft(LAMBDA y, i : QueueDiscovery(y, list[i], i), x, [i \in DOMAIN list |-> i])

HandleSchemaPush ==
  /\ ses.stage = "entities"
  /\ LET i == ses.next
         e == ses.leaf[i]
         ents == IF i <= Len(ses.ents) THEN [ses.ents EXCEPT ![i] = e] ELSE Append(ses.ents, e)
     IN IF i = Len(ses.leaf)
          THEN /\ ses' = [ses EXCEPT !.ents = ents, !.stage = "joined", !.pend = TRUE,
                                     !.cache = ents]
               /\ m' = OnSchemaComplete(PublishAllEntities(m, ents))
          ELSE /\ ses' = [ses EXCEPT !.ents = ents, !.next = i + 1]
               /\ m' = QueueDiscovery(m, e, i)
  /\ UNCHANGED <<told, used>> /\ Quiet

\* A state of entity i; its value carries the entity it is of.
HandleState(i) ==
  /\ ses.stage = "joined" /\ i <= Len(ses.ents)
  /\ used.states < sc.states /\ Used("states")
  /\ LET v == [of |-> ObjectIdIn(ses.leaf, i), n |-> used.states + 1]
     IN /\ told' = [told EXCEPT ![i] = v]
        /\ m' = QueueState(m, ses.ents[i], i, v)
  /\ UNCHANGED ses /\ Quiet

\* The heartbeat that answers JOIN_ACK(COMPLETE), in time or late.
MarkOnline ==
  /\ ses.stage \in {"joined", "lapsed"} /\ ~ses.online
  /\ ses' = [ses EXCEPT !.stage = "joined", !.online = TRUE, !.pend = FALSE]
  /\ m' = QueueAvailability(m, TRUE)
  /\ UNCHANGED <<told, used>> /\ Quiet

OfflineTimeout ==
  /\ ses.online /\ Fault("offline")
  /\ ses' = [ses EXCEPT !.online = FALSE]
  /\ m' = QueueAvailability(m, FALSE)
  /\ UNCHANGED told /\ Quiet

\* No heartbeat answers JOIN_ACK(COMPLETE).
CompleteTimeout ==
  /\ ses.pend /\ Lapse("timeout")
  /\ ses' = [ses EXCEPT !.stage = "lapsed", !.online = FALSE, !.pend = FALSE]
  /\ m' = QueueClearEntities(QueueAvailability(m, FALSE), ses.ents)
  /\ UNCHANGED told /\ Quiet

\* evict_sessions_for_ram_, the cap of the session table, invalidate_all_sessions.
Evict ==
  /\ ses.stage # "none" /\ Fault("evict")
  /\ ses' = [leaf |-> ses.leaf, cache |-> IF ses.named THEN << >> ELSE ses.cache] @@ NoSession
  /\ \E offline \in {ses.online, TRUE} :
       m' = QueueClearEntities(IF offline THEN QueueAvailability(m, FALSE) ELSE m, ses.ents)
  /\ told' = [i \in Index |-> None]
  /\ Quiet

-----------------------------------------------------------------------------
(* tick().  p holds the exporter, the broker and whether the tick is over;  *)
(* bad is the publish that fails in this tick, if any.                      *)

\* Mutant: a new connection marks the devices only.
ReconnectedDevices(x) ==
  [x EXCEPT !.was = TRUE,
            !.dev = IF DevKnown(x) THEN [dirty |-> TRUE, pub |-> FALSE] ELSE @,
            !.diag = FALSE, !.rdiag = {}, !.refresh = ses.online]

Reconnected(x) ==
  [x EXCEPT !.was = TRUE,
            !.dev = IF DevKnown(x) THEN [dirty |-> TRUE, pub |-> FALSE] ELSE @,
            !.ent = [i \in Index |-> IF @[i].known THEN [@[i] EXCEPT !.pub = FALSE, !.dirty = TRUE]
                                                  ELSE @[i]],
            !.diag = FALSE, !.rdiag = {}, !.refresh = ses.online]

Stage(p, next) == IF p.stop THEN p ELSE next
Stop(p) == [p EXCEPT !.stop = TRUE]

BridgeDiscovery(p, bad) ==
  LET ok == bad # "bridge"
      b == p.m.button \/ ok
      q == [p EXCEPT !.m.button = b, !.bk.button = @ \/ (ok /\ ~p.m.button),
                     !.m.diag = ok, !.bk.diag = @ \/ ok]
  IN IF p.m.diag THEN p ELSE [q EXCEPT !.stop = bad = "slow start"]

ClearEntity(p, bad) ==
  LET i == CHOOSE j \in DOMAIN p.m.clears : \A k \in DOMAIN p.m.clears : j <= k
      c == p.m.clears[i]
  IN CASE p.m.clears = << >> -> p
       [] p.m.clears # << >> /\ bad = "slow start" -> Stop(p)
       [] p.m.clears # << >> /\ bad = "clear" -> p
       [] p.m.clears # << >> /\ bad \notin {"slow start", "clear"} ->
            Stop([p EXCEPT !.bk.cfg = @ \ {c.cfg},
                           !.m.routes = [t \in DOMAIN @ \ c.cmds |-> @[t]],
                           !.m.clears = [j \in DOMAIN @ \ {i} |-> @[j]]])

ClearDevice(p, bad) ==
  IF ~p.m.devClear \/ bad = "device clear"
    THEN p
    ELSE Stop(IF bad = "slow start" THEN p ELSE [p EXCEPT !.bk.dev = FALSE, !.m.devClear = FALSE])

\* The entry leaves the queue whatever becomes of the publish.
SendAvailability(p, bad) ==
  IF p.m.avail = << >>
    THEN p
    ELSE Stop([p EXCEPT !.m.avail = Tail(@),
                        !.bk.avail = IF bad # "avail" /\ ses.named THEN Head(p.m.avail) ELSE @])

RemoteDiagnostics(p, bad) ==
  IF ~p.m.refresh \/ ~ses.online
    THEN p
    ELSE Stop(IF NodeKey \in p.m.rdiag
                THEN [p EXCEPT !.m.refresh = FALSE]
                ELSE IF bad = "remote diag" THEN p
                       ELSE [p EXCEPT !.m.rdiag = @ \cup {NodeKey}, !.bk.rdiag = @ \cup {NodeKey}])

Subscribe(routes, e, i) ==
  IF Routes(e) = {}
    THEN routes
    ELSE [t \in CmdTopics(e, ObjectId(e, i)) |-> i] @@ WithoutIndexes(routes, {i})

DeviceDiscovery(p, bad) ==
  IF p.m.dev.dirty /\ DevKnown(p.m) /\ ses.named
    THEN LET subs == FoldLeft(LAMBDA r, i : IF p.m.ent[i].node THEN Subscribe(r, p.m.ent[i].e, i) ELSE r,
                              p.m.routes, <<1, 2>>)
             q == [p EXCEPT !.m.routes = subs]
         IN IF bad = "device" THEN q
              ELSE [q EXCEPT !.m.dev = [dirty |-> FALSE, pub |-> TRUE], !.bk.dev = TRUE]
    ELSE p

PublishDiscovery(p, i, bad) ==
  LET e == p.m.ent[i].e
      q == [p EXCEPT !.m.routes = Subscribe(@, e, i)]
  IN IF bad = "config" THEN q
       ELSE [q EXCEPT !.m.ent[i].pub = TRUE,
                      !.bk.cfg = @ \cup {CfgTopic(e, ObjectId(e, i))}]

PublishState(p, i, bad) ==
  LET r == p.m.ent[i]
  IN IF bad = <<"state 1", "state 2">>[i]
       THEN [p EXCEPT !.m.backoff = TRUE]
       ELSE [p EXCEPT !.m.ent[i].dirty = FALSE,
                      !.bk.shown[ObjectId(r.e, i)] = IF ses.named THEN r.val ELSE @]

\* Mutant: a state is published whether or not its discovery was.
EntityTurnEager(p, i, bad) ==
  LET r == p.m.ent[i]
  IN IF r.known /\ r.dirty THEN PublishState(p, i, bad)
     ELSE IF r.known /\ ~r.pub /\ r.node /\ p.m.dev.pub
            THEN [PublishDiscovery(p, i, bad) EXCEPT !.stop = TRUE]
     ELSE p

\* One turn of the loop over mqtt_entities_.
EntityTurn(p, i, bad) ==
  LET r == p.m.ent[i]
  IN IF bad = "slow entities" THEN Stop(p)
     ELSE IF r.known /\ ~r.pub /\ r.node /\ p.m.dev.pub
       THEN Stop(PublishDiscovery(p, i, bad))
     ELSE IF r.known /\ r.dirty /\ r.pub THEN PublishState(p, i, bad)
     ELSE p

\* What a tick leaves, as the one member of a set that its stages hand on.
TickResult(bad) ==
  LET p0 == {[m |-> IF m.was THEN m ELSE Reconnected(m), bk |-> bk, stop |-> FALSE]}
      p1 == {Stage(p, BridgeDiscovery(p, bad)) : p \in p0}
      p2 == {Stage(p, ClearEntity(p, bad)) : p \in p1}
      p3 == {Stage(p, ClearDevice(p, bad)) : p \in p2}
      p4 == {Stage(p, SendAvailability(p, bad)) : p \in p3}
      p5 == {Stage(p, RemoteDiagnostics(p, bad)) : p \in p4}
      p6 == {Stage(p, DeviceDiscovery(p, bad)) : p \in p5}
      p7 == {Stage(p, EntityTurn(p, 1, bad)) : p \in p6}
  IN {Stage(p, EntityTurn(p, 2, bad)) : p \in p7}

TickOf(bad) == \E p \in TickResult(bad) : m' = p.m /\ bk' = p.bk

Tick ==
  /\ conn /\ ~m.backoff
  /\ TickOf("none")
  /\ UNCHANGED <<ses, conn, told, used>>

TickFails ==
  /\ conn /\ ~m.backoff
  /\ used.faults < sc.faults /\ Used("faults")
  /\ \E bad \in sc.failures : TickOf(bad)
  /\ UNCHANGED <<ses, conn, told>>

TickDisconnected ==
  /\ ~conn /\ m.was
  /\ m' = [m EXCEPT !.was = FALSE]
  /\ UNCHANGED <<ses, bk, conn, told, used>>

\* Mutant: every round of the main loop puts the retry off again.
BackoffPutOff == m.backoff /\ UNCHANGED vars

BackoffEnds ==
  /\ m.backoff
  /\ m' = [m EXCEPT !.backoff = FALSE]
  /\ UNCHANGED <<ses, bk, conn, told, used>>

-----------------------------------------------------------------------------
(* The broker and the connection *)

Disconnect ==
  /\ conn /\ Fault("drop")
  /\ conn' = FALSE
  /\ UNCHANGED <<ses, m, bk, told>>

\* The broker forgets what it retained; Home Assistant keeps what it saw last.
BrokerRestart ==
  /\ conn /\ Fault("broker restart")
  /\ conn' = FALSE
  /\ bk' = [bk EXCEPT !.cfg = {}, !.dev = FALSE, !.diag = FALSE, !.button = FALSE, !.rdiag = {}]
  /\ UNCHANGED <<ses, m, told>>

\* Connecting takes several rounds of the main loop; each of them calls tick().
Connect ==
  /\ ~conn /\ ~m.was
  /\ conn' = TRUE
  /\ UNCHANGED <<ses, m, bk, told, used>>

\* handle_command_message_: the entities a command on topic t is sent to.
CommandTargets(t) ==
  {ses.ents[i] : i \in {j \in DOMAIN ses.ents : t \in DOMAIN m.routes /\ m.routes[t] = j}}

SessionNext ==
  \/ Join \/ HandleIdentity \/ HandleSchemaPush \/ (\E i \in Index : HandleState(i))
  \/ MarkOnline \/ OfflineTimeout \/ CompleteTimeout \/ Evict

ExportNext == Tick \/ TickFails \/ TickDisconnected \/ BackoffEnds

Next == SessionNext \/ ExportNext \/ Disconnect \/ BrokerRestart \/ Connect

Spec == Init /\ [][Next]_vars

\* The main loop runs tick() in every round, the client reconnects, and a join
\* that began gets its answers.
Fairness ==
  /\ WF_vars(Tick) /\ WF_vars(TickDisconnected \/ BackoffEnds \/ Connect)
  /\ WF_vars(HandleIdentity \/ HandleSchemaPush)

FairSpec == Spec /\ Fairness

-----------------------------------------------------------------------------
(* Properties *)

\* The record of each entity and the session stay within their types.
TypeOK ==
  /\ ses.stage \in {"none", "identity", "entities", "joined", "lapsed"}
  /\ ses.leaf \in sc.schemas /\ Len(ses.ents) <= 2 /\ ses.next \in 0 .. 2
  /\ \A i \in Index : m.ent[i].known => m.ent[i].e \in Entity
  /\ \A i \in Index : m.ent[i].node => m.ent[i].known
  /\ DOMAIN m.clears \subseteq Index
  /\ m.avail \in Seq(BOOLEAN)
  /\ \A t \in DOMAIN m.routes : m.routes[t] \in Index
  /\ {conn, m.was, m.backoff, m.diag, m.refresh} \subseteq BOOLEAN

\* A state reaches Home Assistant only when the config that makes an entity of
\* its topic is retained: tick() waits for discovery_published.
StateHasConfig ==
  [][\A o \in ObjId : bk'.shown[o] # bk.shown[o] =>
       \E e \in Entity : <<"name", e.kind, o>> \in bk'.cfg]_vars

\* What Home Assistant shows for an entity is a state of that entity.
StateOwn == \A o \in ObjId : bk.shown[o] # None => bk.shown[o].of = o

\* A command goes to the entity whose command topic it came on.
CommandOwn ==
  \A t \in DOMAIN m.routes : \A e \in CommandTargets(t) : e.name = t[2][1] /\ t[3] \in Routes(e)

\* States and commands stay with their entity, also when a remote whose session had
\* ended comes back with its entities at other indexes and topics are used again.
\* (A schema that changes while the session lasts breaks StateOwn: section 4 of
\* README.md.)
EntityOwn == StateOwn /\ CommandOwn

\* The remote is joined and a tick has nothing left to do.
Settled == ses.stage = "joined" /\ conn /\ ~m.backoff /\ \A p \in TickResult("none") : p.m = m

Ids == {<<ses.ents[i], ObjectIdIn(ses.ents, i), i>> : i \in DOMAIN ses.ents}

Listed == {CfgTopic(x[1], x[2]) : x \in Ids}

AvailabilityIs ==
  /\ ses.online => bk.avail
  /\ (~ses.online /\ ~ses.pend) => ~bk.avail

\* What the broker holds is what the session says of the remote.
Exported ==
  /\ bk.cfg = Listed /\ bk.dev /\ bk.diag
  /\ DOMAIN m.routes = UNION {CmdTopics(x[1], x[2]) : x \in Ids}
  /\ \A x \in Ids : told[x[3]] = None \/ bk.shown[x[2]] = told[x[3]]
  /\ ses.online => "name" \in bk.rdiag
  /\ AvailabilityIs

\* Once tick() has nothing left to do, every config of the schema and no other is
\* retained, every command topic is routed, and the last state and availability
\* that the remote reported are shown, across lost connections, restarts of the
\* broker, failed publishes and evictions.  (A lapse breaks it: see
\* DiscoveryPublished and StaleCleared.)
SettledExported == (Settled /\ used.lapses = 0) => Exported

\* Once the remote has joined and the faults end, the export is complete for good.
Converges == <>[](ses.stage = "joined" /\ used.lapses = 0 => Exported)

-----------------------------------------------------------------------------
\* Not true of the code, although a document, a comment or the design says so: section 4
\* of README.md tells what happens instead.

\* The spec: the bridge clears stale entities if the schema changed.
StaleCleared == Settled => bk.cfg \subseteq Listed

\* The spec: of a joined remote, also of one whose schema was cached, the
\* discovery is published.
DiscoveryPublished == Settled => Listed \subseteq bk.cfg

\* The spec: a publication is confirmed before it counts as delivered; so an idle
\* export leaves Home Assistant with the availability of the remote.
AvailabilityShown == Settled => AvailabilityIs

\* The spec: the topics of a remote are keyed on one identity of the leaf.
OneNodeKey == Cardinality({t[1] : t \in bk.cfg}) <= 1

\* The spec: discovery is published again on a new connection, also when the
\* broker restarted; this is about the Force Rejoin button of the bridge.
ButtonKept == Settled => bk.button
=============================================================================
