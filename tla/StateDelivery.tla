---------------------------- MODULE StateDelivery ----------------------------
(***************************************************************************)
(* Entity states from one leaf to Home Assistant: the dirty flags and the  *)
(* push loop of the leaf (remote_protocol.cpp), reassembly on the bridge   *)
(* (bridge_protocol.cpp), the sinks a state goes to and the end-to-end     *)
(* confirmation (esp_tree_bridge.cpp, bridge_mqtt_export.cpp).             *)
(*                                                                         *)
(* The value of an entity is the number of times it has changed, so that   *)
(* "older" and "newer" values can be told apart.  The state sync inside a  *)
(* join (MORE_DIRTY) is in module JoinSession.                             *)
(***************************************************************************)
EXTENDS SessionPair

CONSTANTS
  StateFrags,    \* StateFrags[e][v]: fragments value v of e is cut into
  TextEntities,  \* entities of type text: a retry sends their current value
  StateRetries,  \* ESPNOW_MAX_RETRIES
  MaxValue       \* bound: changes of an entity

AllAround == {"busy change", "command", "quick boot", "api"}

ASSUME StateAssumption ==
  /\ Entities \subseteq Nat
  /\ StateFrags \in [Entities -> [1 .. MaxValue -> 1 .. MaxAssembly]]
  /\ TextEntities \subseteq Entities
  /\ StateRetries \in Nat /\ MaxValue \in Nat \ {0}
  /\ \A x \in DOMAIN Scenarios :
       /\ Scenarios[x].entities \subseteq Entities   \* the entities of the leaf
       /\ Scenarios[x].outages \in Nat     \* bound: disconnections of a sink, and deliveries it is late for
       /\ Scenarios[x].tx \in Nat          \* bound: counters the leaf uses up in one boot
       /\ Scenarios[x].around \subseteq AllAround   \* what may happen around the session

VARIABLES
  rVal,       \* current_value of each entity
  rDirty,     \* the entities with dirty set
  rPend,      \* pending_state_*, waiting_for_state_ack_, state_retry_count_
  rBooted,    \* the leaf has restarted and not joined since
  bTable,     \* pending_state_assemblies
  bLast,      \* last_completed_state_message_tx_base
  bSchema,    \* the schema cache holds the leaf
  shown,      \* entity_values_: what the bridge's API reports
  mqtt,       \* mqtt_entities_: value, state_dirty, pending_state_ack_ of each
  apiQ,       \* states emitted to the API client, not yet acknowledged
  sinks,      \* the sinks that are connected
  waiting,    \* pending_state_deliveries_
  seen,       \* history: the last value each sink was given
  outages     \* disconnections and late deliveries so far

rStates == <<rVal, rDirty, rPend, rBooted>>
bStates == <<bTable, bLast, bSchema, shown, mqtt, apiQ, sinks, waiting, seen, outages>>
vars == <<pairVars, rStates, bStates>>

NotWaiting == [on |-> FALSE, entity |-> 0, value |-> 0, base |-> 0, retry |-> 0]
NoAck == 0

Init ==
  /\ PairInit
  /\ rVal = [e \in Entities |-> 1] /\ rDirty = sc.entities
  /\ rPend = NotWaiting /\ rBooted = FALSE
  /\ bTable = EmptyTable /\ bLast = 0 /\ bSchema = FALSE
  /\ shown = [e \in Entities |-> 0]
  /\ mqtt = [e \in Entities |-> [value |-> 0, dirty |-> FALSE, ack |-> NoAck]]
  /\ apiQ = << >>
  /\ sinks = IF "api" \in sc.around THEN {"MQTT", "API"} ELSE {"MQTT"}
  /\ waiting = {}
  /\ seen = [s \in {"MQTT", "API"} |-> [e \in Entities |-> 0]]
  /\ outages = 0

\* A sink that is yet to confirm the delivery has it to confirm.
Deliverable(d) ==
  \/ "MQTT" \in d.required \ d.delivered /\ mqtt[d.entity].ack = d.base
  \/ \E i \in 1 .. Len(apiQ) : apiQ[i].entity = d.entity /\ apiQ[i].base = d.base /\ apiQ[i].key = bKey

\* A timer that waits for an answer expires once the answer cannot come any more.
Due == "early" \in sc.faults \/ (down = << >> /\ up = << >> /\ \A d \in waiting : ~Deliverable(d))

-----------------------------------------------------------------------------
\* on_entity_state_change, on_entity_text_change.
Change(e) ==
  /\ e \in sc.entities /\ rVal[e] < MaxValue
  /\ "busy change" \in sc.around \/ ~(rPend.on /\ rPend.entity = e)
  /\ rVal' = [rVal EXCEPT ![e] = @ + 1]
  /\ rDirty' = rDirty \cup {e}
  /\ UNCHANGED <<pairVars, rPend, rBooted, bStates>>

\* handle_command_ stores the commanded value and clears dirty; the entity
\* reports its own new state afterwards, if it does.
Commanded(e) ==
  /\ "command" \in sc.around /\ e \in sc.entities /\ rKey # 0 /\ rVal[e] < MaxValue
  /\ rVal' = [rVal EXCEPT ![e] = @ + 1]
  /\ rDirty' = rDirty \ {e}
  /\ UNCHANGED <<pairVars, rPend, rBooted, bStates>>

\* send_state_: fragment i is sent with counter base + i; the first one the radio
\* does not take ends the attempt and leaves the entity dirty.  The attempts that
\* fail are bounded together with the frames that are lost.
StateFrames(e, v) ==
  [i \in 1 .. StateFrags[e][v] |->
     Frame("STATE", rKey, rTx + i - 1,
           [entity |-> e, index |-> i - 1, count |-> StateFrags[e][v], msg |-> v])]

PushState(e, v, retry) ==
  LET room == sc.cap - Len(up)
      n    == StateFrags[e][v]
  IN IF n <= room
       THEN /\ up' = up \o StateFrames(e, v)
            /\ rTx' = rTx + n
            /\ rPend' = [on |-> TRUE, entity |-> e, value |-> v, base |-> rTx, retry |-> retry]
            /\ UNCHANGED <<rDirty, hits>>
       ELSE /\ hits.loss < sc.loss
            /\ hits' = [hits EXCEPT !.loss = @ + 1]
            /\ up' = up \o SubSeq(StateFrames(e, v), 1, room)
            /\ rTx' = rTx + room + 1
            /\ rPend' = NotWaiting
            /\ rDirty' = rDirty \cup {e}

\* loop(): state_push_enabled_ follows normal_ once the leaf has joined.
MaySend == rKey # 0 /\ rNormal /\ rTx <= sc.tx

FirstDirty == CHOOSE e \in rDirty : \A d \in rDirty : e <= d

SendState ==
  /\ MaySend /\ ~rPend.on /\ rDirty # {}
  /\ PushState(FirstDirty, rVal[FirstDirty], 0)
  /\ UNCHANGED <<bSession, rKey, rNormal, rSeen, keys, beats, down, rVal, rBooted, bStates>>

\* A retry repeats the value that was sent, under a new counter.
RetryState ==
  /\ MaySend /\ rPend.on /\ rPend.retry < StateRetries /\ Due
  /\ LET e == rPend.entity IN
     PushState(e, IF e \in TextEntities THEN rVal[e] ELSE rPend.value, rPend.retry + 1)
  /\ UNCHANGED <<bSession, rKey, rNormal, rSeen, keys, beats, down, rVal, rBooted, bStates>>

\* The round after the last retry gives up and looks for another route.
StateTimeout ==
  /\ MaySend /\ rPend.on /\ rPend.retry >= StateRetries
  /\ rDirty' = rDirty \cup {rPend.entity}
  /\ rPend' = NotWaiting
  /\ rNormal' = FALSE
  /\ UNCHANGED <<bSession, rKey, rTx, rSeen, keys, beats, path, rVal, rBooted, bStates>>

RouteResumed ==
  /\ rKey # 0 /\ ~rNormal /\ rTx <= sc.tx
  /\ rNormal' = TRUE
  /\ up' = Put(up, Frame("HEARTBEAT", rKey, rTx, Nothing))
  /\ rTx' = rTx + 1
  /\ UNCHANGED <<bSession, rKey, rSeen, keys, beats, down, hits, rStates, bStates>>

\* Mutant: the ack's ref_tx_counter is not compared.
AnyStateAck(ref) == rPend.on

\* The ack of the message the leaf waits for.
AwaitedAck(ref) == rPend.on /\ rPend.base = ref

\* handle_ack_: the awaited ack clears dirty, whatever the value is by now.
HandleStateAck ==
  /\ DownIs("ACK")
  /\ down' = Tail(down)
  /\ LET ack == Head(down) IN
     IF rKey # 0 /\ ack.key = rKey /\ CounterIsNewer(ack.tx, rSeen)
       THEN /\ rSeen' = ack.tx
            /\ IF AwaitedAck(ack.body.ref)
                 THEN rPend' = NotWaiting /\ rDirty' = rDirty \ {rPend.entity}
                 ELSE UNCHANGED <<rPend, rDirty>>
       ELSE UNCHANGED <<rSeen, rPend, rDirty>>
  /\ UNCHANGED <<bSession, rKey, rNormal, rTx, keys, beats, up, hits, rVal, rBooted, bStates>>

-----------------------------------------------------------------------------
\* send_state_ack_
StateAck(ref) == Frame("ACK", bKey, bTx, [of |-> "STATE", ref |-> ref])

SendStateAck(ref) == down' = Put(down, StateAck(ref)) /\ bTx' = bTx + 1

\* confirm_state_delivery_: the leaf is acked in the session it now has.
Confirm(base) ==
  IF bKey = 0 THEN UNCHANGED <<bLast, down, bTx>>
  ELSE /\ bLast' = IF CounterIsNewer(base, bLast) THEN base ELSE bLast
       /\ SendStateAck(base)

\* begin_state_delivery_: the delivery is confirmed at once when no sink is
\* connected.
BeginDelivery(e, base) ==
  IF sinks = {}
    THEN Confirm(base) /\ UNCHANGED waiting
    ELSE /\ waiting' = {d \in waiting : d.entity # e \/ d.base # base} \cup
                         {[entity |-> e, base |-> base, required |-> sinks, delivered |-> {}]}
         /\ UNCHANGED <<bLast, down, bTx>>

\* publish_state_fn_: the value goes to every sink.
Publish(e, v, base) ==
  /\ shown' = [shown EXCEPT ![e] = v]
  /\ mqtt' = [mqtt EXCEPT ![e] = [value |-> v, dirty |-> TRUE, ack |-> base]]
  /\ apiQ' = IF "API" \in sinks THEN
               Append(apiQ, [entity |-> e, value |-> v, base |-> base, key |-> bKey])
             ELSE apiQ
  /\ BeginDelivery(e, base)

\* handle_state_ once the frame is authentic.
StateFragment(frame) ==
  LET body == frame.body
      base == MessageTxBase(frame.tx, body.index)
  IN
  \/ /\ base = bLast
     /\ SendStateAck(base)
     /\ UNCHANGED <<bOnline, bSeen, bTable, bLast, shown, mqtt, apiQ, waiting>>
  \/ /\ base # bLast /\ ~CounterIsNewer(base, bLast)
     /\ UNCHANGED <<bOnline, bSeen, bTx, down, bTable, bLast, shown, mqtt, apiQ, waiting>>
  \/ /\ CounterIsNewer(base, bLast)
     /\ \E r \in {Receive(bTable, [entity |-> body.entity, index |-> body.index, count |-> body.count,
                                   base |-> base, flag |-> FALSE, msg |-> body.msg], TRUE)} :
          /\ bTable' = r.table
          /\ bSeen' = IF r.stored THEN LaterCounter(bSeen, frame.tx) ELSE bSeen
          /\ IF r.done
               THEN BackOnline /\ \E v \in r.whole : Publish(body.entity, v, base)
               ELSE UNCHANGED <<bOnline, bTx, down, bLast, shown, mqtt, apiQ, waiting>>

\* A STATE that does not verify under the session's key is answered with DEAUTH.
HandleState ==
  /\ UpIs("STATE") /\ bKey # 0
  /\ up' = Tail(up)
  /\ IF Head(up).key = bKey
       THEN StateFragment(Head(up))
       ELSE /\ down' = Put(down, Frame("DEAUTH", 0, 1, Nothing))
            /\ UNCHANGED <<bOnline, bSeen, bTx, bTable, bLast, shown, mqtt, apiQ, waiting>>
  /\ UNCHANGED <<bKey, bNormal, rSession, keys, beats, hits, rStates, bSchema, sinks, seen, outages>>

\* loop(): the assembly saw no fragment for ESPNOW_FRAGMENT_ASSEMBLY_TIMEOUT_MS.
PruneState(e) ==
  /\ Due
  /\ bTable.asm[e] # NoEntry /\ bTable.asm[e].active
  /\ bTable' = Expired(bTable, e)
  /\ UNCHANGED <<pairVars, rStates, bLast, bSchema, shown, mqtt, apiQ, sinks, waiting, seen, outages>>

-----------------------------------------------------------------------------
\* mark_state_sink_delivered_: the last required sink confirms the delivery.
Delivered(e, base, sink) ==
  LET hit == {d \in waiting : d.entity = e /\ d.base = base} IN
  IF hit = {} THEN UNCHANGED <<waiting, bLast, down, bTx>>
  ELSE LET d == CHOOSE d \in hit : TRUE
           f == [d EXCEPT !.delivered = @ \cup {sink}]
       IN IF f.required \subseteq f.delivered
            THEN waiting' = waiting \ {d} /\ Confirm(base)
            ELSE /\ waiting' = (waiting \ {d}) \cup {f}
                 /\ UNCHANGED <<bLast, down, bTx>>

\* tick() and do_publish_state_: the record holds the newest value only, so the
\* ack of an overwritten one is never marked.
MqttPublish(e) ==
  /\ "MQTT" \in sinks /\ mqtt[e].dirty
  /\ seen' = [seen EXCEPT !["MQTT"][e] = mqtt[e].value]
  /\ mqtt' = [mqtt EXCEPT ![e].dirty = FALSE, ![e].ack = NoAck]
  /\ IF mqtt[e].ack # NoAck
       THEN Delivered(e, mqtt[e].ack, "MQTT")
       ELSE UNCHANGED <<waiting, bLast, down, bTx>>
  /\ UNCHANGED <<bKey, bOnline, bNormal, bSeen, rSession, keys, beats, up, hits, rStates,
                 bTable, bSchema, shown, apiQ, sinks, outages>>

\* The client takes a state and returns a receipt with the session_id it came
\* with (api_runtime_handle_state_receipt, which needs that session).
ApiReceipt ==
  /\ apiQ # << >>
  /\ LET m == Head(apiQ) IN
     /\ seen' = [seen EXCEPT !["API"][m.entity] = m.value]
     /\ IF bKey = m.key THEN Delivered(m.entity, m.base, "API")
                       ELSE UNCHANGED <<waiting, bLast, down, bTx>>
  /\ apiQ' = Tail(apiQ)
  /\ UNCHANGED <<bKey, bOnline, bNormal, bSeen, rSession, keys, beats, up, hits, rStates,
                 bTable, bSchema, shown, mqtt, sinks, outages>>

\* expire_state_deliveries_: nobody is told.
ExpireDelivery(d) ==
  /\ waiting' = waiting \ {d}
  /\ IF Deliverable(d) THEN outages < sc.outages /\ outages' = outages + 1
                       ELSE UNCHANGED outages
  /\ UNCHANGED <<pairVars, rStates, bTable, bLast, bSchema, shown, mqtt, apiQ, sinks, seen>>

SinkDown(s) ==
  /\ s \in sinks /\ outages < sc.outages
  /\ outages' = outages + 1
  /\ sinks' = sinks \ {s}
  /\ apiQ' = IF s = "API" THEN << >> ELSE apiQ
  /\ UNCHANGED <<pairVars, rStates, bTable, bLast, bSchema, shown, mqtt, waiting, seen>>

\* Mutant: the snapshot for a new client is taken from what MQTT has published.
SinkUpFromMqtt(s) ==
  /\ s \notin sinks /\ outages > 0
  /\ sinks' = sinks \cup {s}
  /\ mqtt' = IF s = "MQTT" THEN [e \in Entities |-> [mqtt[e] EXCEPT !.dirty = mqtt[e].value > 0]]
             ELSE mqtt
  /\ seen' = IF s = "API"
               THEN [seen EXCEPT !["API"] = [e \in Entities |-> IF shown[e] = 0 THEN @[e] ELSE seen["MQTT"][e]]]
               ELSE seen
  /\ UNCHANGED <<pairVars, rStates, bTable, bLast, bSchema, shown, apiQ, waiting, outages>>

\* tick() publishes everything again once MQTT is back; a new API client is given
\* a snapshot of entity_values_.
SinkUp(s) ==
  /\ s \notin sinks /\ outages > 0
  /\ sinks' = sinks \cup {s}
  /\ mqtt' = IF s = "MQTT" THEN [e \in Entities |-> [mqtt[e] EXCEPT !.dirty = mqtt[e].value > 0]]
             ELSE mqtt
  /\ seen' = IF s = "API"
               THEN [seen EXCEPT !["API"] = [e \in Entities |-> IF shown[e] = 0 THEN @[e] ELSE shown[e]]]
               ELSE seen
  /\ UNCHANGED <<pairVars, rStates, bTable, bLast, bSchema, shown, apiQ, waiting, outages>>

-----------------------------------------------------------------------------
\* The leaf's part of clear_session_state_; the dirty flags stay.
ClearPush == rPend' = NotWaiting

\* handle_join_ and the join that follows.  With the schema cached and nothing
\* dirty the join completes at once; otherwise JOIN_ACK(SEND_STATE) makes every
\* entity dirty.  A pending delivery outlives the session it came in.
JoinStates ==
  /\ Rejoin
  /\ rBooted /\ "quick boot" \notin sc.around => waiting = {}
  /\ rBooted' = FALSE
  /\ rDirty' = IF bSchema /\ rDirty = {} THEN {} ELSE sc.entities
  /\ bTable' = EmptyTable /\ bLast' = 0 /\ bSchema' = TRUE
  /\ UNCHANGED <<rVal, rPend, shown, mqtt, apiQ, sinks, waiting, seen, outages>>

HandleDeauth ==
  /\ DownIs("DEAUTH")
  /\ down' = Tail(down)
  /\ LeaveSession /\ ClearPush
  /\ UNCHANGED <<bSession, rTx, keys, beats, up, hits, rVal, rDirty, rBooted, bStates>>

GiveUp ==
  /\ "give up" \in sc.faults /\ rKey # 0 /\ keys < sc.sessions
  /\ LeaveSession /\ ClearPush
  /\ UNCHANGED <<bSession, rTx, keys, beats, path, rVal, rDirty, rBooted, bStates>>

RemoteRestart ==
  /\ "remote restart" \in sc.faults /\ rKey # 0 /\ keys < sc.sessions
  /\ LeaveSession /\ ClearPush
  /\ rTx' = 1 /\ rDirty' = sc.entities /\ rBooted' = TRUE
  /\ UNCHANGED <<bSession, keys, beats, path, rVal, bStates>>

BridgeRestart ==
  /\ "bridge restart" \in sc.faults /\ keys < sc.sessions
  /\ ForgetSession
  /\ bTable' = EmptyTable /\ bLast' = 0 /\ bSchema' = FALSE
  /\ shown' = [e \in Entities |-> 0]
  /\ mqtt' = [e \in Entities |-> [value |-> 0, dirty |-> FALSE, ack |-> NoAck]]
  /\ apiQ' = << >> /\ waiting' = {}
  /\ UNCHANGED <<rStates, sinks, seen, outages>>

\* evict_sessions_for_ram_ erases the session and its schema cache entry.
EvictSession ==
  /\ "evict" \in sc.faults /\ bKey # 0 /\ keys < sc.sessions
  /\ ForgetSession
  /\ bTable' = EmptyTable /\ bLast' = 0 /\ bSchema' = FALSE
  /\ UNCHANGED <<rStates, shown, mqtt, apiQ, sinks, waiting, seen, outages>>

-----------------------------------------------------------------------------
RemoteSteps ==
  \/ \E e \in Entities : Change(e) \/ Commanded(e)
  \/ SendState \/ RetryState \/ StateTimeout \/ RouteResumed
  \/ HandleStateAck \/ HandleDeauth \/ GiveUp \/ RemoteRestart

BridgeSteps ==
  \/ HandleState \/ ApiReceipt \/ BridgeRestart \/ EvictSession
  \/ \E e \in Entities : PruneState(e) \/ MqttPublish(e)
  \/ \E d \in waiting : ExpireDelivery(d)
  \/ \E s \in {"MQTT", "API"} : SinkDown(s) \/ SinkUp(s)

Next ==
  \/ SessionSteps /\ UNCHANGED <<rStates, bStates>>
  \/ JoinStates
  \/ RemoteSteps
  \/ BridgeSteps

Spec == Init /\ [][Next]_vars

LeafLoop ==
  SendState \/ RetryState \/ StateTimeout \/ RouteResumed \/ HandleStateAck \/ HandleDeauth

BridgeLoop ==
  \/ (RejectUnknown \/ HandleHeartbeat) /\ UNCHANGED <<rStates, bStates>>
  \/ JoinStates \/ HandleState
  \/ \E e \in Entities : PruneState(e) \/ MqttPublish(e)
  \/ \E d \in waiting : ExpireDelivery(d)

\* Both loops run, with a broker that takes what it is given; an API client sends
\* its receipts, a sink that went comes back, and a leaf without a session or a
\* route keeps looking for one.
Fairness ==
  /\ WF_vars(LeafLoop) /\ WF_vars(BridgeLoop)
  /\ WF_vars(ApiReceipt \/ \E s \in {"MQTT", "API"} : SinkUp(s))

FairSpec == Spec /\ Fairness

Values == 0 .. MaxValue

TypeOK ==
  /\ PairTypeOK
  /\ rVal \in [Entities -> Values] /\ rDirty \subseteq Entities
  /\ rPend \in [on : BOOLEAN, entity : Entities \cup {0}, value : Values, base : Nat,
                retry : 0 .. StateRetries]
  /\ bTable \in TableType(Values) /\ bLast \in Nat
  /\ shown \in [Entities -> Values]
  /\ mqtt \in [Entities -> [value : Values, dirty : BOOLEAN, ack : Nat]]
  /\ seen \in [{"MQTT", "API"} -> [Entities -> Values]]

-----------------------------------------------------------------------------
\* What the mirror promises: no view of an entity goes back to an older value,
\* whatever is lost, repeated, retried or restarted, except that a restarted
\* bridge has no value until it gets one.
Mirror == INSTANCE ValueMirror WITH value <- rVal,
            view <- [s \in {"BRIDGE", "MQTT", "API"} |-> IF s = "BRIDGE" THEN shown ELSE seen[s]]

MirrorSpec == Mirror!Spec

\* As long as MQTT stays connected, an ack that makes the leaf stop waiting means
\* that the value it sent, or a newer one, was given to MQTT: no retry, rejoin or
\* restart makes an ack stand for another message.
AckMeansDelivered ==
  [][\A e \in Entities :
       rPend.on /\ rPend.entity = e /\ e \in rDirty /\ e \notin rDirty' /\ outages = 0 /\ ~rPend'.on
         => seen["MQTT"][e] >= rPend.value]_vars

\* Every view of an entity catches up with its value once it stops changing, when
\* it does not change while its push waits for the ack.
MirrorCatchesUp ==
  <>[](sc.around = {} => \A e \in sc.entities : shown[e] = rVal[e] /\ seen["MQTT"][e] = rVal[e])

-----------------------------------------------------------------------------
\* Not true of the code, although a document, a comment or the design says so: section 4
\* of README.md tells what happens instead.

\* The reserved bytes are those of the assemblies in the table.
ReservedIsHeld ==
  LET held == {p \in Entities \X (1 .. MaxAssembly) :
                 bTable.asm[p[1]] # NoEntry /\ p[2] <= bTable.asm[p[1]].count}
  IN bTable.reserved = Cardinality(held)
=============================================================================
