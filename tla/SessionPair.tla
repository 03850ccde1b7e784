----------------------------- MODULE SessionPair -----------------------------
(***************************************************************************)
(* The session between the bridge and one leaf, as the traffic inside it   *)
(* sees it: a key on each side, the frame counters with the last counter   *)
(* seen, the bridge's view of the leaf, and the radio path.  The exchange  *)
(* that makes a key is one step here (Rejoin); module JoinSession takes it *)
(* apart.                                                                  *)
(*                                                                         *)
(* The path is FIFO in each direction, except that a frame may be lost, or *)
(* arrive again behind the frames that were in flight with it.             *)
(*                                                                         *)
(* The frames of a leaf that were sent before its JOIN arrive              *)
(* before it, those sent to it before the JOIN_ACK arrive while it is not  *)
(* joined: Rejoin waits for the path to be empty.                          *)
(***************************************************************************)
EXTENDS FragmentAssembly, Sequences

CONSTANT Scenarios    \* a list of what is explored; each behaviour has one of them

AllFaults == {"bridge restart", "evict", "remote restart", "give up", "recovery",
              "offline", "early"}

PairScenario(s) ==
  /\ s.cap \in Nat \ {0}         \* frames the path holds in one direction; a send beyond it fails
  /\ s.loss \in Nat              \* bound: frames lost
  /\ s.dup \in Nat               \* bound: frames that arrive twice
  /\ s.sessions \in Nat \ {0}    \* bound: session keys made
  /\ s.beats \in Nat             \* bound: heartbeats on the leaf's timer and route recoveries
  /\ s.faults \subseteq AllFaults \* what may happen to the session

ASSUME PairAssumption == \A x \in DOMAIN Scenarios : PairScenario(Scenarios[x])

VARIABLES
  bKey,      \* session_key, 0 without a session or with session_key_valid = false
  bOnline,   \* online
  bNormal,   \* remote_state = NORMAL
  bTx,       \* tx_counter of the bridge's session
  bSeen,     \* last_seen_counter of the bridge's session
  rKey,      \* session_key_ of the leaf, 0 while not joined_
  rNormal,   \* normal_
  rTx,       \* tx_counter_ of the leaf
  rSeen,     \* last_seen_counter_ of the leaf
  keys,      \* session keys made so far
  beats,     \* timed heartbeats and route recoveries so far
  down, up,  \* frames in flight to the leaf and to the bridge, oldest first
  hits       \* the scenario; losses, repetitions and forgotten sessions so far

bSession == <<bKey, bOnline, bNormal, bTx, bSeen>>
rSession == <<rKey, rNormal, rTx, rSeen>>
path == <<down, up, hits>>
pairVars == <<bSession, rSession, keys, beats, path>>

sc == Scenarios[hits.sc]

Frame(kind, key, tx, body) == [kind |-> kind, key |-> key, tx |-> tx, body |-> body]
Nothing == [none |-> TRUE]

Room(q) == Len(q) < sc.cap
Put(q, frame) == IF Room(q) THEN Append(q, frame) ELSE q

DownIs(kind) == down # << >> /\ Head(down).kind = kind
UpIs(kind)   == up # << >> /\ Head(up).kind = kind

PairInit ==
  /\ bKey = 0 /\ bOnline = FALSE /\ bNormal = FALSE /\ bTx = 1 /\ bSeen = 0
  /\ rKey = 0 /\ rNormal = FALSE /\ rTx = 1 /\ rSeen = 0
  /\ keys = 0 /\ beats = 0
  /\ down = << >> /\ up = << >>
  /\ \E x \in DOMAIN Scenarios : hits = [sc |-> x, loss |-> 0, dup |-> 0, forgot |-> FALSE]

-----------------------------------------------------------------------------
\* A frame the bridge accepts in the session: its tag verifies under the key and
\* its counter is newer.
InSession(frame) == frame.key = bKey /\ CounterIsNewer(frame.tx, bSeen)

\* on_espnow_frame without a session or a key: the leaf is told to rejoin.
RejectUnknown ==
  /\ up # << >> /\ bKey = 0
  /\ up' = Tail(up)
  /\ down' = Put(down, Frame("DEAUTH", 0, 1, Nothing))
  /\ UNCHANGED <<bSession, rSession, keys, beats, hits>>

\* mark_online_ when an ACK or a STATE comes from a leaf in NORMAL.
BackOnline == bOnline' = (bOnline \/ bNormal)

\* handle_heartbeat_: a leaf that is not in NORMAL becomes so, and online.
HandleHeartbeat ==
  /\ UpIs("HEARTBEAT") /\ bKey # 0
  /\ up' = Tail(up)
  /\ IF InSession(Head(up))
       THEN /\ bSeen' = Head(up).tx
            /\ bNormal' = TRUE
            /\ bOnline' = (bOnline \/ ~bNormal)
       ELSE UNCHANGED <<bSeen, bNormal, bOnline>>
  /\ UNCHANGED <<bKey, bTx, rSession, keys, beats, down, hits>>

\* send_heartbeat_ on its timer.
SendHeartbeat ==
  /\ rKey # 0 /\ rNormal /\ beats < sc.beats
  /\ beats' = beats + 1
  /\ up' = Put(up, Frame("HEARTBEAT", rKey, rTx, Nothing))
  /\ rTx' = rTx + 1
  /\ UNCHANGED <<bSession, rKey, rNormal, rSeen, keys, down, hits>>

\* The bridge heard nothing for the leaf's contact interval; the key stays.
OfflineTimeout ==
  /\ "offline" \in sc.faults /\ bOnline
  /\ bOnline' = FALSE /\ bNormal' = FALSE
  /\ UNCHANGED <<bKey, bTx, bSeen, rSession, keys, beats, path>>

\* The leaf's part of clear_session_state_ that the session holds.
LeaveSession == rKey' = 0 /\ rNormal' = FALSE /\ rSeen' = 0

\* A JOIN and its JOIN_ACK: both sides derive the same new key.  The bridge
\* takes the JOIN's counter as the last one seen, the leaf the JOIN_ACK's, and
\* neither restarts its own.
JoinKeys ==
  /\ rKey = 0 /\ down = << >> /\ up = << >> /\ keys < sc.sessions
  /\ keys' = keys + 1
  /\ bKey' = keys + 1 /\ rKey' = keys + 1
  /\ bSeen' = rTx /\ rSeen' = bTx
  /\ bTx' = bTx + 1
  /\ bNormal' = FALSE

\* The join ends with JOIN_ACK(COMPLETE), which the leaf answers with a
\* heartbeat.
Rejoin ==
  /\ JoinKeys
  /\ rNormal' = TRUE
  /\ rTx' = rTx + 2
  /\ up' = << Frame("HEARTBEAT", keys + 1, rTx + 1, Nothing) >>
  /\ UNCHANGED <<bOnline, beats, down, hits>>

\* The bridge forgets the session: a restart loses its queues too, the eviction
\* of a session under memory pressure does not (evict_sessions_for_ram_).
ForgetSession ==
  /\ bKey' = 0 /\ bOnline' = FALSE /\ bNormal' = FALSE /\ bTx' = 1 /\ bSeen' = 0
  /\ hits' = [hits EXCEPT !.forgot = TRUE]
  /\ UNCHANGED <<rSession, keys, beats, down, up>>

LoseDown ==
  /\ down # << >> /\ hits.loss < sc.loss
  /\ down' = Tail(down)
  /\ hits' = [hits EXCEPT !.loss = @ + 1]
  /\ UNCHANGED <<bSession, rSession, keys, beats, up>>

LoseUp ==
  /\ up # << >> /\ hits.loss < sc.loss
  /\ up' = Tail(up)
  /\ hits' = [hits EXCEPT !.loss = @ + 1]
  /\ UNCHANGED <<bSession, rSession, keys, beats, down>>

RepeatDown ==
  /\ down # << >> /\ Room(down) /\ hits.dup < sc.dup
  /\ down' = Append(down, Head(down))
  /\ hits' = [hits EXCEPT !.dup = @ + 1]
  /\ UNCHANGED <<bSession, rSession, keys, beats, up>>

RepeatUp ==
  /\ up # << >> /\ Room(up) /\ hits.dup < sc.dup
  /\ up' = Append(up, Head(up))
  /\ hits' = [hits EXCEPT !.dup = @ + 1]
  /\ UNCHANGED <<bSession, rSession, keys, beats, down>>

Radio == LoseDown \/ LoseUp \/ RepeatDown \/ RepeatUp

\* Steps of the session that touch nothing but the session.
SessionSteps == RejectUnknown \/ HandleHeartbeat \/ SendHeartbeat \/ OfflineTimeout \/ Radio

PairTypeOK ==
  /\ bKey \in 0 .. sc.sessions /\ rKey \in 0 .. sc.sessions /\ keys \in 0 .. sc.sessions
  /\ bOnline \in BOOLEAN /\ bNormal \in BOOLEAN /\ rNormal \in BOOLEAN
  /\ bTx \in Nat /\ bSeen \in Nat /\ rTx \in Nat /\ rSeen \in Nat
  /\ beats \in 0 .. sc.beats
  /\ Len(down) <= sc.cap /\ Len(up) <= sc.cap
  /\ hits \in [sc : DOMAIN Scenarios, loss : 0 .. sc.loss, dup : 0 .. sc.dup, forgot : BOOLEAN]
=============================================================================
