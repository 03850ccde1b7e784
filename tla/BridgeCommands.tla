--------------------------- MODULE BridgeCommands ---------------------------
(***************************************************************************)
(* The bridge's command queue and config queue (bridge_protocol.cpp):      *)
(* what it sends to a leaf on behalf of Home Assistant, the retries in     *)
(* loop() and the acks that end them.                                      *)
(***************************************************************************)
EXTENDS SessionPair

CONSTANTS
  Commands,        \* entity commands Home Assistant issues, each at most once
  Target,          \* Target[c]: the entity c is for
  Frags,           \* Frags[c]: fragments c is cut into
  Configs,         \* configuration commands, each at most once
  Kind,            \* Kind[f]: what f asks for, see RemoteCommands
  ConfigRetries    \* CONFIG_MAX_RETRIES

ASSUME CommandAssumption ==
  /\ Target \in [Commands -> Entities]
  /\ Frags \in [Commands -> 1 .. MaxAssembly]
  /\ ConfigRetries \in Nat
  /\ \A x \in DOMAIN Scenarios :
       /\ Scenarios[x].asks \subseteq Commands \cup Configs   \* what is asked for
       /\ Scenarios[x].retries \in Nat                       \* COMMAND_MAX_RETRIES

VARIABLES
  cmdQ,      \* command_queue_: [cmd, base, retry]
  cfgQ,      \* pending_configs_: [cfg, base, retry]
  issued,    \* history: commands and configs in the order they were queued
  refused,   \* history: commands and configs whose send returned false
  acked,     \* history: commands erased because of their ack
  answers    \* history: the callbacks made for each config

bQueues == <<cmdQ, cfgQ, issued, refused, acked, answers>>

BridgeCommandsInit ==
  /\ cmdQ = << >> /\ cfgQ = << >>
  /\ issued = << >> /\ refused = {} /\ acked = {}
  /\ answers = [f \in Configs |-> << >>]

Queued(q) == {q[i] : i \in 1 .. Len(q)}
\* Mutant: the entry is not erased.
NotErased(q, i) == q

Without(q, i) == SubSeq(q, 1, i - 1) \o SubSeq(q, i + 1, Len(q))

Active == bKey # 0 /\ bOnline

\* A timer that waits for an answer expires once the answer cannot come any more:
\* the retry intervals (200 ms and more) are long against the path.
Due == "early" \in sc.faults \/ (down = << >> /\ up = << >>)

-----------------------------------------------------------------------------
\* send_command_fragments_: fragment i is sent with counter base + i.
Fragments(c, base) ==
  [i \in 1 .. Frags[c] |->
     Frame("COMMAND", bKey, base + i - 1,
           [entity |-> Target[c], index |-> i - 1, count |-> Frags[c], msg |-> c])]

\* It stops at the first fragment the radio does not take.
SentOf(c, q) == IF Len(q) + Frags[c] <= sc.cap THEN Frags[c] ELSE sc.cap - Len(q)

PutFragments(c, base) == down \o SubSeq(Fragments(c, base), 1, SentOf(c, down))

\* send_command_to_leaf: every fragment consumes a counter, the one that fails
\* included; the command is queued when all were sent.
SendCommand(c) ==
  /\ c \in sc.asks /\ c \notin refused /\ c \notin Queued(issued)
  /\ Active
  /\ down' = PutFragments(c, bTx)
  /\ IF SentOf(c, down) = Frags[c]
       THEN /\ bTx' = bTx + Frags[c]
            /\ cmdQ' = Append(cmdQ, [cmd |-> c, base |-> bTx, retry |-> 0])
            /\ issued' = Append(issued, c)
            /\ UNCHANGED refused
       ELSE /\ bTx' = bTx + SentOf(c, down) + 1
            /\ refused' = refused \cup {c}
            /\ UNCHANGED <<cmdQ, issued>>
  /\ UNCHANGED <<bKey, bOnline, bNormal, bSeen, rSession, keys, beats, up, hits,
                 cfgQ, acked, answers>>

\* loop(): a command that is due is sent again under its old counters, or
\* dropped without a word when the session is gone.
RetryCommand(i) ==
  /\ cmdQ[i].retry < sc.retries /\ Due
  /\ IF Active
       THEN /\ down' = PutFragments(cmdQ[i].cmd, cmdQ[i].base)
            /\ cmdQ' = [cmdQ EXCEPT ![i].retry = @ + 1]
       ELSE /\ cmdQ' = Without(cmdQ, i)
            /\ UNCHANGED down
  /\ UNCHANGED <<bSession, rSession, keys, beats, up, hits, cfgQ, issued, refused, acked, answers>>

\* loop(): the round after the last retry gives up at once and marks the leaf
\* offline; remote_state stays.
CommandTimeout(i) ==
  /\ cmdQ[i].retry >= sc.retries
  /\ cmdQ' = Without(cmdQ, i)
  /\ bOnline' = FALSE
  /\ UNCHANGED <<bKey, bNormal, bTx, bSeen, rSession, keys, beats, path,
                 cfgQ, issued, refused, acked, answers>>

-----------------------------------------------------------------------------
ConfigFrame(f, base) == Frame("CONFIG", bKey, base, [cfg |-> f])

\* send_config_to_leaf: the counter is consumed in any case; a config the radio
\* does not take is not queued and has no callback.
SendConfig(f) ==
  /\ f \in sc.asks /\ f \notin refused /\ answers[f] = << >> /\ \A p \in Queued(cfgQ) : p.cfg # f
  /\ Active
  /\ bTx' = bTx + 1
  /\ down' = Put(down, ConfigFrame(f, bTx))
  /\ IF Room(down)
       THEN /\ cfgQ' = Append(cfgQ, [cfg |-> f, base |-> bTx, retry |-> 0])
            /\ issued' = Append(issued, f)
            /\ UNCHANGED refused
       ELSE refused' = refused \cup {f} /\ UNCHANGED <<cfgQ, issued>>
  /\ UNCHANGED <<bKey, bOnline, bNormal, bSeen, rSession, keys, beats, up, hits,
                 cmdQ, acked, answers>>

\* Mutant: the callback is not made.
AnswerQuietly(i, result) == cfgQ' = Without(cfgQ, i) /\ UNCHANGED answers

Answer(i, result) ==
  /\ cfgQ' = Without(cfgQ, i)
  /\ answers' = [answers EXCEPT ![cfgQ[i].cfg] = Append(@, result)]

\* loop(), the config that is due: given up, without a session, or sent again.
ServeConfig(i) ==
  /\ Due
  /\ \/ /\ cfgQ[i].retry >= ConfigRetries
        /\ Answer(i, "timed out")
        /\ UNCHANGED down
     \/ /\ cfgQ[i].retry < ConfigRetries /\ ~Active
        /\ Answer(i, "no session")
        /\ UNCHANGED down
     \/ /\ cfgQ[i].retry < ConfigRetries /\ Active
        /\ cfgQ' = [cfgQ EXCEPT ![i].retry = @ + 1]
        /\ down' = Put(down, ConfigFrame(cfgQ[i].cfg, cfgQ[i].base))
        /\ UNCHANGED answers
  /\ UNCHANGED <<bSession, rSession, keys, beats, up, hits, cmdQ, issued, refused, acked>>

-----------------------------------------------------------------------------
\* Mutant: ref_tx_counter is not compared.
MatchesAny(q, ref) == 1 .. Len(q)

Matches(q, ref) == {i \in 1 .. Len(q) : q[i].base = ref}

\* handle_ack_ for an ACK_COMMAND: result 0 erases the first command with that base.
CommandAck(ack) ==
  /\ LET hit == Matches(cmdQ, ack.ref) IN
     IF ack.result = "OK" /\ hit # {}
       THEN LET i == CHOOSE i \in hit : \A j \in hit : i <= j IN
            /\ cmdQ' = Without(cmdQ, i)
            /\ acked' = acked \cup {cmdQ[i].cmd}
       ELSE UNCHANGED <<cmdQ, acked>>
  /\ BackOnline
  /\ UNCHANGED <<cfgQ, answers>>

\* handle_ack_ for a CONFIG ack; one that matches nothing is only logged.
ConfigAck(ack) ==
  /\ LET hit == Matches(cfgQ, ack.ref) IN
     IF hit # {}
       THEN LET i == CHOOSE i \in hit : \A j \in hit : i <= j IN
            /\ Answer(i, ack.result)
            /\ BackOnline
       ELSE UNCHANGED <<cfgQ, answers, bOnline>>
  /\ UNCHANGED <<cmdQ, acked>>

HandleAck ==
  /\ UpIs("ACK") /\ bKey # 0
  /\ up' = Tail(up)
  /\ IF InSession(Head(up))
       THEN /\ bSeen' = Head(up).tx
            /\ \/ Head(up).body.of = "COMMAND" /\ CommandAck(Head(up).body)
               \/ Head(up).body.of = "CONFIG" /\ ConfigAck(Head(up).body)
       ELSE UNCHANGED <<bSeen, bOnline, cmdQ, cfgQ, acked, answers>>
  /\ UNCHANGED <<bKey, bNormal, bTx, rSession, keys, beats, down, hits, issued, refused>>

\* The bridge restarts: its queues are gone, and with them the callbacks.
BridgeRestart ==
  /\ "bridge restart" \in sc.faults /\ keys < sc.sessions
  /\ ForgetSession
  /\ cmdQ' = << >> /\ cfgQ' = << >>
  /\ UNCHANGED <<issued, refused, acked, answers>>

\* evict_sessions_for_ram_, invalidate_all_sessions: the queues stay.
EvictSession ==
  /\ "evict" \in sc.faults /\ bKey # 0 /\ keys < sc.sessions
  /\ ForgetSession
  /\ UNCHANGED bQueues

BridgeCommandSteps ==
  \/ \E c \in Commands : SendCommand(c)
  \/ \E f \in Configs : SendConfig(f)
  \/ \E i \in 1 .. Len(cmdQ) : RetryCommand(i) \/ CommandTimeout(i)
  \/ \E i \in 1 .. Len(cfgQ) : ServeConfig(i)
  \/ HandleAck
  \/ BridgeRestart \/ EvictSession

BridgeCommandsTypeOK ==
  /\ Queued(cmdQ) \subseteq [cmd : Commands, base : Nat, retry : 0 .. sc.retries]
  /\ Queued(cfgQ) \subseteq [cfg : Configs, base : Nat, retry : 0 .. ConfigRetries]
  /\ Queued(issued) \subseteq Commands \cup Configs /\ acked \subseteq Commands
  /\ refused \subseteq Commands \cup Configs
=============================================================================
