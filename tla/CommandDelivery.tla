--------------------------- MODULE CommandDelivery ---------------------------
(***************************************************************************)
(* Commands and configuration from the bridge to one leaf over a session   *)
(* that may break, and what the two ends may believe about them.           *)
(***************************************************************************)
EXTENDS RemoteCommands

vars == <<pairVars, bQueues, rCommands>>

Init == PairInit /\ BridgeCommandsInit /\ RemoteCommandsInit

Next ==
  \/ (SessionSteps \/ Rejoin) /\ UNCHANGED <<bQueues, rCommands>>
  \/ BridgeCommandSteps /\ UNCHANGED rCommands
  \/ RemoteCommandSteps

Spec == Init /\ [][Next]_vars

BridgeLoop ==
  \/ (RejectUnknown \/ HandleHeartbeat \/ Rejoin) /\ UNCHANGED <<bQueues, rCommands>>
  \/ (\/ HandleAck
      \/ \E i \in 1 .. Len(cmdQ) : RetryCommand(i) \/ CommandTimeout(i)
      \/ \E i \in 1 .. Len(cfgQ) : ServeConfig(i)) /\ UNCHANGED rCommands

LeafLoop == HandleCommand \/ HandleConfig \/ HandleDeauth \/ RouteResumed

\* Both main loops keep running: queued frames are handled, due timers served,
\* and a leaf without a session keeps asking for one.
Fairness == WF_vars(BridgeLoop) /\ WF_vars(LeafLoop)

FairSpec == Spec /\ Fairness

TypeOK == PairTypeOK /\ BridgeCommandsTypeOK /\ RemoteCommandsTypeOK

-----------------------------------------------------------------------------
\* c was issued before d.
IssuedBefore(c, d) ==
  \E i, j \in 1 .. Len(issued) : i < j /\ issued[i] = c /\ issued[j] = d

\* The bridge has not forgotten a session and kept its queue, whose counters would
\* meet those of the next session (section 4 of README.md).
NotEvicted == "evict" \in sc.faults => ~hits.forgot

\* A payload handed to command_fn_ is one command, reassembled from fragments of
\* that command only, whatever was lost, repeated or cut short before.
PayloadsNotMixed ==
  NotEvicted => \A i \in 1 .. Len(applied) : \E c \in Commands : applied[i].payload = {c}

\* The commands of one entity are applied at most once and in the order they
\* were issued: a retry that arrives after a later command is not carried out.
\* A restart of the leaf forgets what was applied, so this is per boot.
AppliedInOrder ==
  NotEvicted =>
    \A i, j \in 1 .. Len(applied) :
      i < j /\ applied[i].boot = applied[j].boot /\ applied[i].entity = applied[j].entity =>
        \A c \in applied[i].payload, d \in applied[j].payload : IssuedBefore(c, d)

\* A command leaves the queue on its ack only when the leaf has applied it, as long
\* as the bridge has not lost the session and begun to count from 1 again.
AckedWasApplied ==
  ~hits.forgot => \A c \in acked : \E i \in 1 .. Len(applied) : applied[i].payload = {c}

\* Every config that was accepted is either still pending, once, or has been
\* answered, once: its callback is made exactly one time.
ConfigAnsweredOnce ==
  \A f \in Configs :
    Cardinality({i \in 1 .. Len(cfgQ) : cfgQ[i].cfg = f}) + Len(answers[f]) <= 1

\* Every accepted config is answered in the end, whatever happens to the session,
\* unless the bridge restarts.
ConfigIsAnswered ==
  <>[](\A f \in Configs \cap Queued(issued) : answers[f] # << >> \/ "bridge restart" \in sc.faults)

\* Command c was applied, or a later one for the same entity.
TookEffect(c) ==
  \E i \in 1 .. Len(applied) :
    /\ applied[i].entity = Target[c]
    /\ \A d \in applied[i].payload : d = c \/ IssuedBefore(c, d)

\* With fewer losses than retries and a session that holds, every command for an
\* entity of the leaf is applied in the end or overtaken by a later one for the
\* same entity, unless the radio took only a part of a command.
CommandTakesEffect ==
  <>[](sc.faults = {} /\ sc.loss < sc.retries /\ refused = {} =>
         \A c \in Commands \cap Queued(issued) : Target[c] \in Known => TookEffect(c))

-----------------------------------------------------------------------------
\* Not true of the code, although a document, a comment or the design says so: section 4
\* of README.md tells what happens instead.

\* The callback reports OK only for a config the leaf carries out.
ConfigOkWasDone ==
  \A f \in Configs : answers[f] = <<"OK">> => f \in configured

\* A config fails with a timeout only when the radio lost something each time it
\* was sent: its frame or the ack.
TimeoutMeansLoss ==
  \A f \in Configs : answers[f] = <<"timed out">> => hits.loss > ConfigRetries
=============================================================================
