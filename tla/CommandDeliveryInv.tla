------------------------- MODULE CommandDeliveryInv -------------------------
(***************************************************************************)
(* The inductive invariant behind the safety properties of CommandDelivery. *)
(*                                                                         *)
(* A claim <<base, command>> says that frames numbered from base are       *)
(* fragments of that command: a frame on its way to the leaf makes one, so *)
(* does a fragment the leaf keeps, and so does an entry of the bridge's    *)
(* queue, whose frames may be sent again.                                  *)
(***************************************************************************)
EXTENDS CommandDelivery

\* The frames of the bridge and of the leaf.
CommandFrames ==
  [kind : {"COMMAND"}, key : Nat, tx : Nat,
   body : [entity : Entities, index : Nat, count : Nat, msg : Commands]]
ConfigFrames == [kind : {"CONFIG"}, key : Nat, tx : Nat, body : [cfg : Configs]]
DeauthFrames == [kind : {"DEAUTH"}, key : Nat, tx : Nat, body : {Nothing}]
DownFrames == CommandFrames \cup ConfigFrames \cup DeauthFrames

Results == {"OK", "BUSY", "INVALID", "UNSUPPORTED"}

AckFrames ==
  [kind : {"ACK"}, key : Nat, tx : Nat,
   body : [of : {"COMMAND", "CONFIG"}, result : Results, ref : Nat]]
BeatFrames == [kind : {"HEARTBEAT"}, key : Nat, tx : Nat, body : {Nothing}]
UpFrames == AckFrames \cup BeatFrames

\* An entry of the leaf's table: its parts are pairs of a fragment's index and command.
Assemblies ==
  [active : BOOLEAN, base : Nat, count : Nat, parts : SUBSET (Nat \X Commands), flag : BOOLEAN]

Tables == [asm : [Entities -> {NoEntry} \cup Assemblies], reserved : Nat]

\* The type invariant, without the configs, whose queue has its own invariant below.
Typed ==
  /\ hits \in [sc : DOMAIN Scenarios, loss : Nat, dup : Nat, forgot : BOOLEAN]
  /\ bKey \in Nat /\ rKey \in Nat /\ keys \in Nat
  /\ bTx \in Nat \ {0} /\ rTx \in Nat
  /\ down \in Seq(DownFrames) /\ Len(down) <= sc.cap
  /\ up \in Seq(UpFrames)
  /\ cmdQ \in Seq([cmd : Commands, base : Nat, retry : Nat])
  /\ issued \in Seq(Commands \cup Configs)
  /\ acked \subseteq Commands
  /\ rDone \in [Entities -> Nat]
  /\ rTable \in Tables
  /\ rLast \in [valid : BOOLEAN, tx : Nat, result : Results]
  /\ boots \in Nat
  /\ applied \in Seq([boot : Nat, entity : Entities, payload : SUBSET Commands])

-----------------------------------------------------------------------------
\* Where commands are: in flight, in the bridge's queue, applied by the leaf.
CmdAt == {i \in 1 .. Len(down) : down[i].kind = "COMMAND"}
QueueAt == 1 .. Len(cmdQ)
AppliedAt == 1 .. Len(applied)

\* The counter of a command's first fragment, as the leaf computes it.
BaseOf(frame) == frame.tx - frame.body.index

\* The entities whose command the leaf is putting together.
Assembling == {e \in Entities : rTable.asm[e] # NoEntry /\ rTable.asm[e].active}

\* The claims that frames, kept fragments and the queue make. Those of the first two
\* may outlive the queue's.
FrameClaims == {<<BaseOf(down[i]), down[i].body.msg>> : i \in CmdAt}
KeptClaims == UNION {{<<rTable.asm[e].base, p[2]>> : p \in rTable.asm[e].parts} : e \in Assembling}
QueueClaims == {<<cmdQ[i].base, cmdQ[i].cmd>> : i \in QueueAt}

Air == FrameClaims \cup KeptClaims
Claims == Air \cup QueueClaims

\* A refused command was not issued, though its first fragments may have been sent.
WasIssued(c) == c \in Queued(issued)
WasApplied(c) == \E i \in AppliedAt : applied[i].payload = {c}

\* A fragment is what SendCommand made it; only a command that was sent whole has
\* a last fragment.
IsFragment(e, index, count, c) ==
  /\ e = Target[c] /\ count = Frags[c] /\ index < count
  /\ index = count - 1 => WasIssued(c)

FragmentsSound ==
  /\ \A i \in CmdAt : IsFragment(down[i].body.entity, down[i].body.index, down[i].body.count, down[i].body.msg)
  /\ \A e \in Assembling : \A p \in rTable.asm[e].parts : IsFragment(e, p[1], rTable.asm[e].count, p[2])

\* Counters are given out once, in the order of the commands.
ClaimsOrdered ==
  /\ \A x \in Claims : x[1] \in 1 .. CounterSpan \div 2 /\ (WasIssued(x[2]) \/ x[2] \in refused)
  /\ \A x \in QueueClaims : WasIssued(x[2])
  /\ bKey # 0 => \A x \in Claims : x[1] < bTx
  /\ bKey = 0 => cmdQ = << >>
  /\ \A x, y \in Claims :
       /\ x[1] = y[1] => x[2] = y[2]
       /\ x[1] < y[1] /\ WasIssued(x[2]) /\ WasIssued(y[2]) => IssuedBefore(x[2], y[2])

\* What the leaf would still take was issued after what it applied.
OrderKept ==
  /\ \A e \in Entities : rDone[e] <= CounterSpan \div 2
  /\ \A i \in AppliedAt :
       /\ applied[i].boot <= boots
       /\ \E c \in Commands : WasIssued(c) /\ applied[i].payload = {c}
  /\ \A i \in AppliedAt, x \in Claims :
       applied[i].boot = boots /\ Target[x[2]] = applied[i].entity
         /\ x[1] > rDone[applied[i].entity] /\ WasIssued(x[2]) =>
           \A d \in applied[i].payload : IssuedBefore(d, x[2])
  /\ \A i, j \in AppliedAt :
       i < j /\ applied[i].boot = applied[j].boot /\ applied[i].entity = applied[j].entity =>
         \A c \in applied[i].payload, d \in applied[j].payload : IssuedBefore(c, d)

\* An ack that would take a command out of the queue is the ack of that command.
AcksTrue ==
  /\ \A x \in Claims : x[1] < bTx /\ (x[1] = rDone[Target[x[2]]] => WasApplied(x[2]))
  /\ \A e \in Entities : rDone[e] < bTx
  /\ \A i \in 1 .. Len(up) :
       up[i].kind = "ACK" /\ up[i].body.of = "COMMAND" /\ up[i].body.result = "OK" =>
         /\ up[i].body.ref < bTx
         /\ \A x \in QueueClaims : x[1] = up[i].body.ref => WasApplied(x[2])
  /\ \A c \in acked : WasApplied(c)

\* The parts, each under the condition its property is stated with.
CommandInv ==
  /\ Typed
  /\ rKey = 0 => rTable = EmptyTable
  /\ NotEvicted => FragmentsSound /\ ClaimsOrdered /\ OrderKept
  /\ ~hits.forgot => AcksTrue

\* A config is pending once and not answered, or was answered once, or neither; the
\* counters of those pending are among Bases.
ConfigInv(Bases) ==
  /\ cfgQ \in Seq([cfg : Configs, base : Bases, retry : Nat])
  /\ answers = [f \in Configs |-> answers[f]]
  /\ \A i, j \in 1 .. Len(cfgQ) : cfgQ[i].cfg = cfgQ[j].cfg => i = j
  /\ \A i \in 1 .. Len(cfgQ) : answers[cfgQ[i].cfg] = << >>
  /\ \A f \in Configs : answers[f] = << >> \/ Len(answers[f]) = 1

\* The counters of the bridge do not wrap: a session has fewer than 2^31 frames.
CountersLow == bTx <= CounterSpan \div 2
=============================================================================
