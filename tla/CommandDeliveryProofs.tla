----------------------- MODULE CommandDeliveryProofs ------------------------
(***************************************************************************)
(* Every step of the bridge keeps CommandInv, which is therefore           *)
(* inductive, and the theorems that payloads are whole, commands are       *)
(* applied in order, acks are true and configs are answered once in every  *)
(* reachable state of CommandDelivery.                                     *)
(***************************************************************************)
EXTENDS CommandLeafProofs

-----------------------------------------------------------------------------
(* Steps of the bridge.                                                     *)

\* A function on an initial segment is a sequence.
LEMMA FunctionIsSequence ==
  ASSUME NEW S, NEW n \in Nat, NEW f \in [1 .. n -> S]
  PROVE  f \in Seq(S) /\ Len(f) = n
OBVIOUS

\* The fragments of a command, as far as the radio takes them.
LEMMA FragmentsPut ==
  ASSUME Typed, NEW c \in Commands, NEW base \in Nat, down' = PutFragments(c, base)
  PROVE  /\ down' \in Seq(DownFrames) /\ Len(down') <= sc.cap
         /\ SentOf(c, down) \in 0 .. Frags[c]
         /\ \A i \in CmdAt' :
              \/ i \in CmdAt /\ down'[i] = down[i]
              \/ FragmentOf(down'[i], c, base) /\ down'[i].body.index < SentOf(c, down)
<1> DEFINE n == SentOf(c, down)
           fr == Fragments(c, base)
           s == SubSeq(fr, 1, n)
<1>1. down \in Seq(DownFrames) /\ Len(down) \in Nat /\ Len(down) <= sc.cap /\ bKey \in Nat
  BY DEF Typed
<1>2. sc.cap \in Nat
  BY PairAssumption, Zenon DEF PairScenario, Typed, sc
<1>3. Frags[c] \in Nat \ {0} /\ Target[c] \in Entities
  BY CommandAssumption, AssemblyAssumption
<1>4. n \in 0 .. Frags[c] /\ Len(down) + n <= sc.cap
  BY <1>1, <1>2, <1>3, SMTT(30) DEF SentOf
<1>5. ASSUME NEW i \in 1 .. Frags[c]
      PROVE  fr[i] = Frame("COMMAND", bKey, base + i - 1,
                           [entity |-> Target[c], index |-> i - 1, count |-> Frags[c], msg |-> c])
  BY Zenon DEF Fragments
<1> HIDE DEF fr
<1>6. ASSUME NEW i \in 1 .. Frags[c]
      PROVE  fr[i] \in DownFrames /\ FragmentOf(fr[i], c, base) /\ fr[i].body.index = i - 1
  <2>1. base + i - 1 \in Nat /\ i - 1 \in Nat /\ i - 1 < Frags[c] /\ (base + i - 1) - (i - 1) = base
    BY <1>3
  <2> DEFINE body == [entity |-> Target[c], index |-> i - 1, count |-> Frags[c], msg |-> c]
  <2>2. /\ body \in [entity : Entities, index : Nat, count : Nat, msg : Commands]
        /\ body.entity = Target[c] /\ body.index = i - 1 /\ body.count = Frags[c] /\ body.msg = c
    BY ZenonT(30), <1>3, <2>1
  <2>3. fr[i] = Frame("COMMAND", bKey, base + i - 1, body)
    BY ZenonT(30), <1>5
  <2> HIDE DEF body
  <2>4. fr[i] \in CommandFrames /\ fr[i].tx = base + i - 1 /\ fr[i].body = body
    BY <1>1, <2>1, <2>2, <2>3 DEF CommandFrames, Frame
  <2> QED
    BY <2>1, <2>2, <2>4, ZenonT(30) DEF FragmentOf, BaseOf, DownFrames
<1>7. fr \in Seq(DownFrames) /\ Len(fr) = Frags[c]
  <2>1. DOMAIN fr = 1 .. Frags[c] /\ fr = [i \in 1 .. Frags[c] |-> fr[i]]
    BY Zenon DEF Fragments, fr
  <2>2. fr \in [1 .. Frags[c] -> DownFrames]
    BY Zenon, <2>1, <1>6
  <2> QED
    BY Zenon, <1>3, <2>2, FunctionIsSequence
<1>8. \A i \in 1 .. Frags[c] : FragmentOf(fr[i], c, base) /\ fr[i].body.index = i - 1
  BY Zenon, <1>6
<1> HIDE DEF n
<1>9. s \in Seq(DownFrames) /\ Len(s) = n /\ \A i \in 1 .. n : s[i] = fr[i]
  BY <1>4, <1>7
<1>10. down' = down \o s
  BY Zenon DEF PutFragments, s, fr, n
<1> HIDE DEF s
<1>11. /\ down' \in Seq(DownFrames)
       /\ Len(down') = Len(down) + Len(s)
       /\ \A i \in 1 .. Len(down) + Len(s) : down'[i] = IF i <= Len(down) THEN down[i] ELSE s[i - Len(down)]
  BY ONLY ZenonT(30), <1>1, <1>9, <1>10, ConcatElements
<1>12. ASSUME NEW i \in CmdAt'
       PROVE  \/ i \in CmdAt /\ down'[i] = down[i]
              \/ FragmentOf(down'[i], c, base) /\ down'[i].body.index < n
  <2>1. i \in 1 .. Len(down) + n /\ down'[i].kind = "COMMAND"
    BY <1>9, <1>11, ZenonT(30) DEF CmdAt
  <2>2. CASE i <= Len(down)
    BY <1>1, <1>9, <1>11, <2>1, <2>2, SMTT(30) DEF CmdAt
  <2>3. CASE i > Len(down)
    <3>1. PICK k \in 1 .. n : k = i - Len(down)
      BY SMTT(30), <1>1, <1>4, <2>1, <2>3
    <3>2. down'[i] = fr[k] /\ k \in 1 .. Frags[c] /\ k - 1 < n
      BY SMTT(30), <1>1, <1>3, <1>4, <1>9, <1>11, <2>1, <2>3, <3>1
    <3> QED
      BY ZenonT(30), <3>2, <1>8
  <2> QED
    BY SMTT(30), <1>1, <2>1, <2>2, <2>3
<1> QED
  BY <1>1, <1>2, <1>4, <1>9, <1>11, <1>12, ZenonT(30) DEF n

\* A set of numbers has a least member. The proof needs the library, which would be in
\* the way of every other proof: it is at the end (LeastMember).
WellOrdered == \A T \in SUBSET Nat : T # {} => \E k \in T : \A j \in T : k <= j

\* A step of the bridge that leaves the leaf, the key and the acks as they are.
LEMMA BridgeQueueStep ==
  ASSUME CommandInv, UNCHANGED rCommands, UNCHANGED <<bKey, rKey, rTx, keys, hits>>,
         bTx' \in Nat, bTx <= bTx', DownFine, UpFine, QueueFine,
         NotEvicted => IssuedKept, issued' \in Seq(Commands \cup Configs),
         acked' \subseteq Commands, ~hits.forgot => \A c \in acked' : WasApplied(c)
  PROVE  CommandInv'
<1>1. Typed /\ (rKey = 0 => rTable = EmptyTable)
  BY Zenon DEF CommandInv
<1>2. /\ bTx' \in Nat \ {0} /\ keys' \in Nat /\ rKey' \in Nat /\ rTx' \in Nat
      /\ rLast' \in [valid : BOOLEAN, tx : Nat, result : Results]
  BY <1>1 DEF Typed, rCommands
<1>3. TableFine /\ AppliedKept
  BY <1>1, TableSteps, Zenon DEF rCommands, AppliedKept
<1>4. rKey' = 0 => rTable' = EmptyTable
  BY <1>1, Zenon DEF rCommands
<1>5. hits' \in Hits /\ SameScenario /\ hits'.forgot = hits.forgot
  BY ZenonT(30), <1>1, HitsSteps
<1> QED
  BY <1>2, <1>3, <1>4, <1>5, QuietInSession, ZenonT(30) DEF Hits

\* The history of what was issued, with one more entry.
LEMMA IssuedMore ==
  ASSUME issued \in Seq(Commands \cup Configs), NEW x \in Commands \cup Configs, issued' = Append(issued, x)
  PROVE  /\ issued' \in Seq(Commands \cup Configs)
         /\ \A c : WasIssued(c)' <=> WasIssued(c) \/ c = x
         /\ \A c, d : IssuedBefore(c, d) => IssuedBefore(c, d)'
         /\ \A c : WasIssued(c) => IssuedBefore(c, x)'
<1>1. /\ issued' \in Seq(Commands \cup Configs) /\ Len(issued') = Len(issued) + 1 /\ Len(issued) \in Nat
      /\ \A i \in 1 .. Len(issued) : issued'[i] = issued[i]
      /\ issued'[Len(issued) + 1] = x
  BY AppendElements
<1>2. \A i : i \in 1 .. Len(issued') <=> i \in 1 .. Len(issued) \/ i = Len(issued) + 1
  BY <1>1
<1>3. \A c : WasIssued(c)' <=> WasIssued(c) \/ c = x
  <2> SUFFICES ASSUME NEW c PROVE WasIssued(c)' <=> WasIssued(c) \/ c = x
    BY Zenon
  <2>1. WasIssued(c)' <=> \E i \in 1 .. Len(issued') : issued'[i] = c
    BY Zenon DEF WasIssued, Queued
  <2>2. WasIssued(c) <=> \E i \in 1 .. Len(issued) : issued[i] = c
    BY Zenon DEF WasIssued, Queued
  <2> QED
    BY ZenonT(30), <1>1, <1>2, <2>1, <2>2
<1>4. \A c, d : IssuedBefore(c, d) => IssuedBefore(c, d)'
  BY <1>1, <1>2, ZenonT(30) DEF IssuedBefore
<1>5. ASSUME NEW c, WasIssued(c) PROVE IssuedBefore(c, x)'
  <2>1. PICK i \in 1 .. Len(issued) : issued[i] = c
    BY <1>5, Zenon DEF WasIssued, Queued
  <2>2. i < Len(issued) + 1 /\ issued'[i] = c /\ i \in 1 .. Len(issued') /\ Len(issued) + 1 \in 1 .. Len(issued')
    BY <1>1, <1>2, <2>1
  <2> QED
    BY <1>1, <2>2, Zenon DEF IssuedBefore
<1> QED
  BY ZenonT(30), <1>1, <1>3, <1>4, <1>5

\* A config takes a counter, and is queued or refused.
LEMMA SendConfigKeeps ==
  ASSUME CommandInv, NEW f \in Configs, SendConfig(f), UNCHANGED rCommands
  PROVE  CommandInv'
<1>1. Typed /\ bTx \in Nat /\ issued \in Seq(Commands \cup Configs) /\ acked \subseteq Commands
  BY Zenon DEF CommandInv, Typed
<1>2. DownFine /\ UpFine /\ QueueFine
  BY <1>1, DownSteps, UpSteps, QueueSteps, FrameTypes, ZenonT(30) DEF SendConfig
<1>3. CASE issued' = Append(issued, f) /\ refused' = refused
  <2>1. issued' \in Seq(Commands \cup Configs)
    BY ZenonT(30), <1>1, <1>3, IssuedMore
  <2>2. ASSUME NotEvicted PROVE IssuedKept
    <3>1. \A c : WasIssued(c)' <=> WasIssued(c) \/ c = f
      BY ZenonT(30), <1>1, <1>3, IssuedMore
    <3>2. \A c, d : IssuedBefore(c, d) => IssuedBefore(c, d)'
      BY ZenonT(30), <1>1, <1>3, IssuedMore
    <3>3. \A x \in Claims : WasIssued(x[2]) \/ x[2] \in refused
      BY <2>2, ZenonT(30) DEF CommandInv, ClaimsOrdered
    <3>4. f \notin refused
      BY Zenon DEF SendConfig
    <3> QED
      BY <1>3, <3>1, <3>2, <3>3, <3>4, ZenonT(30) DEF IssuedKept
  <2>3. ~hits.forgot => \A c \in acked' : WasApplied(c)
    BY ZenonT(30) DEF CommandInv, AcksTrue, SendConfig
  <2> QED
    BY <1>1, <1>2, <2>1, <2>2, <2>3, BridgeQueueStep, SMTT(30) DEF SendConfig, rSession
<1>4. CASE issued' = issued /\ refused \subseteq refused'
  <2>1. IssuedKept
    BY <1>4, ZenonT(30) DEF IssuedKept, WasIssued, IssuedBefore, Queued
  <2>2. ~hits.forgot => \A c \in acked' : WasApplied(c)
    BY Zenon DEF CommandInv, AcksTrue, SendConfig
  <2> QED
    BY <1>1, <1>2, <1>4, <2>1, <2>2, BridgeQueueStep, SMTT(30) DEF SendConfig, rSession
<1> QED
  BY <1>3, <1>4, ZenonT(30) DEF SendConfig

\* A retry sends frames the queue already claims; giving up takes an entry out.
LEMMA RetriesKeep ==
  ASSUME CommandInv, NEW i \in 1 .. Len(cmdQ), RetryCommand(i) \/ CommandTimeout(i), UNCHANGED rCommands
  PROVE  CommandInv'
<1>1. Typed /\ bTx \in Nat /\ issued \in Seq(Commands \cup Configs) /\ acked \subseteq Commands
  BY Zenon DEF CommandInv, Typed
<1>2. UpFine /\ QueueFine
  BY <1>1, UpSteps, QueueSteps, ZenonT(30) DEF RetryCommand, CommandTimeout, path
<1>3. DownFine
  <2>1. CASE down' = down
    BY ZenonT(30), <1>1, <2>1, DownSteps
  <2>2. CASE down' = PutFragments(cmdQ[i].cmd, cmdQ[i].base)
    <3>1. i \in QueueAt /\ cmdQ[i].cmd \in Commands /\ cmdQ[i].base \in Nat
      BY <1>1, ClaimantTypes, ZenonT(30) DEF QueueAt
    <3>2. /\ down' \in Seq(DownFrames) /\ Len(down') <= sc.cap
          /\ \A k \in CmdAt' : (k \in CmdAt /\ down'[k] = down[k]) \/ FragmentOf(down'[k], cmdQ[i].cmd, cmdQ[i].base)
      BY ZenonT(30), <1>1, <2>2, <3>1, FragmentsPut
    <3> QED
      BY <3>1, <3>2, ZenonT(30) DEF DownFine, DownKept
  <2> QED
    BY <2>1, <2>2, ZenonT(30) DEF RetryCommand, CommandTimeout, path
<1>4. IssuedKept
  BY SameIssued, ZenonT(30) DEF RetryCommand, CommandTimeout
<1>5. acked' = acked /\ ~hits.forgot => \A c \in acked' : WasApplied(c)
  BY Zenon DEF CommandInv, AcksTrue, RetryCommand, CommandTimeout
<1>6. UNCHANGED <<bKey, bTx, rKey, rTx, keys, hits, issued, acked>>
  BY Zenon DEF RetryCommand, CommandTimeout, path, bSession, rSession
<1> QED
  BY SMTT(30), <1>1, <1>2, <1>3, <1>4, <1>5, <1>6, BridgeQueueStep

\* A config sent again is no command.
LEMMA ServeConfigKeeps ==
  ASSUME CommandInv, ConfigInv(Nat), NEW i \in 1 .. Len(cfgQ), ServeConfig(i), UNCHANGED rCommands
  PROVE  CommandInv'
<1>1. Typed /\ bTx \in Nat /\ issued \in Seq(Commands \cup Configs) /\ acked \subseteq Commands
  BY Zenon DEF CommandInv, Typed
<1>2. cfgQ[i].cfg \in Configs /\ cfgQ[i].base \in Nat
  <2>1. cfgQ[i] \in [cfg : Configs, base : Nat, retry : Nat]
    BY ElementOf, Zenon DEF ConfigInv
  <2> QED
    BY Zenon, <2>1
<1>3. UpFine /\ QueueFine
  BY <1>1, UpSteps, QueueSteps, ZenonT(30) DEF ServeConfig
<1>4. DownFine
  BY <1>1, <1>2, DownSteps, FrameTypes, ZenonT(30) DEF ServeConfig
<1>5. IssuedKept
  BY SameIssued, ZenonT(30) DEF ServeConfig
<1>6. ~hits.forgot => \A c \in acked' : WasApplied(c)
  BY Zenon DEF CommandInv, AcksTrue, ServeConfig
<1>7. UNCHANGED <<bKey, bTx, rKey, rTx, keys, hits, issued, acked>>
  BY Zenon DEF ServeConfig, bSession, rSession
<1> QED
  BY SMTT(30), <1>1, <1>3, <1>4, <1>5, <1>6, <1>7, BridgeQueueStep

\* An ack of a command with result OK erases a command that was applied.
LEMMA HandleAckKeeps ==
  ASSUME CommandInv, HandleAck, UNCHANGED rCommands, WellOrdered
  PROVE  CommandInv'
<1>1. Typed /\ bTx \in Nat /\ issued \in Seq(Commands \cup Configs) /\ acked \subseteq Commands
      /\ up \in Seq(UpFrames)
  BY Zenon DEF CommandInv, Typed
<1>2. DownFine /\ UpFine
  BY <1>1, UpSteps, DownSteps, ZenonT(30) DEF HandleAck, UpIs
<1>3. IssuedKept
  BY SameIssued, ZenonT(30) DEF HandleAck
<1>4. UNCHANGED <<bKey, bTx, rKey, rTx, keys, hits, issued>>
  BY ZenonT(30) DEF HandleAck, rSession
<1>5. ~hits.forgot => \A c \in acked : WasApplied(c)
  BY ZenonT(30) DEF CommandInv, AcksTrue
<1>6. CASE UNCHANGED <<cmdQ, acked>>
  BY SMTT(30), <1>1, <1>2, <1>3, <1>4, <1>5, <1>6, QueueSteps, BridgeQueueStep
<1>7. CASE InSession(Head(up)) /\ Head(up).body.of = "COMMAND" /\ CommandAck(Head(up).body) /\ ~UNCHANGED <<cmdQ, acked>>
  <2> DEFINE ack == Head(up).body
             hit == Matches(cmdQ, ack.ref)
             i == CHOOSE i \in hit : \A j \in hit : i <= j
  <2>1. /\ ack.result = "OK" /\ hit # {}
        /\ cmdQ' = Without(cmdQ, i) /\ acked' = acked \cup {cmdQ[i].cmd}
    BY <1>7, ZenonT(30) DEF CommandAck
  <2>2. i \in hit
    <3>1. hit \subseteq Nat
      BY DEF Matches
    <3>2. \E k \in hit : \A j \in hit : k <= j
      BY <2>1, <3>1, ZenonT(30) DEF WellOrdered
    <3> QED
      BY ZenonT(30), <3>2
  <2> HIDE DEF i
  <2>3. i \in 1 .. Len(cmdQ) /\ cmdQ[i].base = ack.ref
    BY <2>2, ZenonT(30) DEF Matches
  <2>4. QueueFine
    BY ZenonT(30), <1>1, <2>1, <2>3, QueueSteps
  <2>5. i \in QueueAt /\ cmdQ[i].cmd \in Commands
    BY <1>1, <2>3, ClaimantTypes, ZenonT(30) DEF QueueAt
  <2>6. ASSUME ~hits.forgot PROVE WasApplied(cmdQ[i].cmd)
    <3>1. 1 \in 1 .. Len(up) /\ up[1] = Head(up) /\ up[1].kind = "ACK"
      BY <1>1, HeadAndTail, SMTT(30) DEF HandleAck, UpIs
    <3>2. \A x \in QueueClaims : x[1] = up[1].body.ref => WasApplied(x[2])
      BY <1>7, <2>1, <2>6, <3>1, ZenonT(30) DEF CommandInv, AcksTrue
    <3>3. <<cmdQ[i].base, cmdQ[i].cmd>> \in QueueClaims
      BY <2>5, ZenonT(30) DEF QueueClaims
    <3> QED
      BY ZenonT(30), <2>3, <3>1, <3>2, <3>3
  <2>7. acked' \subseteq Commands /\ (~hits.forgot => \A c \in acked' : WasApplied(c))
    BY ZenonT(30), <1>1, <1>5, <2>1, <2>5, <2>6
  <2> QED
    BY SMTT(30), <1>1, <1>2, <1>3, <1>4, <2>4, <2>7, BridgeQueueStep
<1> QED
  BY <1>6, <1>7, ZenonT(30) DEF HandleAck, ConfigAck

\* The bridge forgets its session: with its queue, or by eviction.
LEMMA ForgetKeeps ==
  ASSUME CommandInv, BridgeRestart \/ EvictSession, UNCHANGED rCommands
  PROVE  CommandInv'
<1>1. Typed /\ bTx \in Nat /\ issued \in Seq(Commands \cup Configs) /\ acked \subseteq Commands
      /\ (rKey = 0 => rTable = EmptyTable) /\ hits \in Hits
  BY Zenon DEF CommandInv, Typed, Hits
<1>2. /\ bKey' = 0 /\ bTx' = 1 /\ hits' = [hits EXCEPT !.forgot = TRUE]
      /\ UNCHANGED <<rSession, keys, down, up, issued, refused, acked>>
  BY Zenon DEF BridgeRestart, EvictSession, ForgetSession, bQueues
<1>3. DownFine /\ UpFine /\ QueueFine
  BY <1>1, <1>2, UpSteps, DownSteps, QueueSteps, ZenonT(30) DEF BridgeRestart, EvictSession, bQueues
<1>4. TableFine /\ AppliedKept
  BY <1>1, TableSteps, ZenonT(30) DEF rCommands, AppliedKept
<1>5. IssuedKept
  BY ZenonT(30), <1>2, SameIssued
<1>6. hits' \in Hits /\ SameScenario /\ hits'.forgot
  BY <1>1, <1>2, ZenonT(30) DEF Hits, SameScenario
<1>7. Typed'
  <2>1. sc' = sc
    BY <1>6, ZenonT(30) DEF sc, SameScenario
  <2> QED
    BY SMTT(30), <1>1, <1>2, <1>3, <1>4, <1>6, <2>1
       DEF Typed, Hits, rSession, rCommands, DownFine, UpFine, TableFine, QueueFine
<1>8. NotEvicted' => SessionKept
  BY <1>2, <1>6, ZenonT(30) DEF NotEvicted, SameScenario, sc, SessionKept, BridgeRestart, EvictSession
<1>9. rKey' = 0 => rTable' = EmptyTable
  BY <1>1, <1>2, ZenonT(30) DEF rSession, rCommands
<1>10. NotEvicted' => NotEvicted
  BY <1>6, ZenonT(30) DEF NotEvicted, SameScenario, sc
<1> QED
  BY <1>3, <1>4, <1>5, <1>6, <1>7, <1>8, <1>9, <1>10, QuietStep, ZenonT(30) DEF DownFine, TableFine, QueueFine

-----------------------------------------------------------------------------
(* A command is sent.                                                       *)

\* What was issued, when a command is sent: whole, or cut short.
SendsWhole(c) == SentOf(c, down) = Frags[c]

\* What is issued once a command is sent.
LEMMA SendCommandIssues ==
  ASSUME CommandInv, NEW c \in Commands, SendCommand(c)
  PROVE  /\ issued' \in Seq(Commands \cup Configs)
         /\ \A d : WasIssued(d)' <=> WasIssued(d) \/ (d = c /\ SendsWhole(c))
         /\ \A d, e : IssuedBefore(d, e) => IssuedBefore(d, e)'
         /\ SendsWhole(c) => \A d : WasIssued(d) => IssuedBefore(d, c)'
         /\ refused \subseteq refused' /\ (~SendsWhole(c) => c \in refused')
<1>1. issued \in Seq(Commands \cup Configs)
  BY ZenonT(30) DEF CommandInv, Typed
<1>2. CASE SendsWhole(c)
  <2>1. issued' = Append(issued, c) /\ refused' = refused
    BY <1>2, ZenonT(30) DEF SendCommand, SendsWhole
  <2> QED
    BY ZenonT(30), <1>1, <1>2, <2>1, IssuedMore
<1>3. CASE ~SendsWhole(c)
  <2>1. issued' = issued /\ refused' = refused \cup {c}
    BY <1>3, ZenonT(30) DEF SendCommand, SendsWhole
  <2> QED
    BY <1>1, <1>3, <2>1, ZenonT(30) DEF WasIssued, Queued, IssuedBefore
<1> QED
  BY ZenonT(30), <1>2, <1>3

\* A command that is sent makes one new claim, at the counter of the session.
LEMMA SendCommandClaims ==
  ASSUME CommandInv, NEW c \in Commands, SendCommand(c), UNCHANGED rCommands
  PROVE  /\ Claims' \subseteq Claims \cup {<<bTx, c>>}
         /\ QueueClaims' \subseteq QueueClaims \cup {<<bTx, c>>}
         /\ QueueClaims' \subseteq QueueClaims \/ SendsWhole(c)
         /\ \A i \in CmdAt' :
              \/ i \in CmdAt /\ down'[i] = down[i]
              \/ FragmentOf(down'[i], c, bTx) /\ down'[i].body.index < SentOf(c, down)
         /\ down' \in Seq(DownFrames) /\ Len(down') <= sc.cap
         /\ cmdQ' \in Seq([cmd : Commands, base : Nat, retry : Nat])
         /\ bTx' \in Nat /\ bTx < bTx'
<1> DEFINE Entry == [cmd : Commands, base : Nat, retry : Nat]
<1>1. Typed /\ bTx \in Nat /\ cmdQ \in Seq(Entry) /\ Len(cmdQ) \in Nat
  BY DEF CommandInv, Typed
<1>2. down' = PutFragments(c, bTx)
  BY Zenon DEF SendCommand
<1>3. /\ down' \in Seq(DownFrames) /\ Len(down') <= sc.cap
      /\ SentOf(c, down) \in 0 .. Frags[c]
      /\ \A i \in CmdAt' :
           \/ i \in CmdAt /\ down'[i] = down[i]
           \/ FragmentOf(down'[i], c, bTx) /\ down'[i].body.index < SentOf(c, down)
  BY ZenonT(30), <1>1, <1>2, FragmentsPut
<1>4. Frags[c] \in Nat \ {0}
  BY SMTT(30), CommandAssumption, AssemblyAssumption
<1>5. bTx' \in Nat /\ bTx < bTx'
  <2>1. bTx' = bTx + Frags[c] \/ bTx' = bTx + SentOf(c, down) + 1
    BY ZenonT(30) DEF SendCommand
  <2> QED
    BY SMTT(30), <1>1, <1>3, <1>4, <2>1
<1>6. FrameClaims' \subseteq FrameClaims \cup {<<bTx, c>>}
  <2> SUFFICES ASSUME NEW x \in FrameClaims' PROVE x \in FrameClaims \cup {<<bTx, c>>}
    BY Zenon
  <2>1. PICK i \in CmdAt' : x = <<BaseOf(down'[i]), down'[i].body.msg>>
    BY Zenon DEF FrameClaims, BaseOf
  <2>2. CASE i \in CmdAt /\ down'[i] = down[i]
    BY <2>1, <2>2, ZenonT(30) DEF FrameClaims
  <2>3. CASE FragmentOf(down'[i], c, bTx)
    BY <2>1, <2>3, ZenonT(30) DEF FragmentOf
  <2> QED
    BY ZenonT(30), <1>3, <2>1, <2>2, <2>3
<1>7. KeptClaims' = KeptClaims
  BY DEF KeptClaims, Assembling, rCommands
<1>8. CASE SendsWhole(c)
  <2> DEFINE new == [cmd |-> c, base |-> bTx, retry |-> 0]
  <2>1. cmdQ' = Append(cmdQ, new)
    BY <1>8, ZenonT(30) DEF SendCommand, SendsWhole
  <2>2. new \in Entry /\ new.cmd = c /\ new.base = bTx
    BY ZenonT(30), <1>1
  <2> HIDE DEF new, Entry
  <2>3. /\ cmdQ' \in Seq(Entry) /\ Len(cmdQ') = Len(cmdQ) + 1
        /\ \A i \in 1 .. Len(cmdQ) : cmdQ'[i] = cmdQ[i]
        /\ cmdQ'[Len(cmdQ) + 1] = new
    BY SMTT(30), <1>1, <2>1, <2>2, AppendElements
  <2>4. ASSUME NEW x \in QueueClaims' PROVE x \in QueueClaims \cup {<<bTx, c>>}
    <3>1. PICK i \in 1 .. Len(cmdQ) + 1 : x = <<cmdQ'[i].base, cmdQ'[i].cmd>>
      BY <2>3, <2>4, ZenonT(30) DEF QueueClaims, QueueAt
    <3>2. CASE i = Len(cmdQ) + 1
      BY ZenonT(30), <2>2, <2>3, <3>1, <3>2
    <3>3. CASE i # Len(cmdQ) + 1
      <4>1. i \in 1 .. Len(cmdQ)
        BY SMTT(30), <1>1, <3>3
      <4> QED
        BY <2>3, <3>1, <4>1, ZenonT(30) DEF QueueClaims, QueueAt
    <3> QED
      BY ZenonT(30), <3>2, <3>3
  <2> QED
    BY <1>3, <1>5, <1>6, <1>7, <1>8, <2>3, <2>4, ZenonT(30) DEF Claims, Air, Entry
<1>9. CASE ~SendsWhole(c)
  <2>1. cmdQ' = cmdQ
    BY <1>9, ZenonT(30) DEF SendCommand, SendsWhole
  <2>2. QueueClaims' = QueueClaims
    BY <2>1, ZenonT(30) DEF QueueClaims, QueueAt
  <2> QED
    BY <1>1, <1>3, <1>5, <1>6, <1>7, <2>1, <2>2, ZenonT(30) DEF Claims, Air
<1> QED
  BY ZenonT(30), <1>8, <1>9

\* A command that is sent comes after everything that was claimed before.
LEMMA SendCommandCore ==
  ASSUME CommandInv, CountersLow, NotEvicted, NEW c \in Commands, SendCommand(c), UNCHANGED rCommands
  PROVE  FragmentsSound' /\ ClaimsOrdered' /\ OrderKept'
<1>1. Typed /\ FragmentsSound /\ ClaimsOrdered /\ OrderKept
  BY ZenonT(30) DEF CommandInv
<1>2. bTx \in Nat \ {0} /\ bTx <= CounterSpan \div 2 /\ CounterSpan \div 2 \in Nat
  BY <1>1, AssemblyAssumption, SMTT(30) DEF Typed, CountersLow
<1>3. /\ Claims' \subseteq Claims \cup {<<bTx, c>>}
      /\ QueueClaims' \subseteq QueueClaims \cup {<<bTx, c>>}
      /\ QueueClaims' \subseteq QueueClaims \/ SendsWhole(c)
      /\ bTx' \in Nat /\ bTx < bTx'
  BY ZenonT(30), SendCommandClaims
<1>4. /\ \A d : WasIssued(d)' <=> WasIssued(d) \/ (d = c /\ SendsWhole(c))
      /\ \A d, e : IssuedBefore(d, e) => IssuedBefore(d, e)'
      /\ SendsWhole(c) => \A d : WasIssued(d) => IssuedBefore(d, c)'
      /\ refused \subseteq refused' /\ (~SendsWhole(c) => c \in refused')
  BY ZenonT(30), SendCommandIssues
<1>5. bKey' = bKey /\ bKey # 0 /\ c \notin refused /\ ~WasIssued(c)
  BY ZenonT(30) DEF SendCommand, Active, WasIssued
<1>6. \A x \in Claims : /\ x[1] \in 1 .. CounterSpan \div 2 /\ x[1] < bTx
                        /\ WasIssued(x[2]) \/ x[2] \in refused
                        /\ x[2] # c
  BY <1>1, <1>5, ZenonT(30) DEF ClaimsOrdered
<1>7. FragmentsSound'
  <2>1. ASSUME NEW i \in CmdAt'
        PROVE  IsFragment(down[i].body.entity, down[i].body.index, down[i].body.count, down[i].body.msg)'
    <3>1. CASE i \in CmdAt /\ down'[i] = down[i]
      <4>1. IsFragment(down[i].body.entity, down[i].body.index, down[i].body.count, down[i].body.msg)
        BY <1>1, <3>1, ZenonT(30) DEF FragmentsSound
      <4> QED
        BY <1>4, <3>1, <4>1, ZenonT(30) DEF IsFragment
    <3>2. CASE FragmentOf(down'[i], c, bTx) /\ down'[i].body.index < SentOf(c, down)
      <4>1. Frags[c] \in Nat /\ SentOf(c, down) \in 0 .. Frags[c] /\ down'[i].body.index \in Int
        <5>1. Frags[c] \in Nat /\ down' = PutFragments(c, bTx)
          BY CommandAssumption, AssemblyAssumption, SMTT(30) DEF SendCommand
        <5>2. SentOf(c, down) \in 0 .. Frags[c] /\ down' \in Seq(DownFrames)
          BY ZenonT(30), <1>1, <1>2, <5>1, FragmentsPut
        <5>3. down'[i] \in DownFrames /\ down'[i].kind = "COMMAND"
          BY <5>2, <2>1, SMTT(30) DEF CmdAt
        <5>4. down'[i] \in CommandFrames
          BY <5>3, ZenonT(30) DEF DownFrames, ConfigFrames, DeauthFrames
        <5> QED
          BY <5>1, <5>2, <5>4, SMTT(30) DEF CommandFrames
      <4>2. down'[i].body.index = Frags[c] - 1 => SendsWhole(c)
        BY <3>2, <4>1, SMTT(30) DEF SendsWhole
      <4>3. WasIssued(c)' <=> SendsWhole(c)
        BY ZenonT(30), <1>4, <1>5
      <4> QED
        BY <3>2, <4>2, <4>3, ZenonT(30) DEF FragmentOf, IsFragment
    <3> QED
      BY ZenonT(30), <3>1, <3>2, SendCommandClaims
  <2>2. ASSUME NEW e \in Assembling', NEW p \in rTable'.asm[e].parts
        PROVE  IsFragment(e, p[1], rTable.asm[e].count, p[2])'
    <3>1. rTable' = rTable /\ e \in Assembling
      BY <2>2, ZenonT(30) DEF rCommands, Assembling
    <3>2. IsFragment(e, p[1], rTable.asm[e].count, p[2])
      BY <1>1, <2>2, <3>1, ZenonT(30) DEF FragmentsSound
    <3> QED
      BY <1>4, <3>1, <3>2, ZenonT(30) DEF IsFragment
  <2> QED
    BY <2>1, <2>2, ZenonT(30) DEF FragmentsSound
<1>8. ClaimsOrdered'
  <2>1. \A x \in Claims' : x[1] \in 1 .. CounterSpan \div 2 /\ (WasIssued(x[2])' \/ x[2] \in refused')
    BY SMTT(30), <1>2, <1>3, <1>4, <1>6
  <2>2. \A x \in QueueClaims' : WasIssued(x[2])'
    BY <1>1, <1>3, <1>4, SMTT(30) DEF ClaimsOrdered
  <2>3. \A x \in Claims' : x[1] < bTx'
    BY SMTT(30), <1>2, <1>3, <1>6
  <2>4. ASSUME NEW x \in Claims', NEW y \in Claims'
        PROVE  /\ x[1] = y[1] => x[2] = y[2]
               /\ x[1] < y[1] /\ WasIssued(x[2])' /\ WasIssued(y[2])' => IssuedBefore(x[2], y[2])'
    <3>1. CASE x \in Claims /\ y \in Claims
      BY <1>1, <1>4, <1>6, <3>1, ZenonT(30) DEF ClaimsOrdered
    <3>2. CASE x \in Claims /\ y = <<bTx, c>>
      BY SMTT(30), <1>2, <1>4, <1>5, <1>6, <3>2
    <3>3. CASE x = <<bTx, c>> /\ y \in Claims
      BY SMTT(30), <1>2, <1>6, <3>3
    <3>4. CASE x = <<bTx, c>> /\ y = <<bTx, c>>
      BY SMTT(30), <1>2, <3>4
    <3> QED
      BY ZenonT(30), <1>3, <3>1, <3>2, <3>3, <3>4
  <2> QED
    BY <1>5, <2>1, <2>2, <2>3, <2>4, ZenonT(30) DEF ClaimsOrdered
<1>9. OrderKept'
  <2>1. UNCHANGED <<rDone, boots, applied>> /\ AppliedAt' = AppliedAt
    BY Zenon DEF rCommands, AppliedAt
  <2>2. ASSUME NEW i \in AppliedAt
        PROVE  /\ applied[i].boot <= boots
               /\ \E d \in Commands : WasIssued(d)' /\ applied[i].payload = {d}
    BY <1>1, <1>4, ZenonT(30) DEF OrderKept
  <2>3. ASSUME NEW i \in AppliedAt, NEW x \in Claims',
               applied[i].boot = boots, Target[x[2]] = applied[i].entity,
               x[1] > rDone[applied[i].entity], WasIssued(x[2])', NEW d \in applied[i].payload
        PROVE  IssuedBefore(d, x[2])'
    <3>1. CASE x \in Claims
      <4>1. WasIssued(x[2])
        BY SMTT(30), <1>4, <1>6, <2>3, <3>1
      <4>2. IssuedBefore(d, x[2])
        BY <1>1, <2>3, <3>1, <4>1, ZenonT(30) DEF OrderKept
      <4> QED
        BY ZenonT(30), <1>4, <4>2
    <3>2. CASE x = <<bTx, c>>
      <4>1. WasIssued(d)
        BY <1>1, <2>3, ZenonT(30) DEF OrderKept
      <4>2. SendsWhole(c)
        BY ZenonT(30), <1>4, <1>5, <2>3, <3>2
      <4> QED
        BY ZenonT(30), <1>4, <3>2, <4>1, <4>2
    <3> QED
      BY ZenonT(30), <1>3, <3>1, <3>2
  <2>4. \A e \in Entities : rDone[e] <= CounterSpan \div 2
    BY <1>1, ZenonT(30) DEF OrderKept
  <2>5. ASSUME NEW i \in AppliedAt, NEW j \in AppliedAt, i < j,
               applied[i].boot = applied[j].boot, applied[i].entity = applied[j].entity,
               NEW d \in applied[i].payload, NEW e \in applied[j].payload
        PROVE  IssuedBefore(d, e)'
    BY <1>1, <1>4, <2>5, ZenonT(30) DEF OrderKept
  <2> QED
    BY <2>1, <2>2, <2>3, <2>4, <2>5, SMTT(30) DEF OrderKept
<1> QED
  BY ZenonT(30), <1>7, <1>8, <1>9

\* A command is sent, whole or cut short.
LEMMA SendCommandKeeps ==
  ASSUME CommandInv, CountersLow, NEW c \in Commands, SendCommand(c), UNCHANGED rCommands
  PROVE  CommandInv'
<1>1. Typed /\ (rKey = 0 => rTable = EmptyTable)
  BY Zenon DEF CommandInv
<1>2. UNCHANGED <<bKey, rSession, keys, up, hits, acked>>
  BY Zenon DEF SendCommand
<1>3. sc' = sc /\ (NotEvicted' <=> NotEvicted)
  BY <1>2, ZenonT(30) DEF sc, NotEvicted
<1>4. Typed'
  <2>1. issued' \in Seq(Commands \cup Configs)
    BY ZenonT(30), SendCommandIssues
  <2>2. bTx \in Nat /\ bTx' \in Nat /\ bTx < bTx'
    BY <1>1, SendCommandClaims, ZenonT(30) DEF Typed
  <2>3. bTx' \in Nat \ {0}
    BY <2>2
  <2>4. /\ down' \in Seq(DownFrames) /\ Len(down') <= sc.cap
        /\ cmdQ' \in Seq([cmd : Commands, base : Nat, retry : Nat])
    BY ZenonT(30), SendCommandClaims
  <2> QED
    BY <1>1, <1>2, <1>3, <2>1, <2>3, <2>4, ZenonT(30) DEF Typed, rSession, rCommands
<1>5. ASSUME ~hits'.forgot PROVE AcksTrue'
  <2>1. AcksTrue /\ ClaimsOrdered
    BY <1>2, <1>5, ZenonT(30) DEF CommandInv, NotEvicted
  <2>2. bTx \in Nat /\ rDone \in [Entities -> Nat] /\ Target[c] \in Entities
    BY <1>1, CommandAssumption, ZenonT(30) DEF Typed
  <2>3. UNCHANGED <<rDone, applied>> /\ \A d : WasApplied(d)' <=> WasApplied(d)
    BY Zenon DEF rCommands, WasApplied, AppliedAt
  <2>4. /\ Claims' \subseteq Claims \cup {<<bTx, c>>}
        /\ QueueClaims' \subseteq QueueClaims \cup {<<bTx, c>>}
        /\ bTx' \in Nat /\ bTx < bTx'
    BY ZenonT(30), SendCommandClaims
  <2>5. \A e \in Entities : rDone[e] < bTx
    BY <2>1, ZenonT(30) DEF AcksTrue
  <2>6. ASSUME NEW x \in Claims', x[1] = rDone'[Target[x[2]]] PROVE WasApplied(x[2])'
    <3>1. x # <<bTx, c>>
      BY SMTT(30), <2>2, <2>3, <2>5, <2>6
    <3> QED
      BY <2>1, <2>3, <2>4, <2>6, <3>1, ZenonT(30) DEF AcksTrue
  <2>7. ASSUME NEW i \in 1 .. Len(up), OkAck(up[i])
        PROVE  /\ up[i].body.ref < bTx'
               /\ \A x \in QueueClaims' : x[1] = up[i].body.ref => WasApplied(x[2])'
    <3>1. /\ up[i].body.ref < bTx
          /\ \A x \in QueueClaims : x[1] = up[i].body.ref => WasApplied(x[2])
      BY <2>1, <2>7, ZenonT(30) DEF AcksTrue, OkAck
    <3>2. up[i].body.ref \in Nat
      <4>1. up[i] \in UpFrames
        BY <1>1, SMTT(30) DEF Typed
      <4> QED
        BY <4>1, <2>7, ZenonT(30) DEF OkAck, UpFrames, AckFrames, BeatFrames
    <3> QED
      BY SMTT(30), <2>2, <2>3, <2>4, <3>1, <3>2
  <2>8. \A e \in Entities : rDone'[e] < bTx'
    BY SMTT(30), <2>2, <2>3, <2>4, <2>5
  <2>10. \A x \in Claims' : x[1] < bTx'
    BY <1>1, <2>1, <2>2, <2>4, ClaimTypes, SMTT(30) DEF AcksTrue
  <2>9. \A d \in acked' : WasApplied(d)'
    BY <1>2, <2>1, <2>3, ZenonT(30) DEF AcksTrue
  <2> QED
    BY <1>2, <2>6, <2>7, <2>8, <2>9, <2>10, ZenonT(30) DEF AcksTrue, OkAck
<1> QED
  BY <1>1, <1>2, <1>3, <1>4, <1>5, SendCommandCore, ZenonT(30) DEF CommandInv, rSession, rCommands

-----------------------------------------------------------------------------
(* Configs.                                                                 *)

\* What an entry of the config queue is.
PendingConfigs(Bases) == [cfg : Configs, base : Bases, retry : Nat]

\* Nothing happens to the configs.
LEMMA ConfigsStay ==
  ASSUME NEW B, ConfigInv(B), UNCHANGED <<cfgQ, answers>>
  PROVE  ConfigInv(B)'
BY Zenon DEF ConfigInv

\* A config taken out of the queue is answered.
LEMMA AnswerKeeps ==
  ASSUME NEW B, ConfigInv(B), NEW i \in 1 .. Len(cfgQ), NEW result, Answer(i, result)
  PROVE  ConfigInv(B)'
<1> DEFINE S == PendingConfigs(B)
           n == Len(cfgQ)
           at(k) == IF k < i THEN k ELSE k + 1
<1>1. cfgQ \in Seq(S) /\ n \in Nat
  BY DEF ConfigInv, PendingConfigs
<1>2. /\ cfgQ' \in Seq(S) /\ Len(cfgQ') = n - 1
      /\ \A k \in 1 .. n - 1 : cfgQ'[k] = IF k < i THEN cfgQ[k] ELSE cfgQ[k + 1]
  BY <1>1, WithoutKeeps, ZenonT(30) DEF Answer
<1>3. \A k \in 1 .. n : cfgQ[k].cfg \in Configs
  <2> SUFFICES ASSUME NEW k \in 1 .. n PROVE cfgQ[k].cfg \in Configs
    BY Zenon
  <2>1. cfgQ[k] \in S
    BY ZenonT(30), <1>1, ElementOf
  <2> QED
    BY <2>1, Zenon DEF PendingConfigs
<1>4. \A k \in 1 .. n - 1 : at(k) \in 1 .. n /\ at(k) # i /\ cfgQ'[k] = cfgQ[at(k)]
  BY SMTT(30), <1>1, <1>2
<1>5. \A k, l \in 1 .. n - 1 : at(k) = at(l) => k = l
  BY <1>1
<1> DEFINE g == cfgQ[i].cfg
<1>6. /\ answers' = [answers EXCEPT ![g] = Append(@, result)]
      /\ g \in Configs /\ answers[g] = << >> /\ answers = [f \in Configs |-> answers[f]]
  BY <1>3, ZenonT(30) DEF Answer, ConfigInv
<1> HIDE DEF S, at, g, n
<1>7. /\ answers' = [f \in Configs |-> answers'[f]]
      /\ answers'[g] = Append(<< >>, result) /\ \A f \in Configs : f # g => answers'[f] = answers[f]
  BY ZenonT(30), <1>6
<1>8. Len(answers'[g]) = 1
  <2>1. << >> \in Seq({result}) /\ Len(<< >>) = 0
    OBVIOUS
  <2> QED
    BY SMTT(30), <1>7, <2>1, AppendElements
<1>9. \A f \in Configs : answers'[f] = << >> \/ Len(answers'[f]) = 1
  BY <1>7, <1>8, ZenonT(30) DEF ConfigInv
<1>10. ASSUME NEW k \in 1 .. n - 1, NEW l \in 1 .. n - 1, cfgQ'[k].cfg = cfgQ'[l].cfg PROVE k = l
  <2>1. /\ at(k) \in 1 .. n /\ at(l) \in 1 .. n
        /\ cfgQ[at(k)].cfg = cfgQ[at(l)].cfg
    BY ZenonT(30), <1>4, <1>10
  <2>2. at(k) = at(l)
    BY <2>1, ZenonT(30) DEF ConfigInv, n
  <2> QED
    BY ZenonT(30), <1>5, <2>2
<1>11. ASSUME NEW k \in 1 .. n - 1 PROVE answers'[cfgQ'[k].cfg] = << >>
  <2>1. cfgQ'[k].cfg = cfgQ[at(k)].cfg /\ at(k) \in 1 .. n /\ at(k) # i
    BY ZenonT(30), <1>4
  <2>2. cfgQ[at(k)].cfg \in Configs /\ cfgQ[at(k)].cfg # g /\ answers[cfgQ[at(k)].cfg] = << >>
    BY <1>3, <2>1, ZenonT(30) DEF ConfigInv, n, g
  <2> QED
    BY ZenonT(30), <1>7, <2>1, <2>2
<1> QED
  BY <1>2, <1>7, <1>9, <1>10, <1>11, ZenonT(30) DEF ConfigInv, S, PendingConfigs

\* More counters may be named.
LEMMA MoreBases ==
  ASSUME NEW B, NEW C, B \subseteq C, ConfigInv(B)
  PROVE  ConfigInv(C)
<1>1. cfgQ \in Seq(PendingConfigs(B)) /\ Len(cfgQ) \in Nat
  BY DEF ConfigInv, PendingConfigs
<1>2. PendingConfigs(B) \subseteq PendingConfigs(C)
  BY Zenon DEF PendingConfigs
<1>3. cfgQ \in [1 .. Len(cfgQ) -> PendingConfigs(C)]
  BY SMTT(30), <1>1, <1>2
<1>4. cfgQ \in Seq(PendingConfigs(C))
  BY ZenonT(30), <1>1, <1>3, FunctionIsSequence
<1> QED
  BY <1>4, ZenonT(30) DEF ConfigInv, PendingConfigs

\* A config that is sent is not pending, and was not answered.
LEMMA SendConfigPends ==
  ASSUME NEW B, ConfigInv(B), bTx \in B, NEW f \in Configs, SendConfig(f)
  PROVE  ConfigInv(B)'
<1> DEFINE S == PendingConfigs(B)
           n == Len(cfgQ)
           new == [cfg |-> f, base |-> bTx, retry |-> 0]
<1>0. ConfigInv(B)
  BY ZenonT(30)
<1>1. cfgQ \in Seq(S) /\ n \in Nat
  BY <1>0 DEF ConfigInv, PendingConfigs
<1>2. new \in S /\ new.cfg = f
  BY Zenon DEF PendingConfigs
<1>3. answers' = answers /\ answers[f] = << >> /\ \A k \in 1 .. n : cfgQ[k].cfg # f
  BY Zenon DEF SendConfig, Queued
<1>4. CASE cfgQ' = cfgQ
  BY <1>0, <1>3, <1>4, ZenonT(30) DEF ConfigInv
<1>5. CASE cfgQ' = Append(cfgQ, new)
  <2> HIDE DEF S, new, n
  <2>1. /\ cfgQ' \in Seq(S) /\ Len(cfgQ') = n + 1
        /\ \A i \in 1 .. n : cfgQ'[i] = cfgQ[i]
        /\ cfgQ'[n + 1] = new
    BY <1>1, <1>2, <1>5, AppendElements, SMTT(30) DEF n
  <2>2. \A i \in 1 .. n + 1 : i \in 1 .. n \/ i = n + 1
    BY SMTT(30), <1>1
  <2>3. ASSUME NEW i \in 1 .. n + 1, NEW j \in 1 .. n + 1, cfgQ'[i].cfg = cfgQ'[j].cfg PROVE i = j
    <3>1. CASE i \in 1 .. n /\ j \in 1 .. n
      BY <1>0, <2>1, <2>3, <3>1, ZenonT(30) DEF ConfigInv, n
    <3> QED
      BY ZenonT(30), <1>2, <1>3, <2>1, <2>2, <2>3, <3>1
  <2>4. ASSUME NEW i \in 1 .. n + 1 PROVE answers'[cfgQ'[i].cfg] = << >>
    <3>1. CASE i \in 1 .. n
      BY <1>0, <1>3, <2>1, <3>1, ZenonT(30) DEF ConfigInv, n
    <3> QED
      BY ZenonT(30), <1>2, <1>3, <2>1, <2>2, <3>1
  <2> QED
    BY <1>0, <1>3, <2>1, <2>3, <2>4, ZenonT(30) DEF ConfigInv, S, PendingConfigs
<1> QED
  BY <1>4, <1>5, ZenonT(30) DEF SendConfig

\* A config sent again stays the same entry.
LEMMA ServeConfigPends ==
  ASSUME NEW B, ConfigInv(B), NEW i \in 1 .. Len(cfgQ), ServeConfig(i)
  PROVE  ConfigInv(B)'
<1> DEFINE S == PendingConfigs(B)
<1>1. CASE Answer(i, "timed out") \/ Answer(i, "no session")
  BY ZenonT(30), <1>1, AnswerKeeps
<1>2. CASE cfgQ' = [cfgQ EXCEPT ![i].retry = @ + 1] /\ UNCHANGED answers
  <2>1. cfgQ \in Seq(S)
    BY Zenon DEF ConfigInv, PendingConfigs
  <2>2. cfgQ[i] \in S
    BY ZenonT(30), <2>1, ElementOf
  <2> DEFINE e == [cfgQ[i] EXCEPT !.retry = @ + 1]
  <2>3. e \in S /\ e.cfg = cfgQ[i].cfg
    BY <2>2 DEF PendingConfigs
  <2>4. cfgQ' = [cfgQ EXCEPT ![i] = e]
    BY ZenonT(30), <1>2
  <2> HIDE DEF e, S
  <2>5. /\ cfgQ' \in Seq(S) /\ Len(cfgQ') = Len(cfgQ) /\ cfgQ'[i] = e
        /\ \A k \in 1 .. Len(cfgQ) : k # i => cfgQ'[k] = cfgQ[k]
    BY SMTT(30), <2>1, <2>3, <2>4
  <2>6. \A k \in 1 .. Len(cfgQ) : cfgQ'[k].cfg = cfgQ[k].cfg
    BY ZenonT(30), <2>3, <2>5
  <2> QED
    BY <1>2, <2>5, <2>6, SMTT(30) DEF ConfigInv, S, PendingConfigs
<1> QED
  BY <1>1, <1>2, ZenonT(30) DEF ServeConfig

\* An ack of a config answers the first pending one with its counter.
LEMMA HandleAckPends ==
  ASSUME NEW B, ConfigInv(B), HandleAck, WellOrdered
  PROVE  ConfigInv(B)'
<1>1. CASE UNCHANGED <<cfgQ, answers>>
  BY ZenonT(30), <1>1, ConfigsStay
<1>2. CASE ConfigAck(Head(up).body) /\ Matches(cfgQ, Head(up).body.ref) # {}
  <2> DEFINE hit == Matches(cfgQ, Head(up).body.ref)
             i == CHOOSE i \in hit : \A j \in hit : i <= j
  <2>1. Answer(i, Head(up).body.result)
    BY <1>2, ZenonT(30) DEF ConfigAck
  <2>2. hit \subseteq Nat /\ hit \subseteq 1 .. Len(cfgQ)
    BY DEF Matches
  <2>3. \E k \in hit : \A j \in hit : k <= j
    BY <1>2, <2>2, ZenonT(30) DEF WellOrdered
  <2>4. i \in 1 .. Len(cfgQ)
    BY ZenonT(30), <2>2, <2>3
  <2> HIDE DEF i
  <2> QED
    BY ZenonT(30), <2>1, <2>4, AnswerKeeps
<1> QED
  BY <1>1, <1>2, ZenonT(30) DEF HandleAck, CommandAck, ConfigAck

\* Whatever happens, a config is pending once or answered once.
LEMMA ConfigStep ==
  ASSUME NEW B, ConfigInv(B), bTx \in B, WellOrdered, [Next]_vars
  PROVE  ConfigInv(B)'
<1>1. CASE UNCHANGED bQueues
  <2>1. UNCHANGED <<cfgQ, answers>>
    BY <1>1, ZenonT(30) DEF bQueues
  <2> QED
    BY ZenonT(30), <2>1, ConfigsStay
<1>2. CASE BridgeCommandSteps
  <2>1. ASSUME NEW c \in Commands, SendCommand(c) PROVE ConfigInv(B)'
    BY <2>1, ConfigsStay, ZenonT(30) DEF SendCommand
  <2>2. ASSUME NEW f \in Configs, SendConfig(f) PROVE ConfigInv(B)'
    BY ZenonT(30), <2>2, SendConfigPends
  <2>3. ASSUME NEW i \in 1 .. Len(cmdQ), RetryCommand(i) \/ CommandTimeout(i) PROVE ConfigInv(B)'
    BY <2>3, ConfigsStay, ZenonT(30) DEF RetryCommand, CommandTimeout
  <2>4. ASSUME NEW i \in 1 .. Len(cfgQ), ServeConfig(i) PROVE ConfigInv(B)'
    BY ZenonT(30), <2>4, ServeConfigPends
  <2>5. CASE HandleAck
    BY ZenonT(30), <2>5, HandleAckPends
  <2>6. CASE BridgeRestart
    <3>1. cfgQ' = << >> /\ answers' = answers
      BY <2>6, ZenonT(30) DEF BridgeRestart
    <3>2. cfgQ' \in Seq(PendingConfigs(B))
      BY SMTT(30), <3>1
    <3>3. 1 .. Len(cfgQ') = {}
      BY SMTT(30), <3>1
    <3> QED
      BY <3>1, <3>2, <3>3, ZenonT(30) DEF ConfigInv, PendingConfigs
  <2>7. CASE EvictSession
    BY <2>7, ConfigsStay, ZenonT(30) DEF EvictSession, bQueues
  <2> QED
    BY <1>2, <2>1, <2>2, <2>3, <2>4, <2>5, <2>6, <2>7, ZenonT(30) DEF BridgeCommandSteps
<1>3. CASE RemoteCommandSteps
  <2>1. UNCHANGED bQueues
    BY <1>3, ZenonT(30) DEF RemoteCommandSteps, HandleCommand, HandleConfig, HandleDeauth, PruneCommand, GiveUp,
                RemoteRestart, RouteRecovery, RouteResumed
  <2> QED
    BY ZenonT(30), <1>1, <2>1
<1> QED
  BY <1>1, <1>2, <1>3, ZenonT(30) DEF Next, vars

\* The first state.
LEMMA ConfigStart ==
  ASSUME Init
  PROVE  ConfigInv({})
<1>1. cfgQ = << >> /\ answers = [f \in Configs |-> << >>] /\ cfgQ \in Seq(PendingConfigs({})) /\ 1 .. Len(cfgQ) = {}
  BY DEF Init, BridgeCommandsInit
<1> QED
  BY <1>1, ZenonT(30) DEF ConfigInv, PendingConfigs

-----------------------------------------------------------------------------
(* The invariant.                                                           *)

\* The first state: nothing is claimed, nothing was applied.
LEMMA CommandStart ==
  ASSUME Init
  PROVE  CommandInv
<1>1. /\ bKey = 0 /\ bTx = 1 /\ rKey = 0 /\ rTx = 1 /\ keys = 0 /\ down = << >> /\ up = << >>
      /\ cmdQ = << >> /\ issued = << >> /\ acked = {} /\ rDone = [e \in Entities |-> 0]
      /\ rTable = EmptyTable /\ rLast = NoConfig /\ boots = 0 /\ applied = << >>
  BY Zenon DEF Init, PairInit, BridgeCommandsInit, RemoteCommandsInit
<1>2. PICK x \in DOMAIN Scenarios : hits = [sc |-> x, loss |-> 0, dup |-> 0, forgot |-> FALSE]
  BY Zenon DEF Init, PairInit
<1>3. hits \in [sc : DOMAIN Scenarios, loss : Nat, dup : Nat, forgot : BOOLEAN] /\ sc = Scenarios[x]
  BY <1>2, ZenonT(30) DEF sc
<1>4. sc.cap \in Nat
  BY <1>3, PairAssumption, ZenonT(30) DEF PairScenario
<1>5. /\ down \in Seq(DownFrames) /\ Len(down) = 0 /\ up \in Seq(UpFrames) /\ Len(up) = 0
      /\ cmdQ \in Seq([cmd : Commands, base : Nat, retry : Nat]) /\ Len(cmdQ) = 0
      /\ issued \in Seq(Commands \cup Configs)
      /\ applied \in Seq([boot : Nat, entity : Entities, payload : SUBSET Commands]) /\ Len(applied) = 0
  BY SMTT(30), <1>1
<1>6. rTable \in Tables /\ Assembling = {}
  BY <1>1, ZenonT(30) DEF Tables, EmptyTable, Assembling
<1>7. rLast \in [valid : BOOLEAN, tx : Nat, result : Results]
  BY <1>1, ZenonT(30) DEF NoConfig, Results
<1>8. rDone \in [Entities -> Nat] /\ \A e \in Entities : rDone[e] = 0
  BY ZenonT(30), <1>1
<1>9. Typed
  <2>1. Len(down) <= sc.cap
    BY SMTT(30), <1>4, <1>5
  <2> QED
    BY <1>1, <1>3, <1>5, <1>6, <1>7, <1>8, <2>1, SMTT(30) DEF Typed
<1>10. CmdAt = {} /\ QueueAt = {} /\ AppliedAt = {} /\ 1 .. Len(up) = {}
  BY <1>5, SMTT(30) DEF CmdAt, QueueAt, AppliedAt
<1>11. Claims = {} /\ QueueClaims = {}
  BY <1>6, <1>10, ZenonT(30) DEF Claims, Air, FrameClaims, KeptClaims, QueueClaims
<1>12. FragmentsSound
  BY <1>6, <1>10, ZenonT(30) DEF FragmentsSound
<1>13. ClaimsOrdered
  BY <1>1, <1>11, ZenonT(30) DEF ClaimsOrdered
<1>14. OrderKept
  <2>1. 0 <= CounterSpan \div 2
    BY SMTT(30), AssemblyAssumption
  <2> QED
    BY <1>8, <1>10, <2>1, ZenonT(30) DEF OrderKept
<1>15. AcksTrue
  BY <1>1, <1>8, <1>10, <1>11, SMTT(30) DEF AcksTrue
<1> QED
  BY <1>1, <1>9, <1>12, <1>13, <1>14, <1>15, ZenonT(30) DEF CommandInv

\* Every step keeps the invariant.
LEMMA CommandStep ==
  ASSUME CommandInv, ConfigInv(Nat), CountersLow, WellOrdered, [Next]_vars
  PROVE  CommandInv'
<1>1. CASE UNCHANGED vars
  <2>1. UNCHANGED <<bQueues, rCommands, bKey, bTx, rKey, rTx, keys, down, up, hits>>
    BY <1>1, ZenonT(30) DEF vars, pairVars, path, bSession, rSession
  <2>2. Typed /\ rTx \in Nat
    BY ZenonT(30) DEF CommandInv, Typed
  <2>3. DownFine /\ UpFine
    BY ZenonT(30), <2>1, <2>2, DownSteps, UpSteps
  <2>4. hits' \in Hits /\ SameScenario /\ hits'.forgot = hits.forgot
    BY ZenonT(30), <2>1, <2>2, HitsSteps
  <2> QED
    BY ZenonT(30), <2>1, <2>2, <2>3, <2>4, PathStep
<1>2. CASE (SessionSteps \/ Rejoin) /\ UNCHANGED <<bQueues, rCommands>>
  BY ZenonT(30), <1>2, SessionStepsKeep, RejoinKeeps
<1>3. CASE BridgeCommandSteps /\ UNCHANGED rCommands
  <2>1. ASSUME NEW c \in Commands, SendCommand(c) PROVE CommandInv'
    BY ZenonT(30), <1>3, <2>1, SendCommandKeeps
  <2>2. ASSUME NEW f \in Configs, SendConfig(f) PROVE CommandInv'
    BY ZenonT(30), <1>3, <2>2, SendConfigKeeps
  <2>3. ASSUME NEW i \in 1 .. Len(cmdQ), RetryCommand(i) \/ CommandTimeout(i) PROVE CommandInv'
    BY ZenonT(30), <1>3, <2>3, RetriesKeep
  <2>4. ASSUME NEW i \in 1 .. Len(cfgQ), ServeConfig(i) PROVE CommandInv'
    BY ZenonT(30), <1>3, <2>4, ServeConfigKeeps
  <2>5. CASE HandleAck
    BY ZenonT(30), <1>3, <2>5, HandleAckKeeps
  <2>6. CASE BridgeRestart \/ EvictSession
    BY ZenonT(30), <1>3, <2>6, ForgetKeeps
  <2> QED
    BY <1>3, <2>1, <2>2, <2>3, <2>4, <2>5, <2>6, ZenonT(30) DEF BridgeCommandSteps
<1>4. CASE RemoteCommandSteps
  BY <1>4, HandleCommandKeeps, HandleConfigKeeps, QuietLeafKeeps, ZenonT(30) DEF RemoteCommandSteps
<1> QED
  BY <1>1, <1>2, <1>3, <1>4, ZenonT(30) DEF Next

-----------------------------------------------------------------------------
(* The theorems.                                                            *)

LOCAL INSTANCE WellFoundedInduction

\* A set of numbers has a least member, since < is well-founded on Nat.
LEMMA LeastMember == WellOrdered
<1> SUFFICES ASSUME NEW T \in SUBSET Nat, T # {} PROVE \E k \in T : \A j \in T : k <= j
  BY Zenon DEF WellOrdered
<1>1. IsWellFoundedOn(OpToRel(<, Nat), Nat)
  BY Zenon, NatLessThanWellFounded
<1>2. PICK k \in T : \A j \in T : ~ (<<j, k>> \in OpToRel(<, Nat))
  BY Zenon, <1>1, WFMin
<1>3. \A j \in T : ~(j < k)
  BY <1>2, Zenon DEF OpToRel
<1> QED
  BY <1>3

\* The library's theorems on finite sets, and the fact that its Cardinality is the one
\* of the model.
Library == INSTANCE FiniteSetTheorems

\* The two definitions of Cardinality are the same text.
LEMMA SameCardinality == \A S : Cardinality(S) = Library!Cardinality(S)
BY Zenon DEF Cardinality, Library!Cardinality

\* The invariant without a bound on the counters.
PendingOnce == \E B : ConfigInv(B)

\* A config that is pending is so once, and has no answer.
LEMMA PendingOnceCounts ==
  ASSUME PendingOnce
  PROVE  ConfigAnsweredOnce
<1>1. PICK B : ConfigInv(B)
  BY ZenonT(30) DEF PendingOnce
<1> SUFFICES ASSUME NEW f \in Configs
             PROVE  Cardinality({i \in 1 .. Len(cfgQ) : cfgQ[i].cfg = f}) + Len(answers[f]) <= 1
  BY Zenon DEF ConfigAnsweredOnce
<1> DEFINE T == {i \in 1 .. Len(cfgQ) : cfgQ[i].cfg = f}
<1>2. ASSUME T = {} PROVE Cardinality(T) + Len(answers[f]) <= 1
  <2>1. Cardinality(T) = 0
    BY ZenonT(30), <1>2, SameCardinality, Library!FS_EmptySet
  <2>2. answers[f] = << >> \/ Len(answers[f]) = 1
    BY <1>1, ZenonT(30) DEF ConfigInv
  <2>3. Len(answers[f]) = 0 \/ Len(answers[f]) = 1
    BY SMTT(30), <2>2
  <2> HIDE DEF T
  <2>4. CASE Len(answers[f]) = 0
    BY SMTT(30), <2>1, <2>4
  <2>5. CASE Len(answers[f]) = 1
    BY SMTT(30), <2>1, <2>5
  <2> QED
    BY ZenonT(30), <2>3, <2>4, <2>5
<1>3. ASSUME NEW k \in T PROVE Cardinality(T) + Len(answers[f]) <= 1
  <2>1. T = {k}
    BY <1>1, <1>3, ZenonT(30) DEF ConfigInv
  <2>2. Cardinality(T) = 1
    BY ZenonT(30), <2>1, SameCardinality, Library!FS_Singleton
  <2>3. answers[f] = << >>
    BY <1>1, <1>3, ZenonT(30) DEF ConfigInv
  <2>4. Len(answers[f]) = 0
    BY SMTT(30), <2>3
  <2> HIDE DEF T
  <2> QED
    BY SMTT(30), <2>2, <2>4
<1> QED
  BY ZenonT(30), <1>2, <1>3

\* The callback of a config is made once, whatever the radio, the leaf and the
\* sessions do: handle_ack_ and the timeouts of loop() erase what they answer.
THEOREM AnsweredOnce == Spec => []ConfigAnsweredOnce
<1>1. Init => PendingOnce
  BY ConfigStart, ZenonT(30) DEF PendingOnce
<1>2. PendingOnce /\ [Next]_vars => PendingOnce'
  <2> SUFFICES ASSUME NEW B, ConfigInv(B), [Next]_vars PROVE PendingOnce'
    BY Zenon DEF PendingOnce
  <2>1. PICK C : C = B \cup {bTx}
    BY Zenon
  <2>2. ConfigInv(C)
    BY ZenonT(30), <2>1, MoreBases
  <2>3. ConfigInv(C)'
    BY ZenonT(30), <2>1, <2>2, ConfigStep, LeastMember
  <2> QED
    BY <2>3, ZenonT(30) DEF PendingOnce
<1>3. PendingOnce => ConfigAnsweredOnce
  BY ZenonT(30), PendingOnceCounts
<1> QED
  BY <1>1, <1>2, <1>3, PTL DEF Spec

\* The invariant holds in every state of a behaviour whose counters stay low.
LEMMA CommandInvariant == Spec /\ []CountersLow => [](CommandInv /\ ConfigInv(Nat))
<1>1. Init => CommandInv /\ ConfigInv(Nat)
  BY ZenonT(30), CommandStart, ConfigStart, MoreBases
<1>2. CommandInv /\ ConfigInv(Nat) /\ CountersLow /\ [Next]_vars => CommandInv' /\ ConfigInv(Nat)'
  <2> SUFFICES ASSUME CommandInv, ConfigInv(Nat), CountersLow, [Next]_vars
               PROVE  CommandInv' /\ ConfigInv(Nat)'
    BY ZenonT(30)
  <2>1. bTx \in Nat
    BY ZenonT(30) DEF CommandInv, Typed
  <2> QED
    BY ZenonT(30), <2>1, CommandStep, ConfigStep, LeastMember
<1> QED
  BY <1>1, <1>2, PTL DEF Spec

\* What the leaf hands to command_fn_ is one command.
THEOREM PayloadsAreWhole == Spec /\ []CountersLow => []PayloadsNotMixed
<1>1. CommandInv => PayloadsNotMixed
  BY ZenonT(30) DEF CommandInv, OrderKept, PayloadsNotMixed, AppliedAt
<1> QED
  BY <1>1, CommandInvariant, PTL

\* The commands of an entity are applied once, in the order they were issued.
THEOREM CommandsInOrder == Spec /\ []CountersLow => []AppliedInOrder
<1>1. CommandInv => AppliedInOrder
  BY ZenonT(30) DEF CommandInv, OrderKept, AppliedInOrder, AppliedAt
<1> QED
  BY <1>1, CommandInvariant, PTL

\* An ack takes out of the queue only a command that was applied.
THEOREM AcksAreTrue == Spec /\ []CountersLow => []AckedWasApplied
<1>1. CommandInv => AckedWasApplied
  BY Zenon DEF CommandInv, AcksTrue, AckedWasApplied, WasApplied, AppliedAt
<1> QED
  BY <1>1, CommandInvariant, PTL
=============================================================================
