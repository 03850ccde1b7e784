------------------------ MODULE DiscoverySweepProofs ------------------------
(***************************************************************************)
(* A round of the sweep is whole, for any number of channels, whatever is  *)
(* lost and wherever the parent moves (RoundIsWhole).                      *)
(*                                                                         *)
(* channel_index_ is left over from the last search in several places, and *)
(* the retry after a back-off starts at 0 by itself when it is past the    *)
(* end; the invariant says that while the remote sweeps the channels asked *)
(* on are the ones below the index, and that a back-off starts a round.    *)
(***************************************************************************)
EXTENDS DiscoverySweep, TLAPS

\* The sweep proper: no fast look, no look at the present channel only.
Sweeping == looking /\ ~waiting /\ ~fast /\ ~here

Types ==
  /\ index \in 0 .. Channels /\ radio \in 1 .. Channels /\ last \in 1 .. Channels
  /\ tries \in 0 .. 255 /\ phase \in 0 .. MaxPhase /\ home \in 1 .. Channels

Round ==
  /\ waiting => asked = {} /\ ~again
  /\ Sweeping => asked = 1 .. index
  /\ Sweeping /\ again => index = 0

SweepInv == Types /\ asked \subseteq 1 .. Channels /\ Round

\* sweep_channel_from_index: within a round the index counts the channels.
LEMMA ChannelOf ==
  ASSUME NEW i \in 0 .. Channels - 1
  PROVE  SweepChannel(i) = i + 1
<1>1. Channels \in Nat /\ Channels > 0 /\ i \in Nat /\ i < Channels
  BY SweepAssumption
<1>2. i \div Channels = 0
  BY ONLY <1>1
<1>3. i = Channels * (i \div Channels) + (i % Channels) /\ Channels * 0 = 0 /\ i % Channels \in Int
  BY ONLY <1>1
<1>4. i % Channels = i
  BY ONLY <1>1, <1>2, <1>3
<1> QED
  BY <1>4 DEF SweepChannel

\* A channel of the sweep is asked on.
LEMMA AskedNext ==
  ASSUME SweepInv, NEW i \in 0 .. Channels - 1, AskNext(i)
  PROVE  /\ radio' = i + 1 /\ index' = i + 1
         /\ radio' \in 1 .. Channels /\ index' \in 0 .. Channels
<1>1. SweepChannel(i) = i + 1
  BY ChannelOf
<1> QED
  BY <1>1, SweepAssumption DEF AskNext, Ask

\* The remote starts with no search under way.
LEMMA SweepInit == Init => SweepInv
<1> SUFFICES ASSUME Init PROVE SweepInv
  OBVIOUS
<1>1. Channels \in Nat \ {0} /\ MaxPhase \in Nat
  BY SweepAssumption
<1>2. radio \in 1 .. Channels
  BY <1>1 DEF Init
<1>3. Types
  BY <1>1, <1>2 DEF Init, Types
<1>4. Round /\ asked \subseteq 1 .. Channels
  BY DEF Init, Round, Sweeping
<1> QED
  BY <1>3, <1>4 DEF SweepInv

\* The steps of the search keep the invariant, each from the state it leaves the last in.
LEMMA SweepNext == SweepInv /\ [Next]_vars => SweepInv'
<1> SUFFICES ASSUME SweepInv, [Next]_vars PROVE SweepInv'
  OBVIOUS
<1>1. Channels \in Nat /\ Channels > 0 /\ MaxPhase \in Nat
  BY SweepAssumption
<1>2. SweepChannel(0) = 1 /\ 0 \in 0 .. Channels - 1
  BY <1>1, ChannelOf
<1> USE DEF SweepInv
<1>3. CASE EndWait
  <2>1. Types'
    BY <1>1, <1>2, <1>3 DEF EndWait, Types
  <2>2. asked' \subseteq 1 .. Channels
    BY <1>1, <1>2, <1>3 DEF EndWait, Types
  <2>3. Round'
    BY <1>1, <1>2, <1>3 DEF EndWait, Types, Round, Sweeping
  <2> QED
    BY <2>1, <2>2, <2>3
<1>4. CASE WifiConnects
  <2>1. Types'
    BY <1>1, <1>4 DEF WifiConnects, Types
  <2>2. asked' \subseteq 1 .. Channels
    BY <1>1, <1>4 DEF WifiConnects, Types
  <2>3. Round'
    BY <1>1, <1>4, Zenon DEF WifiConnects, Round, Sweeping
  <2> QED
    BY <2>1, <2>2, <2>3
<1>5. CASE AskAgain
  <2>1. CASE fast \/ here
    <3>1. Types'
      BY <1>1, <1>5, <2>1 DEF AskAgain, Ask, Due, Types
    <3>2. asked' \subseteq 1 .. Channels
      BY <1>5, <2>1 DEF AskAgain
    <3>3. Round'
      BY <1>5, <2>1, Zenon DEF AskAgain, Due, Round, Sweeping
    <3> QED
      BY <3>1, <3>2, <3>3
  <2>2. CASE ~(fast \/ here)
    <3>1. Sweeping /\ index = 0 /\ asked = {}
      BY <1>5, <2>2 DEF AskAgain, Due, Types, Round, Sweeping
    <3>2. AskNext(0) /\ asked' = {1}
      BY <1>1, <1>2, <1>5, <2>2, <3>1 DEF AskAgain
    <3>3. radio' = 1 /\ index' = 1
      BY <1>2, <3>2, AskedNext
    <3>4. 1 .. 1 = {1}
      OBVIOUS
    <3> QED
      BY <1>1, <1>5, <2>2, <3>2, <3>3, <3>4 DEF AskAgain, Types, Round, Sweeping
  <2> QED
    BY <2>1, <2>2
<1>6. CASE AskFast
  <2>1. CASE tries = 0
    BY <1>1, <1>6, <2>1 DEF AskFast, Ask, Due, Types, Round, Sweeping
  <2>2. CASE tries = 1
    BY <1>1, <1>6, <2>2 DEF AskFast, Due, Types, Round, Sweeping
  <2>3. CASE tries # 0 /\ tries # 1
    <3>1. AskNext(0) /\ asked' = {1}
      BY <1>2, <1>6, <2>3 DEF AskFast
    <3>2. radio' = 1 /\ index' = 1
      BY <1>2, <3>1, AskedNext
    <3>3. 1 .. 1 = {1}
      OBVIOUS
    <3> QED
      BY <1>1, <1>6, <2>3, <3>1, <3>2, <3>3 DEF AskFast, Due, Types, Round, Sweeping
  <2> QED
    BY <2>1, <2>2, <2>3
<1>7. CASE AskHere
  <2>1. Types'
    BY <1>1, <1>7 DEF AskHere, Ask, BackOff, Due, Types
  <2>2. asked' \subseteq 1 .. Channels
    BY <1>1, <1>7 DEF AskHere, Ask, BackOff, Due, Types
  <2>3. Round'
    BY <1>1, <1>7, Zenon DEF AskHere, Ask, BackOff, Due, Round, Sweeping
  <2> QED
    BY <2>1, <2>2, <2>3
<1>8. CASE Sweep
  <2>1. CASE index < Channels
    <3>1. index \in 0 .. Channels - 1 /\ asked = 1 .. index /\ Sweeping /\ ~again
      BY <1>1, <1>8, <2>1 DEF Sweep, Due, Types, Round, Sweeping
    <3>2. AskNext(index) /\ asked' = asked \cup {index + 1}
      BY <1>8, <2>1, <3>1, ChannelOf DEF Sweep
    <3>3. radio' = index + 1 /\ index' = index + 1
      BY <3>1, <3>2, AskedNext
    <3>4. asked' = 1 .. index'
      BY <1>1, <3>1, <3>2, <3>3
    <3> QED
      BY <1>1, <1>8, <2>1, <3>1, <3>3, <3>4 DEF Sweep, Types, Round, Sweeping
  <2>2. CASE ~(index < Channels)
    BY <1>1, <1>8, <2>2 DEF Sweep, BackOff, Due, Types, Round, Sweeping
  <2> QED
    BY <2>1, <2>2
<1>9. CASE CloseWindow \/ Adopt \/ Join
  <2>1. Types' /\ asked' = asked
    BY <1>1, <1>9 DEF CloseWindow, Adopt, Join, Types
  <2>2. CASE CloseWindow
    BY <2>1, <2>2, Zenon DEF CloseWindow, Round, Sweeping
  <2>3. CASE Adopt \/ Join
    <3>1. ~looking' /\ waiting' = waiting /\ (again' => again)
      BY <2>3 DEF Adopt, Join
    <3> QED
      BY <2>1, <3>1, Zenon DEF Round, Sweeping
  <2> QED
    BY <1>9, <2>2, <2>3
<1>10. CASE RecoverRoute
  <2>1. Types'
    BY <1>1, <1>10 DEF RecoverRoute, Lost, Reset, Types
  <2>2. asked' \subseteq 1 .. Channels
    BY <1>1, <1>10 DEF RecoverRoute, Lost, Reset, Types
  <2>3. Round'
    BY <1>1, <1>10, Zenon DEF RecoverRoute, Lost, Reset, Round, Sweeping
  <2> QED
    BY <2>1, <2>2, <2>3
<1>11. CASE StartDiscovery
  <2>1. Types'
    BY <1>1, <1>2, <1>11 DEF StartDiscovery, Lost, Reset, Types
  <2>2. asked' \subseteq 1 .. Channels
    BY <1>1, <1>2, <1>11 DEF StartDiscovery, Lost, Reset, Types
  <2>3. Round'
    BY <1>1, <1>2, <1>11 DEF StartDiscovery, Lost, Reset, Types, Round, Sweeping
  <2> QED
    BY <2>1, <2>2, <2>3
<1>12. CASE FullRediscovery
  <2>1. Types'
    BY <1>1, <1>2, <1>12 DEF FullRediscovery, Lost, Reset, Types
  <2>2. asked' \subseteq 1 .. Channels
    BY <1>1, <1>2, <1>12 DEF FullRediscovery, Lost, Reset, Types
  <2>3. Round'
    BY <1>1, <1>2, <1>12 DEF FullRediscovery, Lost, Reset, Types, Round, Sweeping
  <2> QED
    BY <2>1, <2>2, <2>3
<1>13. CASE UNCHANGED vars
  <2>1. Types'
    BY <1>13 DEF vars, search, Types
  <2>2. asked' \subseteq 1 .. Channels
    BY <1>13 DEF vars, search, Types
  <2>3. Round'
    BY <1>13, Zenon DEF vars, search, Round, Sweeping
  <2> QED
    BY <2>1, <2>2, <2>3
<1> QED
  BY <1>3, <1>4, <1>5, <1>6, <1>7, <1>8, <1>9, <1>10, <1>11, <1>12, <1>13 DEF Next, Look

\* A back-off in the sweep comes after the last channel.
LEMMA RoundStep ==
  ASSUME SweepInv, [Next]_vars
  PROVE  [~again /\ again' /\ ~fast /\ ~here => asked = 1 .. Channels]_vars
<1> SUFFICES ASSUME Next, ~again, again', ~fast, ~here PROVE asked = 1 .. Channels
  BY DEF vars
<1>1. Sweep /\ ~(index < Channels)
  BY DEF Next, Look, EndWait, WifiConnects, AskAgain, AskFast, AskHere, Sweep, CloseWindow, Adopt, Join,
     RecoverRoute, StartDiscovery, FullRediscovery, Reset
<1>2. asked = 1 .. index /\ index \in 0 .. Channels
  BY <1>1 DEF Sweep, Due, SweepInv, Types, Round, Sweeping
<1> QED
  BY <1>1, <1>2, SweepAssumption

\* A sweep that backs off because nobody answered has asked on every channel: in the first
\* round, after a fast look that found nothing and in the rounds after a back-off.
THEOREM RoundsAreWhole == Spec => RoundIsWhole
<1> QED
  BY SweepInit, SweepNext, RoundStep, PTL DEF Spec, RoundIsWhole
=============================================================================
