--------------------------- MODULE DiscoverySweep ---------------------------
(***************************************************************************)
(* Where and when a remote asks for a parent (remote_protocol.cpp): the    *)
(* wait for WiFi, the look at the channel of the WiFi or of the last       *)
(* parent, the sweep over the channels and its back-off.                   *)
(*                                                                         *)
(* One possible parent sits on one channel and answers what it hears there *)
(* (module RelayRouting has the answers of several); taking it as parent   *)
(* ends the search.                                                        *)
(***************************************************************************)
EXTENDS Integers

CONSTANTS
  Channels,   \* how many channels there are
  MaxPhase,   \* the last of the back-off delays
  MaxLoss,    \* bound: requests or answers lost
  MaxMove,    \* bound: changes of the parent's channel
  Wifis       \* the kinds of WiFi: "none", "up" or "late" (not connected at first)

ASSUME SweepAssumption ==
  /\ Channels \in Nat \ {0} /\ MaxPhase \in Nat /\ MaxLoss \in Nat /\ MaxMove \in Nat
  /\ Wifis \subseteq {"none", "up", "late"}

VARIABLES
  waiting,  \* wifi_waiting_
  fast,     \* fast_rejoin_
  here,     \* discovery_current_channel_only_
  resume,   \* discovery_resume_normal_after_success_
  again,    \* discover_retry_pending_
  tries,    \* discover_retry_count_
  phase,    \* discover_phase_
  index,    \* channel_index_
  last,     \* last_known_channel_
  radio,    \* the channel the radio is on
  best,     \* best_parent_.valid
  done,     \* sweep_complete_
  looking,  \* discovering_
  asked,    \* channels asked on in this round of the sweep
  home,     \* the channel of the parent
  wifi,     \* wifi_connected_()
  hits      \* the kind of WiFi; losses and moves so far

search == <<waiting, fast, here, resume, again, tries, phase, index, last, radio, best, done, looking, asked>>
vars == <<search, home, wifi, hits>>

Wifi == hits.wifi

\* sweep_channel_from_index
SweepChannel(i) == (i % Channels) + 1

\* start_discovery_cycle_: straight after init there may be no WiFi yet.
Init ==
  /\ \E w \in Wifis : hits = [wifi |-> w, loss |-> 0, move |-> 0]
  /\ waiting = (Wifi = "late") /\ fast = FALSE /\ here = (Wifi = "up") /\ resume = FALSE
  /\ again = FALSE /\ tries = 0 /\ phase = 0 /\ index = 0 /\ last = 1
  /\ best = FALSE /\ done = FALSE /\ looking = TRUE /\ asked = {}
  /\ radio \in IF Wifi = "up" THEN 1 .. Channels ELSE {1}
  /\ home \in 1 .. Channels /\ wifi = (Wifi = "up")

\* loop(): WiFi is there, or the deadline has passed.
EndWait ==
  /\ waiting
  /\ waiting' = FALSE /\ here' = wifi /\ index' = 0
  /\ radio' = IF wifi THEN radio ELSE SweepChannel(0)
  /\ UNCHANGED <<fast, resume, again, tries, phase, last, best, done, looking, asked, home, wifi, hits>>

\* Wifi = "late": the access point takes the remote to its channel.
WifiConnects ==
  /\ Wifi = "late" /\ waiting /\ ~wifi
  /\ wifi' = TRUE /\ radio' \in 1 .. Channels
  /\ UNCHANGED <<waiting, fast, here, resume, again, tries, phase, index, last, best, done, looking, asked, home, hits>>

\* send_on_channel: an answer comes before the next look if nothing is lost.
Ask(c) ==
  /\ radio' = c
  /\ \/ best' = (c = home) /\ UNCHANGED hits
     \/ c = home /\ hits.loss < MaxLoss /\ best' = FALSE /\ hits' = [hits EXCEPT !.loss = @ + 1]

\* The next channel of the sweep
AskNext(i) == Ask(SweepChannel(i)) /\ index' = i + 1

\* loop(): the collection window is over and nobody has answered: send_discover_.
Due == looking /\ ~waiting /\ ~done /\ ~best

AskAgain ==
  /\ Due /\ again
  /\ again' = FALSE
  /\ IF fast \/ here
       THEN /\ Ask(IF fast THEN last ELSE radio) /\ tries' = (tries + 1) % 256   \* uint8_t
            /\ UNCHANGED <<index, asked>>
       ELSE LET i == IF index >= Channels THEN 0 ELSE index IN
            /\ AskNext(i) /\ asked' = asked \cup {SweepChannel(i)} /\ UNCHANGED tries
  /\ UNCHANGED <<waiting, fast, here, resume, phase, last, done, looking, home, wifi>>

\* Mutant: discovery_current_channel_only_ stays set after the fast look.
AskFastHere ==
  /\ Due /\ ~again /\ fast
  /\ CASE tries = 0 -> /\ Ask(last) /\ tries' = 1
                       /\ UNCHANGED <<fast, here, resume, again, phase, index, asked>>
       [] tries = 1 -> /\ again' = TRUE
                       /\ UNCHANGED <<fast, here, resume, tries, phase, index, radio, best, asked, hits>>
       [] OTHER -> /\ fast' = FALSE /\ here' = TRUE /\ resume' = TRUE /\ tries' = 0 /\ phase' = 0
                   /\ AskNext(0) /\ asked' = {SweepChannel(0)}
                   /\ UNCHANGED again
  /\ UNCHANGED <<waiting, last, done, looking, home, wifi>>

AskFast ==
  /\ Due /\ ~again /\ fast
  /\ CASE tries = 0 -> /\ Ask(last) /\ tries' = 1
                       /\ UNCHANGED <<fast, here, resume, again, phase, index, asked>>
       [] tries = 1 -> /\ again' = TRUE
                       /\ UNCHANGED <<fast, here, resume, tries, phase, index, radio, best, asked, hits>>
       [] OTHER -> /\ fast' = FALSE /\ here' = FALSE /\ resume' = TRUE /\ tries' = 0 /\ phase' = 0
                   /\ AskNext(0) /\ asked' = {SweepChannel(0)}
                   /\ UNCHANGED again
  /\ UNCHANGED <<waiting, last, done, looking, home, wifi>>

\* The back-off before the next try
BackOff == again' = TRUE /\ phase' = IF phase < MaxPhase THEN phase + 1 ELSE phase

AskHere ==
  /\ Due /\ ~again /\ ~fast /\ here
  /\ IF tries = 0
       THEN Ask(radio) /\ tries' = 1 /\ UNCHANGED <<again, phase>>
       ELSE BackOff /\ UNCHANGED <<tries, radio, best, hits>>
  /\ UNCHANGED <<waiting, fast, here, resume, index, last, done, looking, asked, home, wifi>>

\* Mutant: the next round starts after the first channel.
SweepFromTwo ==
  /\ Due /\ ~again /\ ~fast /\ ~here
  /\ IF index < Channels
       THEN /\ AskNext(index) /\ asked' = asked \cup {SweepChannel(index)}
            /\ UNCHANGED <<again, phase>>
       ELSE /\ BackOff /\ index' = 1 /\ asked' = {}
            /\ UNCHANGED <<radio, best, hits>>
  /\ UNCHANGED <<waiting, fast, here, resume, tries, last, done, looking, home, wifi>>

Sweep ==
  /\ Due /\ ~again /\ ~fast /\ ~here
  /\ IF index < Channels
       THEN /\ AskNext(index) /\ asked' = asked \cup {SweepChannel(index)}
            /\ UNCHANGED <<again, phase>>
       ELSE /\ BackOff /\ index' = 0 /\ asked' = {}
            /\ UNCHANGED <<radio, best, hits>>
  /\ UNCHANGED <<waiting, fast, here, resume, tries, last, done, looking, home, wifi>>

\* loop(): the collection window closes with a candidate.
CloseWindow ==
  /\ looking /\ ~waiting /\ ~done /\ best
  /\ done' = TRUE
  /\ UNCHANGED <<waiting, fast, here, resume, again, tries, phase, index, last, radio, best, looking, asked,
                 home, wifi, hits>>

\* adopt_best_parent_candidate_ when a lost route was looked for
Adopt ==
  /\ looking /\ done /\ resume
  /\ last' = radio /\ looking' = FALSE /\ done' = FALSE /\ fast' = FALSE /\ again' = FALSE /\ tries' = 0
  /\ UNCHANGED <<waiting, here, resume, phase, index, radio, best, asked, home, wifi, hits>>

\* The join (module JoinSession) and handle_join_ack_
Join ==
  /\ looking /\ done /\ ~resume
  /\ last' = radio /\ looking' = FALSE
  /\ UNCHANGED <<waiting, fast, here, resume, again, tries, phase, index, radio, best, done, asked, home, wifi, hits>>

\* The parent is lost: it may be on another channel now.
Lost ==
  /\ ~looking /\ hits.move < MaxMove
  /\ home' \in 1 .. Channels /\ hits' = [hits EXCEPT !.move = @ + 1]

\* What every new search resets
Reset ==
  /\ looking' = TRUE /\ done' = FALSE /\ best' = FALSE /\ again' = FALSE /\ tries' = 0 /\ phase' = 0 /\ asked' = {}
  /\ UNCHANGED <<last, wifi>>

\* start_route_recovery_cycle_
RecoverRoute ==
  /\ Lost /\ Reset
  /\ fast' = TRUE /\ resume' = TRUE /\ here' = TRUE /\ waiting' = FALSE /\ index' = 0
  /\ UNCHANGED radio

\* start_discovery_cycle_(): the session is over.
StartDiscovery ==
  /\ Lost /\ Reset
  /\ fast' = FALSE /\ resume' = FALSE
  /\ waiting' = (Wifi # "none" /\ ~wifi) /\ here' = wifi
  /\ index' = IF waiting' THEN index ELSE 0
  /\ radio' = IF wifi \/ waiting' THEN radio ELSE SweepChannel(0)

\* start_config_full_rediscovery_
FullRediscovery ==
  /\ Lost /\ Reset
  /\ fast' = FALSE /\ resume' = FALSE /\ here' = FALSE /\ waiting' = FALSE /\ index' = 0
  /\ radio' = SweepChannel(0)

Look == EndWait \/ AskAgain \/ AskFast \/ AskHere \/ Sweep \/ CloseWindow \/ Adopt \/ Join

Next == Look \/ WifiConnects \/ RecoverRoute \/ StartDiscovery \/ FullRediscovery

Spec == Init /\ [][Next]_vars

\* loop() runs.
FairSpec == Spec /\ WF_vars(Look)

-----------------------------------------------------------------------------
TypeOK ==
  /\ index \in 0 .. Channels /\ radio \in 1 .. Channels /\ last \in 0 .. Channels
  /\ tries \in 0 .. 255 /\ phase \in 0 .. MaxPhase /\ asked \subseteq 1 .. Channels

\* A sweep that backs off because nobody answered has asked on every channel, also in the
\* round after a fast look that found nothing and in the rounds after a back-off.
RoundIsWhole ==
  [][~again /\ again' /\ ~fast /\ ~here => asked = 1 .. Channels]_vars

\* A remote that looks for a parent finds it, on whatever channel it is now, unless it asks
\* on the channel of its WiFi only and the parent is on another.
FindsParent == looking ~> ~looking \/ (wifi /\ here /\ ~fast /\ radio # home)

-----------------------------------------------------------------------------
\* Not true of the code, although a document, a comment or the design says so: section 4
\* of README.md tells what happens instead.

\* A remote that looks for a parent finds it, also when it is on WiFi.
FindsParentOnWifi == looking ~> ~looking

\* A parent is chosen after a whole sweep, not on the first channel that answers.
SweepBeforeChoice == done /\ ~here => asked = 1 .. Channels
=============================================================================
