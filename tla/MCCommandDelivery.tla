------------------------- MODULE MCCommandDelivery -------------------------
(***************************************************************************)
(* Small instances of CommandDelivery.  Commands and configs are numbers.  *)
(***************************************************************************)
EXTENDS CommandDelivery, TLC

\* Odd commands are for entity 1 and cut in two, even ones for entity 2, which the
\* leaf does not know.
OddFirst == [c \in Commands |-> 2 - (c % 2)]
OddSplit == [c \in Commands |-> 1 + (c % 2)]

\* 10: a new heartbeat interval; 11: a new preferred parent; 12: rediscovery;
\* 13: a restart; 14: bad payload; others unsupported.
Kinds ==
  [f \in Configs |->
     CASE f = 10 -> "HEARTBEAT_INTERVAL"
       [] f = 11 -> "SET_PARENT_MAC"
       [] f = 12 -> "FORCE_REDISCOVER"
       [] f = 13 -> "REBOOT"
       [] f = 14 -> "BAD_VALUE"
       [] f = 15 -> "BAD_LENGTH"
       [] OTHER  -> "UNSUPPORTED"]

Base == [cap |-> 3, loss |-> 1, dup |-> 0, sessions |-> 2, beats |-> 0, faults |-> {}, asks |-> {1, 3},
         retries |-> 1]

MCScenarios ==
  <<\* timers expire before the answer can come
    [Base EXCEPT !.sessions = 1, !.faults = {"early"}],
    \* the leaf restarts, or joins again
    [Base EXCEPT !.faults = {"remote restart", "give up"}],
    \* the bridge restarts
    [Base EXCEPT !.beats = 1, !.faults = {"bridge restart"}, !.asks = {1, 2}],
    \* a session that holds
    [Base EXCEPT !.cap = 4, !.dup = 1, !.sessions = 1, !.retries = 2],
    \* configs while the session is evicted, given up, rerouted or timed out
    [Base EXCEPT !.cap = 2, !.beats = 1, !.asks = {10, 11},
                 !.faults = {"evict", "give up", "recovery", "offline"}],
    \* configs that end the session, one with a bad value and one nobody supports
    [Base EXCEPT !.loss = 0, !.sessions = 3, !.asks = {12, 13, 14, 16}]>>
=============================================================================
