--------------------------- MODULE MCStateDelivery ---------------------------
(***************************************************************************)
(* Small instances of StateDelivery.                                       *)
(***************************************************************************)
EXTENDS StateDelivery, TLC

\* Entity 1 is cut in two, the others are not.
FirstSplit == [e \in Entities |-> [v \in 1 .. MaxValue |-> IF e = 1 THEN 2 ELSE 1]]

Base == [cap |-> 2, loss |-> 1, dup |-> 0, sessions |-> 2, beats |-> 0, faults |-> {"remote restart"},
         entities |-> {1}, outages |-> 1, tx |-> 6, around |-> {}]

MCScenarios ==
  <<\* a value that changes at any time, sinks that disconnect
    [Base EXCEPT !.faults = {"remote restart", "give up"}, !.around = {"busy change", "command", "api"}],
    \* frames that arrive again, the bridge restarts or evicts the session
    [Base EXCEPT !.dup = 1, !.faults = {"evict", "bridge restart"},
                 !.around = {"busy change"}],
    \* two entities, one of them text
    [Base EXCEPT !.entities = {1, 2}, !.outages = 0, !.tx = 100],
    \* the timer of the heartbeat and of the contact interval
    [Base EXCEPT !.loss = 0, !.beats = 1, !.faults = {"offline"}, !.outages = 0]>>
=============================================================================
