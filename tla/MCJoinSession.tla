---------------------------- MODULE MCJoinSession ----------------------------
(* Scenarios of JoinSession for TLC. *)
EXTENDS JoinSession, TLC

Base == [leaves |-> {"l1"}, total |-> 2, loss |-> 1, dup |-> 0, boot |-> 1, change |-> 0,
          blocked |-> 0, faults |-> {"remote restart", "bridge restart"}]

MCScenarios ==
  <<\* one end restarts, frames get lost
    Base,
    \* and are repeated
    [Base EXCEPT !.total = 1, !.dup = 1],
    \* two losses, a new value and a restarted leaf
    [Base EXCEPT !.total = 1, !.loss = 2, !.change = 1, !.faults = {"remote restart"}],
    \* two leaves compete for the join slot
    [Base EXCEPT !.leaves = {"l1", "l2"}, !.total = 1, !.boot = 0, !.blocked = 1]>>
=============================================================================
