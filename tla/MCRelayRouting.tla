--------------------------- MODULE MCRelayRouting ---------------------------
(* Scenarios of RelayRouting for TLC: remotes A, B and C, of which A and B relay. *)
EXTENDS RelayRouting, TLC

\* bridge - A - B - C
Line == {{"A", "br"}, {"A", "B"}, {"B", "C"}}
\* bridge - A - B - bridge, and C out of range
Ring == {{"A", "br"}, {"B", "br"}, {"A", "B"}}

NoPreference == [x \in Nodes |-> <<>>]
\* A's preferred parent is B, its child.
AToB == [x \in Nodes |-> IF x = "A" THEN <<"B">> ELSE <<>>]

Base == [near |-> Ring, mobile |-> {}, preferred |-> NoPreference, talkers |-> {},
         loss |-> 0, move |-> 0, boot |-> 0, recover |-> 0, persistent |-> FALSE]

MCScenarios ==
  <<\* a relay that prefers its own child as parent
    [Base EXCEPT !.near = Line, !.preferred = AToB, !.talkers = {"C"}, !.loss = 1,
                 !.recover = 1],
    \* a lost frame and a restart, or a look for a better parent
    [Base EXCEPT !.loss = 1, !.boot = 1],
    [Base EXCEPT !.loss = 1, !.recover = 1],
    \* a link that goes away for good; A and B are alike, so it is one of B's
    [Base EXCEPT !.talkers = {"A", "B"}, !.mobile = {{"B", "br"}}, !.move = 1, !.persistent = TRUE]>>
=============================================================================
