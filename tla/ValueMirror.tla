----------------------------- MODULE ValueMirror -----------------------------
(***************************************************************************)
(* What the path from a leaf to Home Assistant promises: several views of  *)
(* the entities' values that may lag behind and never go back.             *)
(***************************************************************************)
EXTENDS Naturals

CONSTANTS Entities

VARIABLES
  value,   \* value[e]: how often entity e has changed
  view     \* view[s][e]: the value of e that view s holds, 0 for none

vars == <<value, view>>

Init ==
  /\ value = [e \in Entities |-> 1]
  /\ view = [s \in {"BRIDGE", "MQTT", "API"} |-> [e \in Entities |-> 0]]

Change(e) ==
  /\ value' = [value EXCEPT ![e] = @ + 1]
  /\ UNCHANGED view

\* A view takes over newer values.
CatchUp(s) ==
  /\ \A e \in Entities : view'[s][e] \in view[s][e] .. value[e]
  /\ view' = [view EXCEPT ![s] = view'[s]]
  /\ UNCHANGED value

\* The bridge restarts and has no values.
Forget ==
  /\ view' = [view EXCEPT !["BRIDGE"] = [e \in Entities |-> 0]]
  /\ UNCHANGED value

Next == (\E e \in Entities : Change(e)) \/ (\E s \in {"BRIDGE", "MQTT", "API"} : CatchUp(s)) \/ Forget

Spec == Init /\ [][Next]_vars
=============================================================================
