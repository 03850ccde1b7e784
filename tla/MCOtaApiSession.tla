-------------------------- MODULE MCOtaApiSession --------------------------
(***************************************************************************)
(* Instances of OtaApiSession.                                             *)
(***************************************************************************)
EXTENDS OtaApiSession

Base ==
  [perInc |-> 2, incs |-> 1, batch |-> 1, prompt |-> TRUE,
   start |-> 2, gap |-> 0, fail |-> 0, abort |-> 0, drop |-> 0]

MCScenarios == <<
    \* two jobs, one of them aborted, and a connection that is lost
    [Base EXCEPT !.gap = 1, !.abort = 1, !.drop = 1],
    \* two increments, a failure on the radio side and a lost connection
    [Base EXCEPT !.incs = 2, !.batch = 2, !.gap = 1, !.fail = 1, !.drop = 1],
    \* two increments, a failure on the radio side and an aborted job
    [Base EXCEPT !.incs = 2, !.batch = 2, !.fail = 1, !.abort = 1],
    \* a WebSocket task that may be slower than the leaf
    [Base EXCEPT !.perInc = 3, !.incs = 2, !.prompt = FALSE, !.start = 1, !.gap = 2, !.fail = 1]
  >>
=============================================================================
