-------------------------- MODULE MCOtaTerminates --------------------------
(***************************************************************************)
(* A transfer under its fairness, with a history variable that tells which *)
(* behaviours met a fault.                                                 *)
(***************************************************************************)
EXTENDS MCOtaTransfer

Sound == INSTANCE OtaTransfer WITH Faults <- {}

\* History: no fault but lost frames has happened, at least not before the transfer
\* failed; every step until then is one of the specification without the faults.
VARIABLE clean

MCInit == Init /\ clean = TRUE
MCNext == Next /\ clean' = (clean /\ (Sound!Next \/ bPublic = "FAIL"))
MCSpec == MCInit /\ [][MCNext]_<<vars, clean>> /\ Fairness

\* A transfer that meets no fault but one lost frame is completed: the image is
\* verified, the manager reports SUCCESS and the remote restarts into it.
OneLossRecovered ==
  \A f \in Files : bFile = f ~> (bPublic = "SUCCESS" /\ rRunning = f) \/ ~clean \/ losses > 1
=============================================================================
