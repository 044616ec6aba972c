------------------------------- MODULE Pipeline -------------------------------
(***************************************************************************)
(* What one call of JobRouter.execute promises to the task that awaits it: *)
(* it reports phases to the job store and waits for the other services in  *)
(* the order of Phases, and returns whatever those services do, unless the *)
(* task is cancelled or its process dies.                                  *)
(*                                                                         *)
(* Gateway drives its pipeline tasks by the same relation; JobRouter, the  *)
(* detailed model of the method, is checked to implement FairSpec.         *)
(***************************************************************************)
EXTENDS Phases

VARIABLE stage    \* the await the method is suspended at

Init == stage = "phase0"

Advance == \E t \in Stages : Follows(stage, t) /\ stage' = t

Stop == stage \notin {"returned", "stopped"} /\ stage' = "stopped"

Spec == Init /\ [][Advance \/ Stop]_stage

FairSpec == Spec /\ WF_stage(Advance)
===============================================================================
