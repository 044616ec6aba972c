----------------------------- MODULE JobLifecycle -----------------------------
(***************************************************************************)
(* What the job API promises a client about one job id that is submitted   *)
(* once and neither deleted nor evicted: "submitted -> running -> phase    *)
(* updates -> completed/failed" (job_store.py).  A job is "publishing"     *)
(* while its status already reads completed but its task has not returned: *)
(* the window the two separate Redis writes leave open, in which the job   *)
(* can still turn out failed.                                              *)
(***************************************************************************)
EXTENDS Naturals

VARIABLES stage, progress

vars == <<stage, progress>>

Stages == {"absent", "submitted", "running", "publishing", "completed", "failed"}

Init == stage = "absent" /\ progress = 0

Submit == stage = "absent" /\ stage' = "submitted" /\ UNCHANGED progress

\* The progress a client polls never goes back.
Advance ==
  /\ stage \in {"submitted", "running"}
  /\ stage' = "running"
  /\ progress' \in progress..9

Publish ==
  /\ stage \in {"submitted", "running"}
  /\ stage' = "publishing"
  /\ progress' = 10

Conclude == stage = "publishing" /\ stage' = "completed" /\ UNCHANGED progress

Fail ==
  /\ stage \in {"submitted", "running", "publishing"}
  /\ stage' = "failed"
  /\ UNCHANGED progress

Next == Submit \/ Advance \/ Publish \/ Conclude \/ Fail

Spec == Init /\ [][Next]_vars

Fairness == WF_vars(Publish) /\ WF_vars(Conclude)

FairSpec == Spec /\ Fairness
===============================================================================
