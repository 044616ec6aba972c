-------------------------------- MODULE Phases --------------------------------
(***************************************************************************)
(* The awaits of one JobRouter.execute, in the order the code makes them.  *)
(* An update stage is an update_phase call (one Redis HSET); a call stage  *)
(* is a request to the crawler, agent or data-processor service.           *)
(***************************************************************************)

UpdateStages == {"phase0", "phase1", "phase2", "phase3"}

CallStages == {"analyze", "crawl", "agent", "process", "audit"}

Stages == UpdateStages \cup CallStages \cup {"returned"}

\* The await that comes after s when s came back: no raw records send the
\* job from the template to the agent, and past phase 3 to the audit.
OnAnswer(s, t) ==
  \/ s = "phase0"  /\ t = "analyze"
  \/ s = "analyze" /\ t = "phase1"
  \/ s = "phase1"  /\ t = "crawl"
  \/ s = "crawl"   /\ t \in {"phase2", "phase3"}
  \/ s = "phase2"  /\ t = "agent"
  \/ s = "agent"   /\ t \in {"phase3", "audit"}
  \/ s = "phase3"  /\ t = "process"
  \/ s = "process" /\ t = "audit"
  \/ s = "audit"   /\ t = "returned"

\* "except Exception" turns whatever is raised before the finally block into
\* a FAILED result and goes on to the audit.
OnException(s, t) == s \in Stages \ {"audit", "returned"} /\ t = "audit"

Follows(s, t) == OnAnswer(s, t) \/ OnException(s, t)
===============================================================================
