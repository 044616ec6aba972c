------------------------------- MODULE Gateway --------------------------------
(***************************************************************************)
(* The API gateway: the handlers of routers/crawl.py, the pipeline tasks   *)
(* they leave running in the event loops of the uvicorn workers, and the   *)
(* two Redis keys per job they all share.                                  *)
(*                                                                         *)
(* A run is one POST /crawl with the background task it starts.  Its job   *)
(* id is chosen by the client, so several runs may have the same one.  One *)
(* step of a run is the code between two awaits; every await is a point    *)
(* where other runs, clients, Redis and the operating system interfere:    *)
(*   - a Redis command of a run in Faulty may raise, applied or not;       *)
(*   - a worker in Mortal may crash, or be shut down and started again;    *)
(*   - the keys of a job in Removable may be deleted by a client, reach    *)
(*     their TTL or be evicted (allkeys-lru).                              *)
(***************************************************************************)
EXTENDS JobStore, Phases

CONSTANTS
  Job,        \* job ids
  Run,        \* submissions
  Worker,     \* uvicorn worker processes
  JobOf,      \* the request_id of each submission
  WorkerOf,   \* the worker that accepts it
  NoRun,      \* no result key
  Faulty, Mortal, Removable

ASSUME GatewayAssumption ==
  /\ JobOf \in [Run -> Job]
  /\ WorkerOf \in [Run -> Worker]
  /\ NoRun \notin Run
  /\ Faulty \subseteq Run
  /\ Mortal \subseteq Worker
  /\ Removable \subseteq Job

VARIABLES
  hash,     \* job:{id}:status
  result,   \* job:{id}:result, as the run whose result it holds
  at,       \* the await each run is suspended at, or how it ended
  worker,   \* "up", or "draining" while its lifespan is shutting down
  reader,   \* per job, a client in GET /result, or the last answer it got
  removed   \* history: the jobs a key of which was deleted, expired or evicted

vars == <<hash, result, at, worker, reader, removed>>

-------------------------------------------------------------------------------

Ended == {"rejected", "refused", "done", "broken", "lost"}

\* The task exists from the end of the handler until it has returned.
InTask == Stages \cup {"store", "fail"}

Live == {"expire"} \cup InTask

Steps == {"idle"} \cup Live \cup Ended

Answers == {"none", "fetch", "absent", "running", "failed", "missing", "result"}

TypeOK ==
  /\ hash \in [Job -> Hash]
  /\ result \in [Job -> Run \cup {NoRun}]
  /\ at \in [Run -> Steps]
  /\ worker \in [Worker -> {"up", "draining"}]
  /\ reader \in [Job -> Answers]
  /\ removed \subseteq Removable

RunsOf(j) == {r \in Run : JobOf[r] = j}

RunsOn(w) == {r \in Run : WorkerOf[r] = w}

Init ==
  /\ hash = [j \in Job |-> NoHash]
  /\ result = [j \in Job |-> NoRun]
  /\ at = [r \in Run |-> "idle"]
  /\ worker = [w \in Worker |-> "up"]
  /\ reader = [j \in Job |-> "none"]
  /\ removed = {}

-------------------------------------------------------------------------------
(* POST /crawl and the pipeline task.                                      *)

Goto(r, step) == at' = [at EXCEPT ![r] = step]

Unstarted(r) == at[r] = "idle" /\ worker[WorkerOf[r]] = "up"

\* A command on the status key that leaves it as "new" and lets the run go on
\* to "next"; if it raises, the server may have applied it or not.
StatusCommand(r, new, next, raised) ==
  /\ \/ /\ hash' = [hash EXCEPT ![JobOf[r]] = new]
        /\ Goto(r, next)
     \/ /\ r \in Faulty
        /\ hash' \in {hash, [hash EXCEPT ![JobOf[r]] = new]}
        /\ Goto(r, raised)
  /\ UNCHANGED <<result, worker, reader, removed>>

\* _validate_url raises before anything is written.
RejectUrl(r) ==
  /\ Unstarted(r)
  /\ Goto(r, "rejected")
  /\ UNCHANGED <<hash, result, worker, reader, removed>>

\* create_job does not look whether the id is already in use.
CreateJob(r) ==
  /\ Unstarted(r)
  /\ StatusCommand(r, Created(hash[JobOf[r]]), "expire", "refused")

\* The last await of the handler; the task is created right after it.
SetExpiry(r) ==
  /\ at[r] = "expire"
  /\ StatusCommand(r, Expiring(hash[JobOf[r]]), "phase0", "refused")

UpdatePhase(r) ==
  /\ at[r] \in UpdateStages
  /\ \E next \in Stages :
       /\ OnAnswer(at[r], next)
       /\ StatusCommand(r, Updated(hash[JobOf[r]], at[r]), next, "audit")

\* Mutant: execute lets an exception of a service call escape.
ServiceAnswers_Escapes(r) ==
  /\ at[r] \in CallStages
  /\ \E next \in Stages \cup {"fail"} : (Follows(at[r], next) \/ next = "fail") /\ Goto(r, next)
  /\ UNCHANGED <<hash, result, worker, reader, removed>>

\* Mutant: the agent call has no timeout.
ServiceAnswers_NoTimeout(r) ==
  /\ at[r] \in CallStages \ {"agent"}
  /\ \E next \in Stages : Follows(at[r], next) /\ Goto(r, next)
  /\ UNCHANGED <<hash, result, worker, reader, removed>>

ServiceAnswers(r) ==
  /\ at[r] \in CallStages
  /\ \E next \in Stages : Follows(at[r], next) /\ Goto(r, next)
  /\ UNCHANGED <<hash, result, worker, reader, removed>>

\* Mutant: an error of the status command is swallowed.
CompleteJob_Swallowed(r) ==
  /\ at[r] = "returned"
  /\ StatusCommand(r, Completed(hash[JobOf[r]]), "store", "done")

\* Mutant: the result is written first.
CompleteJob_ResultFirst(r) ==
  /\ at[r] = "returned"
  /\ result' = [result EXCEPT ![JobOf[r]] = r]
  /\ Goto(r, "store")
  /\ UNCHANGED <<hash, worker, reader, removed>>

\* complete_job, first command.
CompleteJob(r) ==
  /\ at[r] = "returned"
  /\ StatusCommand(r, Completed(hash[JobOf[r]]), "store", "fail")

\* Mutant: an error of the result command is swallowed.
StoreResult_Swallowed(r) ==
  /\ at[r] = "store"
  /\ \/ result' = [result EXCEPT ![JobOf[r]] = r]
     \/ r \in Faulty /\ UNCHANGED result
  /\ Goto(r, "done")
  /\ UNCHANGED <<hash, worker, reader, removed>>

\* complete_job, second command.
StoreResult(r) ==
  /\ at[r] = "store"
  /\ \/ /\ result' = [result EXCEPT ![JobOf[r]] = r]
        /\ Goto(r, "done")
     \/ /\ r \in Faulty
        /\ result' \in {result, [result EXCEPT ![JobOf[r]] = r]}
        /\ Goto(r, "fail")
  /\ UNCHANGED <<hash, worker, reader, removed>>

\* fail_job; when it raises too, nobody awaits the task and the job is left.
FailJob(r) ==
  /\ at[r] = "fail"
  /\ StatusCommand(r, Failed(hash[JobOf[r]]), "done", "broken")

RunStep(r) ==
  \/ SetExpiry(r)
  \/ UpdatePhase(r)
  \/ ServiceAnswers(r)
  \/ CompleteJob(r)
  \/ StoreResult(r)
  \/ FailJob(r)

-------------------------------------------------------------------------------
(* GET /crawl/{id}/result reads the status, then perhaps the result.       *)

ReadStatus(j) ==
  /\ reader[j] # "fetch"
  /\ reader' = [reader EXCEPT ![j] =
                  CASE ~Exists(hash[j])           -> "absent"
                    [] hash[j].status = "running" -> "running"
                    [] hash[j].status = "failed"  -> "failed"
                    [] OTHER                      -> "fetch"]
  /\ UNCHANGED <<hash, result, at, worker, removed>>

ReadResult(j) ==
  /\ reader[j] = "fetch"
  /\ reader' = [reader EXCEPT ![j] = IF result[j] = NoRun THEN "missing" ELSE "result"]
  /\ UNCHANGED <<hash, result, at, worker, removed>>

-------------------------------------------------------------------------------
(* DELETE /crawl/{id}; expiry and eviction of a key.                       *)

\* One DEL of both keys; the task, if there is one, is not told.
DeleteJob(j) ==
  /\ j \in Removable
  /\ Exists(hash[j]) \/ result[j] # NoRun
  /\ hash' = [hash EXCEPT ![j] = NoHash]
  /\ result' = [result EXCEPT ![j] = NoRun]
  /\ removed' = removed \cup {j}
  /\ UNCHANGED <<at, worker, reader>>

StatusVanishes(j) ==
  /\ j \in Removable
  /\ Exists(hash[j])
  /\ hash' = [hash EXCEPT ![j] = NoHash]
  /\ removed' = removed \cup {j}
  /\ UNCHANGED <<result, at, worker, reader>>

ResultVanishes(j) ==
  /\ j \in Removable
  /\ result[j] # NoRun
  /\ result' = [result EXCEPT ![j] = NoRun]
  /\ removed' = removed \cup {j}
  /\ UNCHANGED <<hash, at, worker, reader>>

-------------------------------------------------------------------------------
(* Workers.                                                                *)

\* The process dies; its replacement starts with no tasks.
Crash(w) ==
  /\ w \in Mortal
  /\ at' = [r \in Run |-> IF r \in RunsOn(w) /\ at[r] \in Live THEN "lost" ELSE at[r]]
  /\ worker' = [worker EXCEPT ![w] = "up"]
  /\ UNCHANGED <<hash, result, reader, removed>>

\* uvicorn lets the open requests finish before it ends the lifespan.
Drain(w) ==
  /\ w \in Mortal
  /\ worker[w] = "up"
  /\ \A r \in RunsOn(w) : at[r] # "expire"
  /\ worker' = [worker EXCEPT ![w] = "draining"]
  /\ UNCHANGED <<hash, result, at, reader, removed>>

\* A task still pending after 30 s is cancelled.  CancelledError is not an
\* Exception, so neither execute nor _run_pipeline writes an outcome.
Cancel(r) ==
  /\ worker[WorkerOf[r]] = "draining"
  /\ at[r] \in InTask
  /\ Goto(r, "lost")
  /\ UNCHANGED <<hash, result, worker, reader, removed>>

Restart(w) ==
  /\ worker[w] = "draining"
  /\ \A r \in RunsOn(w) : at[r] \notin Live
  /\ worker' = [worker EXCEPT ![w] = "up"]
  /\ UNCHANGED <<hash, result, at, reader, removed>>

-------------------------------------------------------------------------------

Next ==
  \/ \E r \in Run : RejectUrl(r) \/ CreateJob(r) \/ RunStep(r) \/ Cancel(r)
  \/ \E j \in Job : \/ ReadStatus(j) \/ ReadResult(j)
                    \/ DeleteJob(j) \/ StatusVanishes(j) \/ ResultVanishes(j)
  \/ \E w \in Worker : Crash(w) \/ Drain(w) \/ Restart(w)

Spec == Init /\ [][Next]_vars

\* An event loop runs a ready task, every service call has a timeout and a
\* bounded number of attempts, and Redis answers or raises.
FairSpec == Spec /\ \A r \in Run : WF_vars(RunStep(r))

-------------------------------------------------------------------------------
(* Safety, whatever is deleted, evicted, resubmitted, raised or stopped.   *)

\* A job that reads submitted or running is still being worked on, unless one
\* of its runs lost its worker, was refused half way, or failed to fail.
NoOrphan ==
  \A j \in Job : Unfinished(hash[j]) =>
    \E r \in RunsOf(j) :
      at[r] \in (Live \ {"store"}) \cup {"refused", "broken", "lost"}

\* A job that reads completed has its result, or a run is between the two
\* writes of complete_job or was stopped or failed there, or a key was removed.
CompletedHasResult ==
  \A j \in Job : hash[j].status = "completed" /\ result[j] = NoRun =>
    \/ j \in removed
    \/ \E r \in RunsOf(j) : at[r] \in {"store", "fail", "broken", "lost"}

\* Once create_job has written it, the status key of a run's job is there, and
\* once the handler is through it carries the 24 h TTL, however many phases,
\* outcomes and resubmissions are written over it, until the key is removed.
KeptKeysExpire ==
  \A r \in Run :
    JobOf[r] \notin removed /\ at[r] \notin {"idle", "rejected", "refused", "lost"} =>
      /\ Exists(hash[JobOf[r]])
      /\ at[r] = "expire" \/ hash[JobOf[r]].ttl

\* Only a Redis command that raised makes a job read failed: execute turns
\* every failure of the crawl itself into a result, and the job completes.
FailedNeedsFault ==
  /\ \A r \in Run : at[r] = "fail" => r \in Faulty
  /\ \A j \in Job : hash[j].status = "failed" =>
       \E r \in RunsOf(j) \cap Faulty : at[r] \in {"done", "broken"}

-------------------------------------------------------------------------------
(* What GET /result answers, as a property of the answering step.          *)

\* "Get the full result of a completed crawl job": only "running" and "failed"
\* are refused, so a job may answer with a result while it is unfinished.  That
\* takes a second submission of its id, and the result is then whole: the run
\* it belongs to was through with it, or was interrupted right after the write.
StaleResultNeedsRerun ==
  [][\A j \in Job :
       reader[j] = "fetch" /\ reader'[j] = "result" /\ Unfinished(hash[j]) =>
         \E r, s \in RunsOf(j) :
           /\ r # s
           /\ result[j] = r /\ at[r] \in {"done", "fail", "broken", "lost"}
           /\ at[s] \notin {"idle", "rejected"}]_vars

\* Jobs whose keys stay, whose commands never raise and whose workers go on.
CalmJobs ==
  {j \in Job \ Removable : \A r \in RunsOf(j) : r \notin Faulty /\ WorkerOf[r] \notin Mortal}

-------------------------------------------------------------------------------
(* The abstract life of a job submitted once.                              *)

Stage(j) ==
  IF hash[j].status = "completed"
    THEN IF result[j] # NoRun /\ \A r \in RunsOf(j) : at[r] \notin Live
           THEN "completed" ELSE "publishing"
    ELSE hash[j].status

Lifecycle(j) == INSTANCE JobLifecycle
  WITH stage <- Stage(j), progress <- hash[j].progress

LifecycleStep(j) == Lifecycle(j)!Next \/ UNCHANGED Lifecycle(j)!vars

\* Each job implements JobLifecycle!Spec for as long as its keys are kept;
\* written job by job, because a crash may end several of them in one step.
ImplementsLifecycle ==
  /\ \A j \in Job : Lifecycle(j)!Init
  /\ [][\A j \in Job \ removed' : LifecycleStep(j)]_vars

\* A job nothing disturbs implements JobLifecycle!FairSpec, whatever happens to
\* others: it is published and concluded.
ImplementsFairLifecycle ==
  /\ ImplementsLifecycle
  /\ \A j \in CalmJobs : Lifecycle(j)!Fairness

-------------------------------------------------------------------------------
(* A claim of the documentation that the code does not meet.               *)

\* README.md:171 "A separate durable worker claims the job from Redis and recovers
\* unacknowledged jobs after a worker restart": no job is left unfinished.
RecoversAfterRestart == \A j \in Job : Unfinished(hash[j]) ~> ~Unfinished(hash[j])
===============================================================================
