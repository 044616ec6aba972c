------------------------------ MODULE CliClient -------------------------------
(***************************************************************************)
(* The "crawl" command of cli.py composed with the gateway: it posts a     *)
(* job, polls its status every two seconds until it reads completed or     *)
(* failed, and then fetches the result.                                    *)
(*                                                                         *)
(* The command sends no request_id, so its job is submitted by it alone.   *)
(* What the command has read may be old when it acts on it: the answer to  *)
(* a poll and the request that follows are separate steps.  Gateway's own  *)
(* reader stands still: other clients that read change nothing.            *)
(***************************************************************************)
EXTENDS Gateway

CONSTANT Commands    \* the submissions a crawl command may have made

ASSUME CliAssumption ==
  /\ Commands \subseteq Run /\ Commands # {}
  /\ \A r \in Commands : RunsOf(JobOf[r]) = {r}

VARIABLE cli         \* per run, "none" if another client posts it, else the request
                     \* its command waits for, or what the command showed

cliVars == <<vars, cli>>

Shown == {"failed", "absent", "running", "missing", "result"}

CliSteps == {"none", "posting", "polling", "fetching", "reading", "exit"} \cup Shown

CliTypeOK == cli \in [Run -> CliSteps]

\* Commands share nothing but the gateway: one of them is followed at a time.
CliInit ==
  /\ Init
  /\ \E c \in Commands : cli = [r \in Run |-> IF r = c THEN "posting" ELSE "none"]

CliGoto(r, step) == cli' = [cli EXCEPT ![r] = step] /\ UNCHANGED vars

-------------------------------------------------------------------------------

\* The 202 arrives; with --no-wait the command is done.
Posted(r) ==
  /\ cli[r] = "posting"
  /\ at[r] \in InTask \cup {"done", "broken"}
  /\ \E step \in {"polling", "exit"} : CliGoto(r, step)

\* A refusal, no connection, or no answer within 30 s.
PostFails(r) == cli[r] = "posting" /\ CliGoto(r, "exit")

\* Mutant: the loop ends with the first answer that is not "submitted".
Poll_AnyProgress(r) ==
  /\ cli[r] = "polling"
  /\ \/ hash[JobOf[r]].status \in {"running", "completed"} /\ CliGoto(r, "fetching")
     \/ hash[JobOf[r]].status = "failed" /\ CliGoto(r, "failed")

\* Mutant: the loop only ends when the job is completed.
Poll_CompletedOnly(r) ==
  /\ cli[r] = "polling"
  /\ hash[JobOf[r]].status = "completed"
  /\ CliGoto(r, "fetching")

\* A poll that ends the loop; one that is lost, answered 404 or finds the job
\* unfinished changes nothing.
Poll(r) ==
  /\ cli[r] = "polling"
  /\ \/ hash[JobOf[r]].status = "completed" /\ CliGoto(r, "fetching")
     \/ hash[JobOf[r]].status = "failed" /\ CliGoto(r, "failed")

\* GET /result, first command: anything but a result is printed as it is.
FetchStatus(r) ==
  /\ cli[r] = "fetching"
  /\ CliGoto(r, CASE ~Exists(hash[JobOf[r]]) -> "absent"
                  [] hash[JobOf[r]].status \in {"running", "failed"} -> hash[JobOf[r]].status
                  [] OTHER -> "reading")

FetchResult(r) ==
  /\ cli[r] = "reading"
  /\ CliGoto(r, IF result[JobOf[r]] = NoRun THEN "missing" ELSE "result")

\* Nothing catches an error of the last request.
FetchFails(r) == cli[r] \in {"fetching", "reading"} /\ CliGoto(r, "exit")

CliStep(r) == Poll(r) \/ FetchStatus(r) \/ FetchResult(r)

CliNext ==
  \/ Next /\ UNCHANGED <<reader, cli>>
  \/ \E r \in Commands : Posted(r) \/ PostFails(r) \/ CliStep(r) \/ FetchFails(r)

CliSpec == CliInit /\ [][CliNext]_cliVars

\* Polls go on, so that one of them arrives sooner or later, and a request is
\* answered or raises after 30 s.
CliFairSpec ==
  /\ CliSpec
  /\ \A r \in Run : WF_cliVars(RunStep(r) /\ UNCHANGED cli)
  /\ \A r \in Commands : WF_cliVars(CliStep(r))

-------------------------------------------------------------------------------

\* A command that waits comes back once its job is over, and its job gets over
\* unless its worker is lost, fail_job raises too, or a key is removed: then
\* the loop may have no end, because 404 and an unfinished job are polled again.
CliEnds ==
  \A r \in Commands :
    cli[r] = "polling" ~> \/ cli[r] \in Shown \cup {"exit"}
                          \/ at[r] \in {"lost", "broken"}
                          \/ JobOf[r] \in removed

\* What it shows is the outcome of this job: the result of its own run, a
\* failure that is stored, or that there is no result, in the window or after a
\* fault between the two writes of complete_job.  It never ends with a job that
\* is unfinished or gone, unless a key of the job was removed.
CliShowsOutcome ==
  [][\A r \in Commands : cli'[r] # cli[r] =>
       LET j == JobOf[r] IN
       /\ cli'[r] \in {"absent", "running"} => j \in removed
       /\ cli'[r] = "result" =>
            /\ result[j] = r
            /\ j \in CalmJobs => hash[j].status = "completed" /\ at[r] = "done"
       /\ cli'[r] = "failed" => hash[j].status = "failed" /\ r \in Faulty
       /\ cli'[r] = "missing" => \/ j \in removed
                                 \/ at[r] \in {"store", "fail", "broken", "lost"}
                                 \/ hash[j].status = "failed"]_cliVars
===============================================================================
