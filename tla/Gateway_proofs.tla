---------------------------- MODULE Gateway_proofs ----------------------------
(***************************************************************************)
(* The safety of Gateway, of the life of a job it implements, and of the   *)
(* command line client composed with it, for every set of jobs, runs and   *)
(* workers, every assignment of runs to them, and every choice of what may *)
(* fail, be stopped or be removed.                                         *)
(***************************************************************************)
EXTENDS CliClient, TLAPS

\* The names of the steps, for the leaves that compare them.
LEMMA StepNames ==
  /\ Stages \subseteq Steps
  /\ \A s \in Stages : s \notin {"idle", "expire", "store", "fail"} \cup Ended
  /\ {"idle", "expire", "store", "fail"} \cup Ended \subseteq Steps
BY DEF Steps, Live, InTask, Ended, Stages, UpdateStages, CallStages

\* What each command makes of a status hash.
LEMMA HashCommands ==
  ASSUME NEW h \in Hash
  PROVE  /\ NoHash \in Hash
         /\ Created(h) \in Hash
         /\ Expiring(h) \in Hash
         /\ \A s \in UpdateStages : Updated(h, s) \in Hash
         /\ Completed(h) \in Hash
         /\ Failed(h) \in Hash
<1> USE DEF Hash, Statuses
<1>1. NoHash \in Hash
  BY DEF NoHash
<1>2. Created(h) \in Hash
  BY DEF Created
<1>3. Expiring(h) \in Hash
  BY DEF Expiring
<1>4. ASSUME NEW s \in UpdateStages PROVE Updated(h, s) \in Hash
  <2>1. Progress(s) \in 0..10
    BY DEF Progress, UpdateStages
  <2> QED
    BY <2>1 DEF Updated
<1>5. Completed(h) \in Hash
  BY DEF Completed
<1>6. Failed(h) \in Hash
  BY DEF Failed
<1> QED
  BY <1>1, <1>2, <1>3, <1>4, <1>5, <1>6

-------------------------------------------------------------------------------

\* The shape of a run's step on the status key, whichever command it issues.
LEMMA StatusCommandType ==
  ASSUME TypeOK, NEW r \in Run, NEW new \in Hash, NEW next \in Steps,
         NEW err \in Steps, StatusCommand(r, new, next, err)
  PROVE  TypeOK'
BY GatewayAssumption DEF TypeOK, StatusCommand, Goto

\* Every step keeps the variables within their types.
THEOREM TypeCorrect == Spec => []TypeOK
<1>1. Init => TypeOK
  BY GatewayAssumption DEF Init, TypeOK, Hash, NoHash, Statuses, Steps, Live,
     InTask, Answers
<1>2. TypeOK /\ [Next]_vars => TypeOK'
  <2> SUFFICES ASSUME TypeOK, [Next]_vars PROVE TypeOK'
    OBVIOUS
  <2> USE GatewayAssumption
  <2>1. ASSUME NEW r \in Run, RejectUrl(r) PROVE TypeOK'
    BY <2>1, StepNames DEF TypeOK, RejectUrl, Goto, Ended
  <2>2. ASSUME NEW r \in Run, CreateJob(r) PROVE TypeOK'
    BY <2>2, StepNames, HashCommands, StatusCommandType
       DEF TypeOK, CreateJob, Ended
  <2>3. ASSUME NEW r \in Run, SetExpiry(r) PROVE TypeOK'
    BY <2>3, StepNames, HashCommands, StatusCommandType
       DEF TypeOK, SetExpiry, Ended, Stages, UpdateStages
  <2>4. ASSUME NEW r \in Run, UpdatePhase(r) PROVE TypeOK'
    BY <2>4, StepNames, HashCommands, StatusCommandType
       DEF TypeOK, UpdatePhase, Stages, CallStages
  <2>5. ASSUME NEW r \in Run, ServiceAnswers(r) PROVE TypeOK'
    BY <2>5, StepNames DEF TypeOK, ServiceAnswers, Goto
  <2>6. ASSUME NEW r \in Run, CompleteJob(r) PROVE TypeOK'
    BY <2>6, StepNames, HashCommands, StatusCommandType DEF TypeOK, CompleteJob
  <2>7. ASSUME NEW r \in Run, StoreResult(r) PROVE TypeOK'
    BY <2>7, StepNames DEF TypeOK, StoreResult, Goto, Ended
  <2>8. ASSUME NEW r \in Run, FailJob(r) PROVE TypeOK'
    BY <2>8, StepNames, HashCommands, StatusCommandType DEF TypeOK, FailJob, Ended
  <2>9. ASSUME NEW r \in Run, Cancel(r) PROVE TypeOK'
    BY <2>9, StepNames DEF TypeOK, Cancel, Goto, Ended
  <2>10. ASSUME NEW j \in Job, ReadStatus(j) \/ ReadResult(j) PROVE TypeOK'
    BY <2>10 DEF TypeOK, ReadStatus, ReadResult, Answers
  <2>11. ASSUME NEW j \in Job, DeleteJob(j) \/ StatusVanishes(j) \/ ResultVanishes(j)
         PROVE TypeOK'
    BY <2>11, HashCommands DEF TypeOK, DeleteJob, StatusVanishes, ResultVanishes
  <2>12. ASSUME NEW w \in Worker, Crash(w) PROVE TypeOK'
    BY <2>12, StepNames DEF TypeOK, Crash, Ended
  <2>13. ASSUME NEW w \in Worker, Drain(w) \/ Restart(w) PROVE TypeOK'
    BY <2>13 DEF TypeOK, Drain, Restart
  <2>14. CASE UNCHANGED vars
    BY <2>14 DEF vars, TypeOK
  <2> QED
    BY <2>1, <2>2, <2>3, <2>4, <2>5, <2>6, <2>7, <2>8, <2>9, <2>10, <2>11,
       <2>12, <2>13, <2>14 DEF Next, RunStep
<1>3. QED
  BY <1>1, <1>2, PTL DEF Spec

-------------------------------------------------------------------------------
(* NoOrphan.  A run answers for its job from create_job on; it stops doing *)
(* so only by the write of an outcome.                                     *)

Answerable == (Live \ {"store"}) \cup {"refused", "broken", "lost"}

\* A command on the status key that leaves its run answerable, or the job done.
LEMMA OrphanCommand ==
  ASSUME TypeOK, NoOrphan, NEW r \in Run, NEW new \in Hash, NEW next \in Steps,
         NEW err \in Answerable, StatusCommand(r, new, next, err),
         next \in Answerable \/ ~Unfinished(new)
  PROVE  NoOrphan'
<1> SUFFICES ASSUME NEW j \in Job, Unfinished(hash'[j])
             PROVE  \E q \in RunsOf(j) : at'[q] \in Answerable
  BY DEF NoOrphan, Unfinished, RunsOf, Answerable
<1> USE DEF StatusCommand, Goto, TypeOK
<1>1. at' \in [Run -> Steps \cup Answerable] /\ \A q \in Run \ {r} : at'[q] = at[q]
  OBVIOUS
<1>2. CASE j = JobOf[r]
  <2>1. at'[r] \in Answerable
    BY <1>2 DEF Unfinished
  <2> QED
    BY <1>2, <2>1 DEF RunsOf
<1>3. CASE j # JobOf[r]
  <2>1. hash'[j] = hash[j]
    BY <1>3, GatewayAssumption
  <2>2. PICK q \in RunsOf(j) : at[q] \in Answerable
    BY <2>1 DEF NoOrphan, Unfinished, Answerable
  <2> QED
    BY <1>1, <1>3, <2>2 DEF RunsOf
<1> QED
  BY <1>2, <1>3

\* A step that only moves one run, and does not relieve it of its job.
LEMMA OrphanGoto ==
  ASSUME TypeOK, NoOrphan, NEW r \in Run, NEW next, Goto(r, next),
         at[r] \notin Answerable \/ next \in Answerable, UNCHANGED hash
  PROVE  NoOrphan'
<1> SUFFICES ASSUME NEW j \in Job, Unfinished(hash[j])
             PROVE  \E q \in RunsOf(j) : at'[q] \in Answerable
  BY DEF NoOrphan, Unfinished, RunsOf, Answerable
<1>1. PICK q \in RunsOf(j) : at[q] \in Answerable
  BY DEF NoOrphan, Answerable
<1> QED
  BY <1>1 DEF Goto, TypeOK, RunsOf

\* NoOrphan, for every instance: no step drops a job that is not finished.
THEOREM NoOrphanAlways == Spec => []NoOrphan
<1>1. Init => NoOrphan
  BY DEF Init, NoOrphan, NoHash, Unfinished
<1>2. TypeOK /\ NoOrphan /\ [Next]_vars => NoOrphan'
  <2> SUFFICES ASSUME TypeOK, NoOrphan, [Next]_vars PROVE NoOrphan'
    OBVIOUS
  <2> USE GatewayAssumption
  <2>1. ASSUME NEW r \in Run, RejectUrl(r) PROVE NoOrphan'
    BY <2>1, OrphanGoto, StepNames
       DEF RejectUrl, Unstarted, Answerable, Live, InTask, Ended
  <2>2. ASSUME NEW r \in Run, CreateJob(r) PROVE NoOrphan'
    BY <2>2, OrphanCommand, HashCommands, StepNames
       DEF CreateJob, TypeOK, Answerable, Live, Ended
  <2>3. ASSUME NEW r \in Run, SetExpiry(r) PROVE NoOrphan'
    BY <2>3, OrphanCommand, HashCommands, StepNames
       DEF SetExpiry, TypeOK, Answerable, Live, InTask, Stages, UpdateStages
  <2>4. ASSUME NEW r \in Run, UpdatePhase(r) PROVE NoOrphan'
    <3>1. Stages \subseteq Answerable /\ "audit" \in Stages
      BY StepNames DEF Answerable, Live, InTask, Stages, CallStages
    <3> QED
      BY <2>4, <3>1, OrphanCommand, HashCommands, StepNames DEF UpdatePhase, TypeOK
  <2>5. ASSUME NEW r \in Run, ServiceAnswers(r) PROVE NoOrphan'
    BY <2>5, OrphanGoto, StepNames DEF ServiceAnswers, Answerable, Live, InTask
  <2>6. ASSUME NEW r \in Run, CompleteJob(r) PROVE NoOrphan'
    <3>1. ~Unfinished(Completed(hash[JobOf[r]]))
      BY DEF Unfinished, Completed
    <3> QED
      BY <2>6, <3>1, OrphanCommand, HashCommands, StepNames
         DEF CompleteJob, TypeOK, Answerable, Live, InTask
  <2>7. ASSUME NEW r \in Run, StoreResult(r) PROVE NoOrphan'
    BY <2>7, OrphanGoto DEF StoreResult, Answerable
  <2>8. ASSUME NEW r \in Run, FailJob(r) PROVE NoOrphan'
    <3>1. ~Unfinished(Failed(hash[JobOf[r]]))
      BY DEF Unfinished, Failed, TypeOK, Hash
    <3> QED
      BY <2>8, <3>1, OrphanCommand, HashCommands, StepNames
         DEF FailJob, TypeOK, Answerable, Ended
  <2>9. ASSUME NEW r \in Run, Cancel(r) PROVE NoOrphan'
    BY <2>9, OrphanGoto DEF Cancel, Answerable
  <2>10. ASSUME NEW j \in Job, DeleteJob(j) \/ StatusVanishes(j) PROVE NoOrphan'
    BY <2>10 DEF DeleteJob, StatusVanishes, NoOrphan, Unfinished, NoHash, RunsOf, TypeOK
  <2>11. ASSUME NEW w \in Worker, Crash(w) PROVE NoOrphan'
    <3> SUFFICES ASSUME NEW j \in Job, Unfinished(hash[j])
                 PROVE  \E q \in RunsOf(j) : at'[q] \in Answerable
      BY <2>11 DEF Crash, NoOrphan, Unfinished, RunsOf, Answerable
    <3>1. PICK q \in RunsOf(j) : at[q] \in Answerable
      BY DEF NoOrphan, Answerable
    <3>2. at'[q] \in {at[q], "lost"}
      BY <2>11, <3>1 DEF Crash, RunsOf
    <3> QED
      BY <3>1, <3>2 DEF Answerable
  <2>12. CASE UNCHANGED <<hash, at>>
    BY <2>12 DEF NoOrphan, Unfinished, RunsOf
  <2>13. ASSUME NEW j \in Job, ReadStatus(j) \/ ReadResult(j) \/ ResultVanishes(j)
         PROVE  UNCHANGED <<hash, at>>
    BY <2>13 DEF ReadStatus, ReadResult, ResultVanishes
  <2>14. ASSUME NEW w \in Worker, Drain(w) \/ Restart(w) PROVE UNCHANGED <<hash, at>>
    BY <2>14 DEF Drain, Restart
  <2> QED
    BY <2>1, <2>2, <2>3, <2>4, <2>5, <2>6, <2>7, <2>8, <2>9, <2>10, <2>11,
       <2>12, <2>13, <2>14 DEF Next, RunStep, vars
<1>3. QED
  BY <1>1, <1>2, TypeCorrect, PTL DEF Spec

-------------------------------------------------------------------------------
(* CompletedHasResult.  Between the two writes of complete_job, and after  *)
(* an error or a stop there, it is a run that accounts for what is missing. *)

Accounting == {"store", "fail", "broken", "lost"}

\* A command on the status key after which either the job does not read
\* completed, or it did before, or its run accounts for the missing result.
LEMMA ResultCommand ==
  ASSUME TypeOK, CompletedHasResult, NEW r \in Run, NEW new \in Hash,
         NEW next \in Steps, NEW err \in Steps, StatusCommand(r, new, next, err),
         at[r] \notin Accounting \/ (err \in Accounting /\ new.status # "completed"),
         \/ new.status = "completed" => hash[JobOf[r]].status = "completed"
         \/ (next \in Accounting /\ err \in Accounting)
  PROVE  CompletedHasResult'
<1> SUFFICES ASSUME NEW j \in Job, hash'[j].status = "completed", result[j] = NoRun,
                    j \notin removed
             PROVE  \E q \in RunsOf(j) : at'[q] \in Accounting
  BY DEF CompletedHasResult, StatusCommand, RunsOf, Accounting
<1> USE DEF StatusCommand, Goto, TypeOK
<1>1. CASE hash[j].status = "completed"
  <2>1. PICK q \in RunsOf(j) : at[q] \in Accounting
    BY <1>1 DEF CompletedHasResult, Accounting
  <2>2. CASE q = r
    <3>1. hash'[j] # new \/ new.status # "completed" \/ at'[r] \in Accounting
      BY <2>1, <2>2
    <3>2. at'[r] = next \/ at'[r] = err
      OBVIOUS
    <3>3. at'[r] = next => hash'[j] = new \/ next = err
      BY <2>1, <2>2, GatewayAssumption DEF RunsOf
    <3> QED
      BY <2>1, <2>2, <3>1, <3>2, <3>3 DEF RunsOf
  <2>3. CASE q # r
    BY <2>1, <2>3 DEF RunsOf
  <2> QED
    BY <2>2, <2>3
<1>2. CASE hash[j].status # "completed"
  <2>1. j = JobOf[r] /\ hash'[j] = new
    BY <1>2, GatewayAssumption
  <2> QED
    BY <1>2, <2>1 DEF RunsOf
<1> QED
  BY <1>1, <1>2

\* A step that only moves one run, and only to a step that still accounts for
\* what its last one did.
LEMMA ResultGoto ==
  ASSUME TypeOK, CompletedHasResult, NEW r \in Run, NEW next, Goto(r, next),
         at[r] \notin Accounting \/ next \in Accounting,
         UNCHANGED <<hash, result, removed>>
  PROVE  CompletedHasResult'
<1> SUFFICES ASSUME NEW j \in Job, hash[j].status = "completed", result[j] = NoRun,
                    j \notin removed
             PROVE  \E q \in RunsOf(j) : at'[q] \in Accounting
  BY DEF CompletedHasResult, RunsOf, Accounting
<1>1. PICK q \in RunsOf(j) : at[q] \in Accounting
  BY DEF CompletedHasResult, Accounting
<1> QED
  BY <1>1 DEF Goto, TypeOK, RunsOf

\* CompletedHasResult, for every instance: a job never reads completed without
\* its result for any other reason than an unfinished or failed second write.
THEOREM CompletedHasResultAlways == Spec => []CompletedHasResult
<1>1. Init => CompletedHasResult
  BY DEF Init, CompletedHasResult, NoHash
<1>2. TypeOK /\ CompletedHasResult /\ [Next]_vars => CompletedHasResult'
  <2> SUFFICES ASSUME TypeOK, CompletedHasResult, [Next]_vars PROVE CompletedHasResult'
    OBVIOUS
  <2> USE GatewayAssumption
  <2>1. ASSUME NEW r \in Run, RejectUrl(r) PROVE CompletedHasResult'
    BY <2>1, ResultGoto DEF RejectUrl, Unstarted, Accounting
  <2>2. ASSUME NEW r \in Run, CreateJob(r) PROVE CompletedHasResult'
    BY <2>2, ResultCommand, HashCommands, StepNames
       DEF CreateJob, Unstarted, Created, TypeOK, Accounting, Live, Ended
  <2>3. ASSUME NEW r \in Run, SetExpiry(r) PROVE CompletedHasResult'
    <3>1. Expiring(hash[JobOf[r]]).status = "completed" =>
            hash[JobOf[r]].status = "completed"
      BY DEF Expiring, TypeOK, Hash
    <3>2. hash[JobOf[r]] \in Hash /\ Expiring(hash[JobOf[r]]) \in Hash
      BY HashCommands DEF TypeOK
    <3>3. "phase0" \in Steps /\ "refused" \in Steps
      BY StepNames DEF Ended, Stages, UpdateStages
    <3>4. /\ at[r] \notin Accounting
          /\ StatusCommand(r, Expiring(hash[JobOf[r]]), "phase0", "refused")
      BY <2>3 DEF SetExpiry, Accounting
    <3> QED
      BY <3>1, <3>2, <3>3, <3>4, ResultCommand
  <2>4. ASSUME NEW r \in Run, UpdatePhase(r) PROVE CompletedHasResult'
    <3>1. at[r] \notin Accounting /\ Stages \subseteq Steps /\ "audit" \in Stages
      BY <2>4, StepNames DEF UpdatePhase, Accounting, Stages, UpdateStages, CallStages
    <3>2. \A s : Updated(hash[JobOf[r]], s).status = "running"
      BY DEF Updated
    <3> QED
      BY <2>4, <3>1, <3>2, ResultCommand, HashCommands DEF UpdatePhase, TypeOK
  <2>5. ASSUME NEW r \in Run, ServiceAnswers(r) PROVE CompletedHasResult'
    <3>1. at[r] \notin Accounting
      BY <2>5 DEF ServiceAnswers, CallStages, Accounting
    <3> QED
      BY <2>5, <3>1, ResultGoto DEF ServiceAnswers
  <2>6. ASSUME NEW r \in Run, CompleteJob(r) PROVE CompletedHasResult'
    <3>1. Completed(hash[JobOf[r]]) \in Hash
      BY HashCommands DEF TypeOK
    <3>2. /\ "store" \in Steps /\ "store" \in Accounting
          /\ "fail" \in Steps /\ "fail" \in Accounting
      BY StepNames DEF Accounting
    <3>3. /\ at[r] \notin Accounting
          /\ StatusCommand(r, Completed(hash[JobOf[r]]), "store", "fail")
      BY <2>6 DEF CompleteJob, Accounting
    <3> QED
      BY <3>1, <3>2, <3>3, ResultCommand
  <2>7. ASSUME NEW r \in Run, StoreResult(r) PROVE CompletedHasResult'
    <3> SUFFICES ASSUME NEW j \in Job, hash[j].status = "completed",
                        result'[j] = NoRun, j \notin removed
                 PROVE  \E q \in RunsOf(j) : at'[q] \in Accounting
      BY <2>7 DEF StoreResult, CompletedHasResult, RunsOf, Accounting
    <3>1. result[j] = NoRun
      BY <2>7 DEF StoreResult, TypeOK
    <3>2. PICK q \in RunsOf(j) : at[q] \in Accounting
      BY <3>1 DEF CompletedHasResult, Accounting
    <3>3. CASE q = r
      BY <2>7, <3>2, <3>3 DEF StoreResult, Goto, TypeOK, RunsOf, Accounting
    <3>4. CASE q # r
      BY <2>7, <3>2, <3>4 DEF StoreResult, Goto, TypeOK, RunsOf
    <3> QED
      BY <3>3, <3>4
  <2>8. ASSUME NEW r \in Run, FailJob(r) PROVE CompletedHasResult'
    <3>1. Failed(hash[JobOf[r]]).status # "completed"
      BY DEF Failed, TypeOK, Hash
    <3> QED
      BY <2>8, <3>1, ResultCommand, HashCommands, StepNames
         DEF FailJob, TypeOK, Accounting, Ended
  <2>9. ASSUME NEW r \in Run, Cancel(r) PROVE CompletedHasResult'
    BY <2>9, ResultGoto DEF Cancel, Accounting
  <2>10. ASSUME NEW j \in Job, DeleteJob(j) \/ StatusVanishes(j) \/ ResultVanishes(j)
         PROVE  CompletedHasResult'
    <3> SUFFICES ASSUME NEW i \in Job, i \notin removed', hash'[i].status = "completed",
                        result'[i] = NoRun
                 PROVE  \E q \in RunsOf(i) : at[q] \in Accounting
      BY <2>10 DEF DeleteJob, StatusVanishes, ResultVanishes, CompletedHasResult,
                   RunsOf, Accounting
    <3>1. i # j /\ i \notin removed
      BY <2>10 DEF DeleteJob, StatusVanishes, ResultVanishes
    <3>2. hash[i].status = "completed" /\ result[i] = NoRun
      BY <2>10, <3>1 DEF DeleteJob, StatusVanishes, ResultVanishes, TypeOK
    <3> QED
      BY <3>1, <3>2 DEF CompletedHasResult, Accounting
  <2>11. ASSUME NEW w \in Worker, Crash(w) PROVE CompletedHasResult'
    <3> SUFFICES ASSUME NEW j \in Job, hash[j].status = "completed",
                        result[j] = NoRun, j \notin removed
                 PROVE  \E q \in RunsOf(j) : at'[q] \in Accounting
      BY <2>11 DEF Crash, CompletedHasResult, RunsOf, Accounting
    <3>1. PICK q \in RunsOf(j) : at[q] \in Accounting
      BY DEF CompletedHasResult, Accounting
    <3>2. at'[q] \in {at[q], "lost"}
      BY <2>11, <3>1 DEF Crash, RunsOf
    <3> QED
      BY <3>1, <3>2 DEF Accounting
  <2>12. CASE UNCHANGED <<hash, result, at, removed>>
    BY <2>12 DEF CompletedHasResult, RunsOf
  <2>13. ASSUME NEW j \in Job, ReadStatus(j) \/ ReadResult(j)
         PROVE  UNCHANGED <<hash, result, at, removed>>
    BY <2>13 DEF ReadStatus, ReadResult
  <2>14. ASSUME NEW w \in Worker, Drain(w) \/ Restart(w)
         PROVE  UNCHANGED <<hash, result, at, removed>>
    BY <2>14 DEF Drain, Restart
  <2> QED
    BY <2>1, <2>2, <2>3, <2>4, <2>5, <2>6, <2>7, <2>8, <2>9, <2>10, <2>11,
       <2>12, <2>13, <2>14 DEF Next, RunStep, vars
<1>3. QED
  BY <1>1, <1>2, TypeCorrect, PTL DEF Spec

-------------------------------------------------------------------------------
(* KeptKeysExpire.  Every run past create_job relies on the TTL, so what   *)
(* one run writes must keep the key and its TTL for all the others.        *)

Excused == {"idle", "rejected", "refused", "lost"}

\* A command on the status key that keeps the key and its TTL if they are there.
LEMMA ExpiryCommand ==
  ASSUME TypeOK, KeptKeysExpire, NEW r \in Run, NEW new \in Hash,
         NEW next, NEW err, StatusCommand(r, new, next, err),
         Exists(hash[JobOf[r]]) => Exists(new),
         hash[JobOf[r]].ttl => new.ttl,
         JobOf[r] \notin removed => (Exists(new) /\ (next = "expire" \/ new.ttl)),
         err = "refused" \/ at[r] \notin Excused \cup {"expire"}
  PROVE  KeptKeysExpire'
<1> SUFFICES ASSUME NEW q \in Run, JobOf[q] \notin removed, at'[q] \notin Excused
             PROVE  /\ Exists(hash'[JobOf[q]])
                    /\ at'[q] = "expire" \/ hash'[JobOf[q]].ttl
  BY DEF KeptKeysExpire, StatusCommand, Exists, Excused
<1> USE GatewayAssumption DEF TypeOK
<1>1. hash'[JobOf[q]] = hash[JobOf[q]] \/ (JobOf[q] = JobOf[r] /\ hash'[JobOf[q]] = new)
  BY DEF StatusCommand
<1>2. CASE q = r
  <2>1. CASE hash'[JobOf[r]] = new /\ at'[r] = next
    BY <1>2, <2>1
  <2>2. CASE at'[r] = err
    <3>1. at[r] \notin Excused \cup {"expire"}
      BY <1>2, <2>2 DEF Excused
    <3>2. Exists(hash[JobOf[r]]) /\ hash[JobOf[r]].ttl
      BY <1>2, <3>1 DEF KeptKeysExpire, Excused
    <3> QED
      BY <1>1, <1>2, <3>2
  <2> QED
    BY <1>2, <2>1, <2>2 DEF StatusCommand, Goto
<1>3. CASE q # r
  <2>1. at'[q] = at[q]
    BY <1>3 DEF StatusCommand, Goto
  <2>2. /\ Exists(hash[JobOf[q]])
        /\ at[q] = "expire" \/ hash[JobOf[q]].ttl
    BY <2>1 DEF KeptKeysExpire, Excused
  <2> QED
    BY <1>1, <2>1, <2>2
<1> QED
  BY <1>2, <1>3

\* A step of one run that issues no command on the status key.
LEMMA ExpiryGoto ==
  ASSUME TypeOK, KeptKeysExpire, NEW r \in Run, NEW next, Goto(r, next),
         next \in Excused \/ at[r] \notin Excused \cup {"expire"},
         UNCHANGED <<hash, removed>>
  PROVE  KeptKeysExpire'
BY DEF KeptKeysExpire, Goto, TypeOK, Excused, Exists

\* KeptKeysExpire, for every instance: nothing the program writes takes a
\* status key, or its TTL, away.
THEOREM KeptKeysExpireAlways == Spec => []KeptKeysExpire
<1>1. Init => KeptKeysExpire
  BY DEF Init, KeptKeysExpire
<1>2. TypeOK /\ KeptKeysExpire /\ [Next]_vars => KeptKeysExpire'
  <2> SUFFICES ASSUME TypeOK, KeptKeysExpire, [Next]_vars PROVE KeptKeysExpire'
    OBVIOUS
  <2> USE GatewayAssumption
  <2>0. ASSUME NEW r \in Run PROVE hash[JobOf[r]] \in Hash
    BY DEF TypeOK
  <2>1. ASSUME NEW r \in Run, RejectUrl(r) PROVE KeptKeysExpire'
    BY <2>1, ExpiryGoto DEF RejectUrl, Excused
  <2>2. ASSUME NEW r \in Run, CreateJob(r) PROVE KeptKeysExpire'
    <3>1. Exists(Created(hash[JobOf[r]]))
      BY DEF Exists, Created
    <3>2. hash[JobOf[r]].ttl => Created(hash[JobOf[r]]).ttl
      BY DEF Created
    <3> QED
      BY <2>0, <2>2, <3>1, <3>2, ExpiryCommand, HashCommands DEF CreateJob
  <2>3. ASSUME NEW r \in Run, SetExpiry(r) PROVE KeptKeysExpire'
    <3>1. Exists(hash[JobOf[r]]) =>
            Exists(Expiring(hash[JobOf[r]])) /\ Expiring(hash[JobOf[r]]).ttl
      BY <2>0 DEF Exists, Expiring, Hash
    <3>2. ~Exists(hash[JobOf[r]]) => Expiring(hash[JobOf[r]]) = hash[JobOf[r]]
      BY DEF Expiring
    <3>3. JobOf[r] \notin removed => Exists(hash[JobOf[r]])
      BY <2>3 DEF SetExpiry, KeptKeysExpire
    <3> QED
      BY <2>0, <2>3, <3>1, <3>2, <3>3, ExpiryCommand, HashCommands DEF SetExpiry
  <2>4. ASSUME NEW r \in Run, UpdatePhase(r) PROVE KeptKeysExpire'
    <3>1. at[r] \notin Excused \cup {"expire"}
      BY <2>4 DEF UpdatePhase, UpdateStages, Excused
    <3>2. JobOf[r] \notin removed => hash[JobOf[r]].ttl
      BY <3>1 DEF KeptKeysExpire, Excused
    <3>3. \A s : Exists(Updated(hash[JobOf[r]], s))
      BY DEF Exists, Updated
    <3>4. \A s : Updated(hash[JobOf[r]], s).ttl = hash[JobOf[r]].ttl
      BY DEF Updated
    <3> QED
      BY <2>0, <2>4, <3>1, <3>2, <3>3, <3>4, ExpiryCommand, HashCommands DEF UpdatePhase
  <2>5. ASSUME NEW r \in Run, ServiceAnswers(r) PROVE KeptKeysExpire'
    <3>1. at[r] \notin Excused \cup {"expire"}
      BY <2>5 DEF ServiceAnswers, CallStages, Excused
    <3> QED
      BY <2>5, <3>1, ExpiryGoto DEF ServiceAnswers
  <2>6. ASSUME NEW r \in Run, CompleteJob(r) PROVE KeptKeysExpire'
    <3>1. at[r] \notin Excused \cup {"expire"}
      BY <2>6 DEF CompleteJob, Excused
    <3>2. JobOf[r] \notin removed => hash[JobOf[r]].ttl
      BY <3>1 DEF KeptKeysExpire, Excused
    <3>3. Exists(Completed(hash[JobOf[r]]))
      BY DEF Exists, Completed
    <3>4. Completed(hash[JobOf[r]]).ttl = hash[JobOf[r]].ttl
      BY DEF Completed
    <3> QED
      BY <2>0, <2>6, <3>1, <3>2, <3>3, <3>4, ExpiryCommand, HashCommands DEF CompleteJob
  <2>7. ASSUME NEW r \in Run, StoreResult(r) PROVE KeptKeysExpire'
    BY <2>7, ExpiryGoto DEF StoreResult, Excused
  <2>8. ASSUME NEW r \in Run, FailJob(r) PROVE KeptKeysExpire'
    <3>1. at[r] \notin Excused \cup {"expire"}
      BY <2>8 DEF FailJob, Excused
    <3>2. JobOf[r] \notin removed => hash[JobOf[r]].ttl
      BY <3>1 DEF KeptKeysExpire, Excused
    <3>3. Exists(Failed(hash[JobOf[r]]))
      BY <2>0 DEF Exists, Failed, Hash
    <3>4. Failed(hash[JobOf[r]]).ttl = hash[JobOf[r]].ttl
      BY <2>0 DEF Failed, Hash
    <3> QED
      BY <2>0, <2>8, <3>1, <3>2, <3>3, <3>4, ExpiryCommand, HashCommands DEF FailJob
  <2>9. ASSUME NEW r \in Run, Cancel(r) PROVE KeptKeysExpire'
    BY <2>9, ExpiryGoto DEF Cancel, Excused
  <2>10. ASSUME NEW j \in Job, DeleteJob(j) \/ StatusVanishes(j) PROVE KeptKeysExpire'
    BY <2>10 DEF DeleteJob, StatusVanishes, KeptKeysExpire, TypeOK, Exists
  <2>11. ASSUME NEW w \in Worker, Crash(w) PROVE KeptKeysExpire'
    BY <2>11 DEF Crash, KeptKeysExpire, Exists
  <2>12. ASSUME UNCHANGED <<hash, at>>, removed \subseteq removed' PROVE KeptKeysExpire'
    BY <2>12 DEF KeptKeysExpire, Exists
  <2>13. ASSUME NEW j \in Job, ReadStatus(j) \/ ReadResult(j) \/ ResultVanishes(j)
         PROVE  UNCHANGED <<hash, at>> /\ removed \subseteq removed'
    BY <2>13 DEF ReadStatus, ReadResult, ResultVanishes
  <2>14. ASSUME NEW w \in Worker, Drain(w) \/ Restart(w)
         PROVE  UNCHANGED <<hash, at>> /\ removed \subseteq removed'
    BY <2>14 DEF Drain, Restart
  <2> QED
    BY <2>1, <2>2, <2>3, <2>4, <2>5, <2>6, <2>7, <2>8, <2>9, <2>10, <2>11,
       <2>12, <2>13, <2>14 DEF Next, RunStep, vars
<1>3. QED
  BY <1>1, <1>2, TypeCorrect, PTL DEF Spec

-------------------------------------------------------------------------------
(* FailedNeedsFault.  Only complete_job sends a run to fail_job, and only  *)
(* when one of its commands raises.                                        *)

FailedAt == {"done", "broken"}

\* A command on the status key, where neither outcome is "fail" without a
\* fault, nor the status failed unless it was, or fail_job wrote it.
LEMMA FaultCommand ==
  ASSUME TypeOK, FailedNeedsFault, NEW r \in Run, NEW new \in Hash,
         NEW next, NEW err, StatusCommand(r, new, next, err),
         at[r] \notin FailedAt, next # "fail",
         \/ new.status = "failed" => hash[JobOf[r]].status = "failed"
         \/ (r \in Faulty /\ next = "done" /\ err = "broken")
  PROVE  FailedNeedsFault'
<1> USE GatewayAssumption DEF TypeOK
<1>1. ASSUME NEW q \in Run, at'[q] = "fail" PROVE q \in Faulty
  BY <1>1 DEF StatusCommand, Goto, FailedNeedsFault
<1>2. ASSUME NEW j \in Job, hash'[j].status = "failed"
      PROVE  \E q \in RunsOf(j) \cap Faulty : at'[q] \in FailedAt
  <2>1. CASE hash[j].status = "failed"
    <3>1. PICK q \in RunsOf(j) \cap Faulty : at[q] \in FailedAt
      BY <2>1 DEF FailedNeedsFault, FailedAt
    <3> QED
      BY <3>1 DEF StatusCommand, Goto, RunsOf
  <2>2. CASE hash[j].status # "failed"
    <3>1. j = JobOf[r] /\ hash'[j] = new
      BY <1>2, <2>2 DEF StatusCommand
    <3>2. r \in Faulty /\ next = "done" /\ err = "broken"
      BY <1>2, <2>2, <3>1
    <3>3. at'[r] \in FailedAt
      BY <3>2 DEF StatusCommand, Goto, FailedAt
    <3> QED
      BY <3>1, <3>2, <3>3 DEF RunsOf
  <2> QED
    BY <2>1, <2>2
<1> QED
  BY <1>1, <1>2 DEF FailedNeedsFault, FailedAt, RunsOf

\* A step of one run that issues no command on the status key.
LEMMA FaultGoto ==
  ASSUME TypeOK, FailedNeedsFault, NEW r \in Run, NEW next, Goto(r, next),
         at[r] \notin FailedAt, next # "fail" \/ r \in Faulty, UNCHANGED hash
  PROVE  FailedNeedsFault'
BY DEF FailedNeedsFault, Goto, TypeOK, RunsOf, FailedAt

\* FailedNeedsFault, for every instance: whatever the services answer, a job
\* fails only by an error of Redis.
THEOREM FailedNeedsFaultAlways == Spec => []FailedNeedsFault
<1>1. Init => FailedNeedsFault
  BY DEF Init, FailedNeedsFault, NoHash
<1>2. TypeOK /\ FailedNeedsFault /\ [Next]_vars => FailedNeedsFault'
  <2> SUFFICES ASSUME TypeOK, FailedNeedsFault, [Next]_vars PROVE FailedNeedsFault'
    OBVIOUS
  <2> USE GatewayAssumption
  <2>0. ASSUME NEW r \in Run PROVE hash[JobOf[r]] \in Hash
    BY DEF TypeOK
  <2>1. ASSUME NEW r \in Run, RejectUrl(r) PROVE FailedNeedsFault'
    BY <2>1, FaultGoto DEF RejectUrl, Unstarted, FailedAt
  <2>2. ASSUME NEW r \in Run, CreateJob(r) PROVE FailedNeedsFault'
    <3>1. Created(hash[JobOf[r]]).status # "failed"
      BY DEF Created
    <3> QED
      BY <2>0, <2>2, <3>1, FaultCommand, HashCommands DEF CreateJob, Unstarted, FailedAt
  <2>3. ASSUME NEW r \in Run, SetExpiry(r) PROVE FailedNeedsFault'
    <3>1. Expiring(hash[JobOf[r]]).status = hash[JobOf[r]].status
      BY <2>0 DEF Expiring, Hash
    <3> QED
      BY <2>0, <2>3, <3>1, FaultCommand, HashCommands DEF SetExpiry, FailedAt
  <2>4. ASSUME NEW r \in Run, UpdatePhase(r) PROVE FailedNeedsFault'
    <3>1. \A s : Updated(hash[JobOf[r]], s).status # "failed"
      BY DEF Updated
    <3>2. at[r] \notin FailedAt /\ "fail" \notin Stages
      BY <2>4, StepNames DEF UpdatePhase, UpdateStages, FailedAt
    <3> QED
      BY <2>0, <2>4, <3>1, <3>2, FaultCommand, HashCommands DEF UpdatePhase
  <2>5. ASSUME NEW r \in Run, ServiceAnswers(r) PROVE FailedNeedsFault'
    <3>1. at[r] \notin FailedAt /\ "fail" \notin Stages
      BY <2>5, StepNames DEF ServiceAnswers, CallStages, FailedAt
    <3> QED
      BY <2>5, <3>1, FaultGoto DEF ServiceAnswers
  <2>6. ASSUME NEW r \in Run, CompleteJob(r) PROVE FailedNeedsFault'
    <3>1. Completed(hash[JobOf[r]]).status # "failed"
      BY DEF Completed
    <3> QED
      BY <2>0, <2>6, <3>1, FaultCommand, HashCommands DEF CompleteJob, FailedAt
  <2>7. ASSUME NEW r \in Run, StoreResult(r) PROVE FailedNeedsFault'
    BY <2>7, FaultGoto DEF StoreResult, FailedAt
  <2>8. ASSUME NEW r \in Run, FailJob(r) PROVE FailedNeedsFault'
    <3>1. r \in Faulty
      BY <2>8 DEF FailJob, FailedNeedsFault
    <3> QED
      BY <2>0, <2>8, <3>1, FaultCommand, HashCommands DEF FailJob, FailedAt
  <2>9. ASSUME NEW r \in Run, Cancel(r) PROVE FailedNeedsFault'
    <3>1. at[r] \notin FailedAt
      BY <2>9, StepNames DEF Cancel, InTask, Ended, FailedAt
    <3> QED
      BY <2>9, <3>1, FaultGoto DEF Cancel
  <2>10. ASSUME NEW j \in Job, DeleteJob(j) \/ StatusVanishes(j) PROVE FailedNeedsFault'
    BY <2>10 DEF DeleteJob, StatusVanishes, FailedNeedsFault, TypeOK, NoHash, RunsOf
  <2>11. ASSUME NEW w \in Worker, Crash(w) PROVE FailedNeedsFault'
    <3>1. \A q \in Run : at'[q] = at[q] \/ (at'[q] = "lost" /\ at[q] \in Live)
      BY <2>11 DEF Crash
    <3>2. \A q \in Run : at[q] \in FailedAt => at'[q] = at[q]
      BY <3>1, StepNames DEF Live, InTask, Ended, FailedAt
    <3> QED
      BY <2>11, <3>1, <3>2 DEF Crash, FailedNeedsFault, RunsOf, FailedAt
  <2>12. CASE UNCHANGED <<hash, at>>
    BY <2>12 DEF FailedNeedsFault, RunsOf
  <2>13. ASSUME NEW j \in Job, ReadStatus(j) \/ ReadResult(j) \/ ResultVanishes(j)
         PROVE  UNCHANGED <<hash, at>>
    BY <2>13 DEF ReadStatus, ReadResult, ResultVanishes
  <2>14. ASSUME NEW w \in Worker, Drain(w) \/ Restart(w) PROVE UNCHANGED <<hash, at>>
    BY <2>14 DEF Drain, Restart
  <2> QED
    BY <2>1, <2>2, <2>3, <2>4, <2>5, <2>6, <2>7, <2>8, <2>9, <2>10, <2>11,
       <2>12, <2>13, <2>14 DEF Next, RunStep, vars
<1>3. QED
  BY <1>1, <1>2, TypeCorrect, PTL DEF Spec

-------------------------------------------------------------------------------
(* ImplementsLifecycle.  A job that one run alone writes is where that run *)
(* is: what its hash may read follows from the await the run is at.        *)

Once(j) == \A r, s \in RunsOf(j) : r = s

\* The progress that can have been stored by the time a run is at s.
Bound(s) ==
  CASE s \in {"expire", "phase0"}  -> 0
    [] s \in {"analyze", "phase1"} -> 1
    [] s \in {"crawl", "phase2"}   -> 3
    [] s \in {"agent", "phase3"}   -> 5
    [] OTHER                       -> 7

Course(h, s) ==
  /\ s \in {"idle", "rejected"} => h.status = "absent" /\ h.progress = 0
  /\ s \in {"expire"} \cup Stages => Unfinished(h) /\ h.progress <= Bound(s)
  /\ s = "store" => h.status = "completed"
  /\ s = "fail" => Unfinished(h) \/ h.status = "completed"
  /\ s = "done" => h.status \in {"completed", "failed"}

OnCourse ==
  \A r \in Run : Once(JobOf[r]) /\ JobOf[r] \notin removed =>
    Course(hash[JobOf[r]], at[r])

\* The awaits that follow one another, and the progress each command writes.
LEMMA CourseSteps ==
  ASSUME NEW h \in Hash
  PROVE  /\ Course(NoHash, "idle")
         /\ Course(h, "idle") => Course(h, "rejected")
         /\ Course(Created(h), "expire")
         /\ Course(h, "expire") => Course(Expiring(h), "phase0")
         /\ \A s \in Stages, t \in Stages :
              Follows(s, t) /\ s \in CallStages /\ Course(h, s) => Course(h, t)
         /\ \A s \in UpdateStages, t \in Stages : Course(h, s) =>
              /\ OnAnswer(s, t) => Course(Updated(h, s), t)
              /\ Course(Updated(h, s), "audit")
              /\ Course(h, "audit")
         /\ Course(Completed(h), "store")
         /\ Course(Completed(h), "fail")
         /\ Course(h, "returned") => Course(h, "fail")
         /\ Course(h, "store") => Course(h, "done") /\ Course(h, "fail")
         /\ Course(Failed(h), "done")
         /\ Course(h, "refused") /\ Course(h, "lost") /\ Course(h, "broken")
<1> USE DEF Hash, Statuses, Unfinished
<1>0. /\ Stages = {"phase0", "phase1", "phase2", "phase3", "analyze", "crawl",
                   "agent", "process", "audit", "returned"}
      /\ UpdateStages \subseteq Stages /\ CallStages \subseteq Stages
  BY DEF Stages, UpdateStages, CallStages
<1>1. Course(NoHash, "idle")
  BY <1>0 DEF Course, NoHash
<1>2. Course(h, "idle") => Course(h, "rejected")
  BY <1>0 DEF Course
<1>3. Course(Created(h), "expire")
  BY <1>0 DEF Course, Created, Bound
<1>4. Course(h, "expire") => Course(Expiring(h), "phase0")
  BY <1>0 DEF Course, Expiring, Exists, Bound
<1>5. ASSUME NEW s \in Stages, Course(h, s)
      PROVE  Unfinished(h) /\ h.progress \in 0..Bound(s) /\ Bound(s) \in 0..7
  BY <1>0, <1>5 DEF Course, Bound
<1>6. ASSUME NEW g \in Hash, NEW t \in Stages, Unfinished(g), g.progress <= Bound(t)
      PROVE  Course(g, t)
  BY <1>0, <1>6 DEF Course
<1>7. ASSUME NEW s \in Stages, NEW t \in Stages, Follows(s, t), s \in CallStages, Course(h, s)
      PROVE  Course(h, t)
  <2>1. Bound(s) <= Bound(t)
    BY <1>7 DEF Follows, OnAnswer, OnException, CallStages, Bound
  <2> QED
    BY <1>5, <1>6, <1>7, <2>1 DEF Bound
<1>8. ASSUME NEW s \in UpdateStages, NEW t \in Stages, Course(h, s)
      PROVE  /\ OnAnswer(s, t) => Course(Updated(h, s), t)
             /\ Course(Updated(h, s), "audit")
             /\ Course(h, "audit")
  <2>1. Bound("audit") = 7 /\ Progress(s) \in 0..7
    BY DEF Bound, Progress
  <2>2. OnAnswer(s, t) => Progress(s) <= Bound(t)
    BY DEF OnAnswer, UpdateStages, Bound, Progress
  <2>3. Updated(h, s) \in Hash /\ Unfinished(Updated(h, s))
        /\ Updated(h, s).progress = Progress(s)
    BY <2>1 DEF Updated
  <2> QED
    BY <1>0, <1>5, <1>6, <1>8, <2>1, <2>2, <2>3
<1>9. Course(Completed(h), "store") /\ Course(Completed(h), "fail")
  BY <1>0 DEF Course, Completed
<1>10. Course(h, "returned") => Course(h, "fail")
  BY <1>0 DEF Course
<1>11. Course(h, "store") => Course(h, "done") /\ Course(h, "fail")
  BY <1>0 DEF Course
<1>12. Course(Failed(h), "done")
  BY <1>0 DEF Course, Failed
<1>13. Course(h, "refused") /\ Course(h, "lost") /\ Course(h, "broken")
  BY <1>0 DEF Course
<1> QED
  BY <1>1, <1>2, <1>3, <1>4, <1>7, <1>8, <1>9, <1>10, <1>11, <1>12, <1>13

\* A command on the status key each outcome of which is on the course.
LEMMA CourseCommand ==
  ASSUME TypeOK, OnCourse, NEW r \in Run, NEW new, NEW next, NEW err,
         StatusCommand(r, new, next, err),
         Course(hash[JobOf[r]], at[r]) =>
           Course(new, next) /\ Course(new, err) /\ Course(hash[JobOf[r]], err)
  PROVE  OnCourse'
<1> SUFFICES ASSUME NEW q \in Run, Once(JobOf[q]), JobOf[q] \notin removed
             PROVE  Course(hash'[JobOf[q]], at'[q])
  BY DEF OnCourse, StatusCommand, Once, RunsOf, Course, Unfinished
<1> USE GatewayAssumption DEF TypeOK
<1>1. CASE q = r
  <2>1. Course(hash[JobOf[r]], at[r])
    BY <1>1 DEF OnCourse
  <2> QED
    BY <1>1, <2>1 DEF StatusCommand, Goto
<1>2. CASE q # r
  <2>1. JobOf[q] # JobOf[r]
    BY <1>2 DEF Once, RunsOf
  <2>2. hash'[JobOf[q]] = hash[JobOf[q]] /\ at'[q] = at[q]
    BY <1>2, <2>1 DEF StatusCommand, Goto
  <2> QED
    BY <2>2 DEF OnCourse
<1> QED
  BY <1>1, <1>2

\* A step of one run that leaves the status keys alone.
LEMMA CourseGoto ==
  ASSUME TypeOK, OnCourse, NEW r \in Run, NEW next, Goto(r, next),
         UNCHANGED <<hash, removed>>,
         Course(hash[JobOf[r]], at[r]) => Course(hash[JobOf[r]], next)
  PROVE  OnCourse'
<1> SUFFICES ASSUME NEW q \in Run, Once(JobOf[q]), JobOf[q] \notin removed
             PROVE  Course(hash[JobOf[q]], at'[q])
  BY DEF OnCourse, Once, RunsOf, Course, Unfinished
<1>1. Course(hash[JobOf[q]], at[q])
  BY DEF OnCourse
<1> QED
  BY <1>1 DEF Goto, TypeOK

LEMMA OnCourseInit == Init => OnCourse
<1>1. NoHash \in Hash
  BY DEF NoHash, Hash, Statuses
<1>2. Course(NoHash, "idle")
  BY <1>1, CourseSteps
<1> QED
  BY <1>2, GatewayAssumption DEF Init, OnCourse

LEMMA OnCourseNext == TypeOK /\ OnCourse /\ [Next]_vars => OnCourse'
<1> SUFFICES ASSUME TypeOK, OnCourse, [Next]_vars PROVE OnCourse'
  OBVIOUS
<1>0. ASSUME NEW r \in Run PROVE JobOf[r] \in Job /\ hash[JobOf[r]] \in Hash
  BY GatewayAssumption DEF TypeOK
<1>1. ASSUME NEW r \in Run, RejectUrl(r) PROVE OnCourse'
  BY <1>0, <1>1, CourseGoto, CourseSteps DEF RejectUrl, Unstarted
<1>2. ASSUME NEW r \in Run, CreateJob(r) PROVE OnCourse'
  <2>1. Course(Created(hash[JobOf[r]]), "refused") /\ Course(hash[JobOf[r]], "refused")
    BY <1>0, CourseSteps, HashCommands
  <2> QED
    BY <1>0, <1>2, <2>1, CourseCommand, CourseSteps DEF CreateJob, Unstarted
<1>3. ASSUME NEW r \in Run, SetExpiry(r) PROVE OnCourse'
  <2>1. Course(Expiring(hash[JobOf[r]]), "refused") /\ Course(hash[JobOf[r]], "refused")
    BY <1>0, CourseSteps, HashCommands
  <2> QED
    BY <1>0, <1>3, <2>1, CourseCommand, CourseSteps DEF SetExpiry
<1>4. ASSUME NEW r \in Run, UpdatePhase(r) PROVE OnCourse'
  <2>1. PICK next \in Stages :
          /\ OnAnswer(at[r], next)
          /\ StatusCommand(r, Updated(hash[JobOf[r]], at[r]), next, "audit")
    BY <1>4 DEF UpdatePhase
  <2>2. at[r] \in UpdateStages
    BY <1>4 DEF UpdatePhase
  <2> QED
    BY <1>0, <2>1, <2>2, CourseCommand, CourseSteps
<1>5. ASSUME NEW r \in Run, ServiceAnswers(r) PROVE OnCourse'
  <2>1. at[r] \in CallStages /\ at[r] \in Stages
    BY <1>5 DEF ServiceAnswers, Stages
  <2> QED
    BY <1>0, <1>5, <2>1, CourseGoto, CourseSteps DEF ServiceAnswers
<1>6. ASSUME NEW r \in Run, CompleteJob(r) PROVE OnCourse'
  BY <1>0, <1>6, CourseCommand, CourseSteps DEF CompleteJob
<1>7. ASSUME NEW r \in Run, StoreResult(r) PROVE OnCourse'
  BY <1>0, <1>7, CourseGoto, CourseSteps DEF StoreResult
<1>8. ASSUME NEW r \in Run, FailJob(r) PROVE OnCourse'
  <2>1. Course(Failed(hash[JobOf[r]]), "broken") /\ Course(hash[JobOf[r]], "broken")
    BY <1>0, CourseSteps, HashCommands
  <2> QED
    BY <1>0, <1>8, <2>1, CourseCommand, CourseSteps DEF FailJob
<1>9. ASSUME NEW r \in Run, Cancel(r) PROVE OnCourse'
  BY <1>0, <1>9, CourseGoto, CourseSteps DEF Cancel
<1>10. ASSUME NEW j \in Job, DeleteJob(j) \/ StatusVanishes(j) PROVE OnCourse'
  BY <1>10, GatewayAssumption
     DEF DeleteJob, StatusVanishes, OnCourse, TypeOK, Once, RunsOf, Course, Unfinished
<1>11. ASSUME NEW w \in Worker, Crash(w) PROVE OnCourse'
  <2>1. \A q \in Run : at'[q] = at[q] \/ at'[q] = "lost"
    BY <1>11 DEF Crash
  <2>2. \A q \in Run : Course(hash[JobOf[q]], "lost")
    BY <1>0, CourseSteps
  <2> QED
    BY <1>11, <2>1, <2>2 DEF Crash, OnCourse, Once, RunsOf, Course, Unfinished
<1>12. ASSUME UNCHANGED <<hash, at>>, removed \subseteq removed' PROVE OnCourse'
  BY <1>12 DEF OnCourse, Once, RunsOf, Course, Unfinished
<1>13. ASSUME NEW j \in Job, ReadStatus(j) \/ ReadResult(j) \/ ResultVanishes(j)
       PROVE  UNCHANGED <<hash, at>> /\ removed \subseteq removed'
  BY <1>13 DEF ReadStatus, ReadResult, ResultVanishes
<1>14. ASSUME NEW w \in Worker, Drain(w) \/ Restart(w)
       PROVE  UNCHANGED <<hash, at>> /\ removed \subseteq removed'
  BY <1>14 DEF Drain, Restart
<1> QED
  BY <1>1, <1>2, <1>3, <1>4, <1>5, <1>6, <1>7, <1>8, <1>9, <1>10, <1>11,
     <1>12, <1>13, <1>14 DEF Next, RunStep, vars

\* A step that touches neither the keys nor the runs of a job.
LEMMA StageSame ==
  ASSUME NEW j \in Job, hash'[j] = hash[j], result'[j] = result[j],
         \A q \in RunsOf(j) : at'[q] = at[q]
  PROVE  LifecycleStep(j)
<1>1. Stage(j)' = Stage(j)
  BY DEF Stage, RunsOf
<1> QED
  BY <1>1 DEF LifecycleStep, Lifecycle!vars

\* The stage of a job of one run.
LEMMA StageOf ==
  ASSUME NEW r \in Run, Once(JobOf[r])
  PROVE  LET j == JobOf[r] IN
         Stage(j) = IF hash[j].status = "completed"
                      THEN IF result[j] # NoRun /\ at[r] \notin Live
                             THEN "completed" ELSE "publishing"
                      ELSE hash[j].status
BY DEF Stage, Once, RunsOf

\* What one step makes of a job that is submitted once and whose keys stay.
LEMMA LifecycleNext ==
  ASSUME TypeOK, OnCourse, Next, NEW j \in Job, j \notin removed', Once(j)
  PROVE  LifecycleStep(j)
<1> USE GatewayAssumption
<1> DEFINE h == hash[j]
<1>0. h \in Hash
  BY DEF TypeOK
<1>1. ASSUME NEW r \in Run, JobOf[r] # j, RejectUrl(r) \/ CreateJob(r) \/ RunStep(r) \/ Cancel(r)
      PROVE  LifecycleStep(j)
  <2>1. hash'[j] = hash[j] /\ result'[j] = result[j]
    BY <1>1 DEF RejectUrl, CreateJob, RunStep, SetExpiry, UpdatePhase, ServiceAnswers,
                CompleteJob, StoreResult, FailJob, Cancel, StatusCommand, TypeOK
  <2>2. \A q \in RunsOf(j) : at'[q] = at[q]
    <3>1. PICK next : Goto(r, next)
      BY <1>1 DEF RejectUrl, CreateJob, RunStep, SetExpiry, UpdatePhase, ServiceAnswers,
                  CompleteJob, StoreResult, FailJob, Cancel, StatusCommand
    <3> QED
      BY <1>1, <3>1 DEF Goto, TypeOK, RunsOf
  <2> QED
    BY <2>1, <2>2, StageSame
<1>2. ASSUME NEW r \in Run, JobOf[r] = j, RejectUrl(r) \/ CreateJob(r) \/ RunStep(r) \/ Cancel(r)
      PROVE  LifecycleStep(j)
  <2> DEFINE StageAt(g, res, s) ==
        IF g.status = "completed"
          THEN IF res # NoRun /\ s \notin Live THEN "completed" ELSE "publishing"
          ELSE g.status
  <2>1. Stage(j) = StageAt(h, result[j], at[r])
    BY <1>2 DEF Stage, Once, RunsOf
  <2>2. Stage(j)' = StageAt(hash'[j], result'[j], at'[r])
    BY <1>2 DEF Stage, Once, RunsOf
  <2>3. Course(h, at[r]) \/ j \in removed
    BY <1>2 DEF OnCourse
  <2>4. removed' = removed
    BY <1>2 DEF RejectUrl, CreateJob, RunStep, SetExpiry, UpdatePhase, ServiceAnswers,
                CompleteJob, StoreResult, FailJob, Cancel, StatusCommand
  <2>5. Course(h, at[r])
    BY <2>3, <2>4
  <2>6. h.status \in Statuses /\ h.progress \in 0..10
    BY <1>0 DEF Hash
  <2> HIDE DEF h
  <2>7. ASSUME Stage(j)' = Stage(j), hash'[j].progress = h.progress PROVE LifecycleStep(j)
    BY <2>7 DEF LifecycleStep, Lifecycle!vars, h
  <2>8. CASE RejectUrl(r)
    <3>1. h.status = "absent" /\ hash' = hash
      BY <2>5, <2>8 DEF RejectUrl, Unstarted, Course
    <3> QED
      BY <2>1, <2>2, <2>7, <3>1 DEF h
  <2>9. CASE CreateJob(r)
    <3>1. h.status = "absent" /\ h.progress = 0
      BY <2>5, <2>9 DEF CreateJob, Unstarted, Course
    <3>2. hash'[j] = h \/ hash'[j] = Created(h)
      BY <1>2, <2>9 DEF CreateJob, StatusCommand, TypeOK, h
    <3>3. CASE hash'[j] = h
      BY <2>1, <2>2, <2>7, <3>1, <3>3
    <3>4. CASE hash'[j] = Created(h)
      BY <2>1, <2>2, <3>1, <3>4
         DEF Created, LifecycleStep, Lifecycle!Next, Lifecycle!Submit, h
    <3> QED
      BY <3>2, <3>3, <3>4
  <2>10. CASE SetExpiry(r)
    <3>1. h.status # "completed"
      BY <2>5, <2>10 DEF SetExpiry, Course, Unfinished
    <3>2. hash'[j] = h \/ hash'[j] = Expiring(h)
      BY <1>2, <2>10 DEF SetExpiry, StatusCommand, TypeOK, h
    <3>3. hash'[j].status = h.status /\ hash'[j].progress = h.progress
      BY <1>0, <3>2 DEF Expiring, Hash, h
    <3> QED
      BY <2>1, <2>2, <2>7, <3>1, <3>3
  <2>11. CASE UpdatePhase(r)
    <3>1. h.status \in {"submitted", "running"} /\ h.progress <= Bound(at[r])
      BY <2>5, <2>11 DEF UpdatePhase, Course, Unfinished, Stages
    <3>2. hash'[j] = h \/ hash'[j] = Updated(h, at[r])
      BY <1>2, <2>11 DEF UpdatePhase, StatusCommand, TypeOK, h
    <3>3. Bound(at[r]) <= Progress(at[r]) /\ Progress(at[r]) \in 0..9
      BY <2>11 DEF UpdatePhase, UpdateStages, Bound, Progress
    <3>4. CASE hash'[j] = h
      BY <2>1, <2>2, <2>7, <3>1, <3>4
    <3>5. CASE hash'[j] = Updated(h, at[r])
      <4>1. hash'[j].status = "running" /\ hash'[j].progress = Progress(at[r])
        BY <3>5 DEF Updated
      <4>2. h.progress <= Progress(at[r])
        BY <2>6, <3>1, <3>3, <2>11 DEF UpdatePhase, UpdateStages, Bound
      <4> QED
        BY <2>1, <2>2, <2>6, <3>1, <3>3, <4>1, <4>2
           DEF LifecycleStep, Lifecycle!Next, Lifecycle!Advance, h
    <3> QED
      BY <3>2, <3>4, <3>5
  <2>12. CASE ServiceAnswers(r)
    <3>1. h.status # "completed" /\ hash' = hash
      BY <2>5, <2>12 DEF ServiceAnswers, Course, Unfinished, Stages
    <3> QED
      BY <2>1, <2>2, <2>7, <3>1 DEF h
  <2>13. CASE CompleteJob(r)
    <3>1. h.status \in {"submitted", "running"}
      BY <2>5, <2>13 DEF CompleteJob, Course, Unfinished, Stages
    <3>2. /\ hash'[j] = h \/ hash'[j] = Completed(h)
          /\ at'[r] \in {"store", "fail"}
      BY <1>2, <2>13 DEF CompleteJob, StatusCommand, Goto, TypeOK, h
    <3>3. CASE hash'[j] = h
      BY <2>1, <2>2, <2>7, <3>1, <3>3
    <3>4. CASE hash'[j] = Completed(h)
      <4>1. at'[r] \in Live
        BY <3>2 DEF Live, InTask
      <4> QED
        BY <2>1, <2>2, <3>1, <3>4, <4>1
           DEF Completed, LifecycleStep, Lifecycle!Next, Lifecycle!Publish, h
    <3> QED
      BY <3>2, <3>3, <3>4
  <2>14. ASSUME h.status = "completed", hash' = hash, at[r] \in Live PROVE LifecycleStep(j)
    <3>1. Stage(j) = "publishing" /\ Stage(j)' \in {"publishing", "completed"}
      BY <2>1, <2>2, <2>14 DEF h
    <3> QED
      BY <2>7, <2>14, <3>1
         DEF LifecycleStep, Lifecycle!Next, Lifecycle!Conclude, h
  <2>15. CASE StoreResult(r)
    BY <2>5, <2>14, <2>15 DEF StoreResult, Course, Live, InTask
  <2>16. CASE FailJob(r)
    <3>1. h.status \in {"submitted", "running", "completed"} /\ at[r] \in Live
      BY <2>5, <2>16 DEF FailJob, Course, Unfinished, Live, InTask
    <3>2. /\ hash' = hash \/ hash'[j] = Failed(h)
          /\ result' = result
      BY <1>2, <2>16 DEF FailJob, StatusCommand, TypeOK, h
    <3>3. CASE hash' = hash
      BY <2>1, <2>2, <2>7, <2>14, <3>1, <3>3 DEF h
    <3>4. CASE hash'[j] = Failed(h)
      <4>1. hash'[j].status = "failed" /\ hash'[j].progress = h.progress
        BY <1>0, <3>4 DEF Failed, Hash, h
      <4> QED
        BY <2>1, <2>2, <3>1, <4>1
           DEF LifecycleStep, Lifecycle!Next, Lifecycle!Fail, h
    <3> QED
      BY <3>2, <3>3, <3>4
  <2>17. CASE Cancel(r)
    <3>1. hash' = hash /\ result' = result /\ at[r] \in Live
      BY <2>17 DEF Cancel, Live
    <3> QED
      BY <2>1, <2>2, <2>7, <2>14, <3>1 DEF h
  <2> QED
    BY <1>2, <2>8, <2>9, <2>10, <2>11, <2>12, <2>13, <2>15, <2>16, <2>17 DEF RunStep
<1>3. ASSUME NEW i \in Job, DeleteJob(i) \/ StatusVanishes(i) \/ ResultVanishes(i)
      PROVE  LifecycleStep(j)
  <2>1. i # j
    BY <1>3 DEF DeleteJob, StatusVanishes, ResultVanishes
  <2> QED
    BY <1>3, <2>1, StageSame DEF DeleteJob, StatusVanishes, ResultVanishes, TypeOK
<1>4. ASSUME NEW w \in Worker, Crash(w) PROVE LifecycleStep(j)
  <2>1. hash' = hash /\ result' = result
    BY <1>4 DEF Crash
  <2>2. CASE \A q \in RunsOf(j) : at'[q] = at[q]
    BY <2>1, <2>2, StageSame
  <2>3. ASSUME NEW r \in RunsOf(j), at'[r] # at[r] PROVE LifecycleStep(j)
    <3>1. at[r] \in Live /\ RunsOf(j) = {r}
      BY <1>4, <2>3 DEF Crash, RunsOf, Once
    <3>2. CASE h.status = "completed"
      <4>1. Stage(j) = "publishing" /\ Stage(j)' \in {"publishing", "completed"}
        BY <2>1, <3>1, <3>2 DEF Stage, RunsOf
      <4> QED
        BY <2>1, <4>1
           DEF LifecycleStep, Lifecycle!vars, Lifecycle!Next, Lifecycle!Conclude
    <3>3. CASE h.status # "completed"
      <4>1. Stage(j)' = Stage(j)
        BY <2>1, <3>3 DEF Stage
      <4> QED
        BY <2>1, <4>1 DEF LifecycleStep, Lifecycle!vars
    <3> QED
      BY <3>2, <3>3
  <2> QED
    BY <2>2, <2>3
<1>5. ASSUME UNCHANGED <<hash, result, at>> PROVE LifecycleStep(j)
  BY <1>5, StageSame
<1>6. ASSUME NEW i \in Job, ReadStatus(i) \/ ReadResult(i) PROVE UNCHANGED <<hash, result, at>>
  BY <1>6 DEF ReadStatus, ReadResult
<1>7. ASSUME NEW w \in Worker, Drain(w) \/ Restart(w) PROVE UNCHANGED <<hash, result, at>>
  BY <1>7 DEF Drain, Restart
<1> QED
  BY <1>1, <1>2, <1>3, <1>4, <1>5, <1>6, <1>7 DEF Next

\* ImplementsLifecycle for every instance: where each job is submitted once, it
\* lives as JobLifecycle says for as long as its keys are kept, whatever Redis
\* commands raise and whichever workers stop at whichever await.
THEOREM LifecycleAlways ==
  ASSUME \A r, s \in Run : JobOf[r] = JobOf[s] => r = s
  PROVE  Spec => ImplementsLifecycle
<1> DEFINE Step == \A j \in Job \ removed' : LifecycleStep(j)
<1>1. Init => \A j \in Job : Lifecycle(j)!Init
  BY DEF Init, NoHash, Stage, Lifecycle!Init
<1>2. TypeOK /\ OnCourse /\ [Next]_vars => [Step]_vars
  <2> SUFFICES ASSUME TypeOK, OnCourse, Next, NEW j \in Job \ removed'
               PROVE  LifecycleStep(j)
    OBVIOUS
  <2>1. Once(j)
    BY DEF Once, RunsOf
  <2> QED
    BY <2>1, LifecycleNext
<1> HIDE DEF Step
<1>3. Init /\ [][Next]_vars => [][Step]_vars
  BY <1>2, OnCourseInit, OnCourseNext, TypeCorrect, PTL DEF Spec
<1> USE DEF Step
<1> QED
  BY <1>1, <1>3 DEF Spec, ImplementsLifecycle

-------------------------------------------------------------------------------
(* StaleResultNeedsRerun.  A stored result is that of a run of the job that *)
(* has made its second write; and where it stands beside an unfinished      *)
(* status, the status was written by another run.                           *)

Written == {"done", "fail", "broken", "lost"}

OwnResult ==
  \A j \in Job : result[j] # NoRun =>
    result[j] \in RunsOf(j) /\ at[result[j]] \in Written

Publishing(r) == result[JobOf[r]] = r \/ at[r] = "store"

Rerun ==
  \A r \in Run : Publishing(r) /\ Unfinished(hash[JobOf[r]]) =>
    \E s \in RunsOf(JobOf[r]) \ {r} : at[s] \notin {"idle", "rejected"}

ResultInv == OwnResult /\ Rerun

\* A step of one run that stores no result, and does not undo its own.
LEMMA OwnResultGoto ==
  ASSUME TypeOK, OwnResult, NEW r \in Run, NEW next, Goto(r, next), UNCHANGED result,
         at[r] \in Written => next \in Written
  PROVE  OwnResult'
BY DEF OwnResult, Goto, TypeOK, RunsOf

\* A step of one run that has not come to its second write, after which the
\* status reads unfinished only if it did, or if that run wrote it.
LEMMA RerunCommand ==
  ASSUME TypeOK, ResultInv, NEW r \in Run, NEW next, Goto(r, next), UNCHANGED result,
         next \notin {"idle", "rejected"}, next # "store" \/ ~Unfinished(hash'[JobOf[r]]),
         ~Publishing(r) \/ ~Unfinished(hash'[JobOf[r]]) \/ Unfinished(hash[JobOf[r]]),
         \A j \in Job : hash'[j] = hash[j] \/ j = JobOf[r]
  PROVE  Rerun'
<1> SUFFICES ASSUME NEW q \in Run, Publishing(q)', Unfinished(hash'[JobOf[q]])
             PROVE  \E s \in RunsOf(JobOf[q]) \ {q} : at'[s] \notin {"idle", "rejected"}
  BY DEF Rerun, Publishing, Unfinished, RunsOf
<1> USE GatewayAssumption DEF TypeOK
<1>1. at'[r] = next /\ \A s \in Run \ {r} : at'[s] = at[s]
  BY DEF Goto
<1>2. CASE q # r /\ JobOf[q] = JobOf[r]
  BY <1>1, <1>2 DEF RunsOf
<1>3. CASE q # r /\ JobOf[q] # JobOf[r]
  <2>1. Publishing(q) /\ Unfinished(hash[JobOf[q]])
    BY <1>1, <1>3 DEF Publishing
  <2>2. PICK s \in RunsOf(JobOf[q]) \ {q} : at[s] \notin {"idle", "rejected"}
    BY <2>1 DEF ResultInv, Rerun
  <2> QED
    BY <1>1, <1>3, <2>2 DEF RunsOf
<1>4. CASE q = r
  <2>1. Publishing(r) \/ next = "store"
    BY <1>1, <1>4 DEF Publishing
  <2>2. Publishing(r) /\ Unfinished(hash[JobOf[r]])
    BY <1>4, <2>1
  <2>3. PICK s \in RunsOf(JobOf[r]) \ {r} : at[s] \notin {"idle", "rejected"}
    BY <2>2 DEF ResultInv, Rerun
  <2> QED
    BY <1>1, <1>4, <2>3 DEF RunsOf
<1> QED
  BY <1>2, <1>3, <1>4

LEMMA ResultInvNext == TypeOK /\ ResultInv /\ [Next]_vars => ResultInv'
<1> SUFFICES ASSUME TypeOK, ResultInv, [Next]_vars PROVE ResultInv'
  OBVIOUS
<1> USE GatewayAssumption
<1>0. ASSUME NEW r \in Run
      PROVE  /\ JobOf[r] \in Job /\ hash[JobOf[r]] \in Hash
             /\ at[r] \notin Written \cup {"store"} => ~Publishing(r)
  BY DEF TypeOK, ResultInv, OwnResult, Publishing, RunsOf
<1>1. ASSUME NEW r \in Run, RejectUrl(r) PROVE ResultInv'
  <2>1. at[r] \notin Written
    BY <1>1 DEF RejectUrl, Unstarted, Written
  <2>2. OwnResult'
    BY <1>1, <2>1, OwnResultGoto DEF RejectUrl, ResultInv
  <2>3. Rerun'
    BY <1>1 DEF RejectUrl, Unstarted, Goto, ResultInv, Rerun, Publishing, TypeOK, RunsOf,
                Unfinished
  <2> QED
    BY <2>2, <2>3 DEF ResultInv
<1>2. ASSUME NEW r \in Run, NEW new, NEW next, NEW err, StatusCommand(r, new, next, err),
             at[r] \in Written => next \in Written /\ err \in Written,
             {next, err} \cap {"idle", "rejected"} = {}, err # "store",
             next # "store" \/ ~Unfinished(new),
             ~Publishing(r) \/ ~Unfinished(new) \/ Unfinished(hash[JobOf[r]])
      PROVE  ResultInv'
  <2> USE <1>2
  <2>1. PICK step \in {next, err} :
          /\ Goto(r, step)
          /\ step # err => step = next /\ hash'[JobOf[r]] = new
    BY <1>0 DEF StatusCommand, TypeOK
  <2>2. \A j \in Job : hash'[j] = hash[j] \/ (j = JobOf[r] /\ hash'[j] = new)
    BY DEF StatusCommand, TypeOK
  <2>3. OwnResult'
    BY <2>1, OwnResultGoto DEF ResultInv, StatusCommand
  <2>4. step # "store" \/ ~Unfinished(hash'[JobOf[r]])
    BY <2>1
  <2>5. ~Publishing(r) \/ ~Unfinished(hash'[JobOf[r]]) \/ Unfinished(hash[JobOf[r]])
    BY <1>0, <2>2
  <2>6. step \notin {"idle", "rejected"} /\ result' = result
    BY <2>1 DEF StatusCommand
  <2>7. Rerun'
    BY <2>1, <2>2, <2>4, <2>5, <2>6, RerunCommand
  <2> QED
    BY <2>3, <2>7 DEF ResultInv
<1>3. ASSUME NEW r \in Run, CreateJob(r) PROVE ResultInv'
  <2>1. at[r] \notin Written \cup {"store"}
    BY <1>3 DEF CreateJob, Unstarted, Written
  <2> QED
    BY <1>0, <1>2, <1>3, <2>1 DEF CreateJob
<1>4. ASSUME NEW r \in Run, SetExpiry(r) PROVE ResultInv'
  <2>1. at[r] \notin Written \cup {"store"}
    BY <1>4 DEF SetExpiry, Written
  <2> QED
    BY <1>0, <1>2, <1>4, <2>1 DEF SetExpiry
<1>5. ASSUME NEW r \in Run, UpdatePhase(r) PROVE ResultInv'
  <2>1. at[r] \notin Written \cup {"store"}
    BY <1>5 DEF UpdatePhase, UpdateStages, Written
  <2>2. \A s \in Stages : s \notin {"idle", "rejected", "store"}
    BY DEF Stages, UpdateStages, CallStages
  <2>3. "audit" \in Stages
    BY DEF Stages, CallStages
  <2> QED
    BY <1>0, <1>2, <1>5, <2>1, <2>2, <2>3 DEF UpdatePhase
<1>6. ASSUME NEW r \in Run, NEW next, Goto(r, next), UNCHANGED <<hash, result>>,
             at[r] \in Written => next \in Written,
             next \notin {"idle", "rejected", "store"}
      PROVE  ResultInv'
  <2>1. OwnResult'
    BY <1>6, OwnResultGoto DEF ResultInv
  <2>2. Rerun'
    BY <1>6, RerunCommand
  <2> QED
    BY <2>1, <2>2 DEF ResultInv
<1>7. ASSUME NEW r \in Run, ServiceAnswers(r) PROVE ResultInv'
  <2>1. at[r] \notin Written
    BY <1>7 DEF ServiceAnswers, CallStages, Written
  <2>2. \A s \in Stages : s \notin {"idle", "rejected", "store"}
    BY DEF Stages, UpdateStages, CallStages
  <2> QED
    BY <1>6, <1>7, <2>1, <2>2 DEF ServiceAnswers
<1>8. ASSUME NEW r \in Run, CompleteJob(r) PROVE ResultInv'
  <2>1. at[r] \notin Written \cup {"store"} /\ ~Unfinished(Completed(hash[JobOf[r]]))
    BY <1>8 DEF CompleteJob, Written, Unfinished, Completed
  <2> QED
    BY <1>0, <1>2, <1>8, <2>1 DEF CompleteJob
<1>9. ASSUME NEW r \in Run, StoreResult(r) PROVE ResultInv'
  <2>1. /\ at' = [at EXCEPT ![r] = "done"] \/ at' = [at EXCEPT ![r] = "fail"]
        /\ result' = [result EXCEPT ![JobOf[r]] = r] \/ result' = result
        /\ hash' = hash
    BY <1>9 DEF StoreResult, Goto
  <2>2. at'[r] \in Written /\ \A q \in Run \ {r} : at'[q] = at[q]
    BY <2>1 DEF TypeOK, Written
  <2>3. \A j \in Job : result'[j] = result[j] \/ (j = JobOf[r] /\ result'[j] = r)
    BY <2>1 DEF TypeOK
  <2>4. OwnResult'
    BY <2>2, <2>3 DEF ResultInv, OwnResult, RunsOf
  <2>5. \A q \in Run : Publishing(q)' => Publishing(q)
    BY <1>9, <2>2, <2>3 DEF StoreResult, Publishing, Written
  <2>6. \A q \in Run : at[q] \notin {"idle", "rejected"} => at'[q] \notin {"idle", "rejected"}
    BY <2>2 DEF Written
  <2>7. Rerun'
    BY <2>1, <2>5, <2>6 DEF ResultInv, Rerun, RunsOf, Publishing, Unfinished
  <2> QED
    BY <2>4, <2>7 DEF ResultInv
<1>10. ASSUME NEW r \in Run, FailJob(r) PROVE ResultInv'
  <2>1. ~Unfinished(Failed(hash[JobOf[r]]))
    BY <1>0 DEF Unfinished, Failed, Hash
  <2> QED
    BY <1>0, <1>2, <1>10, <2>1 DEF FailJob, Written
<1>11. ASSUME NEW r \in Run, Cancel(r) PROVE ResultInv'
  BY <1>6, <1>11 DEF Cancel, Written
<1>12. ASSUME NEW j \in Job, DeleteJob(j) \/ StatusVanishes(j) \/ ResultVanishes(j)
       PROVE  ResultInv'
  <2>1. /\ \A i \in Job : result'[i] \in {result[i], NoRun}
        /\ \A i \in Job : hash'[i] = hash[i] \/ hash'[i] = NoHash
        /\ at' = at
    BY <1>12 DEF DeleteJob, StatusVanishes, ResultVanishes, TypeOK
  <2>2. OwnResult'
    BY <2>1 DEF ResultInv, OwnResult, RunsOf
  <2>3. \A q \in Run : Publishing(q)' => Publishing(q)
    BY <2>1 DEF Publishing
  <2>4. \A i \in Job : Unfinished(hash'[i]) => Unfinished(hash[i])
    BY <2>1 DEF Unfinished, NoHash
  <2>5. Rerun'
    BY <2>1, <2>3, <2>4 DEF ResultInv, Rerun, RunsOf, Publishing, Unfinished
  <2> QED
    BY <2>2, <2>5 DEF ResultInv
<1>13. ASSUME NEW w \in Worker, Crash(w) PROVE ResultInv'
  <2>1. /\ \A q \in Run : at'[q] \in {at[q], "lost"}
        /\ hash' = hash /\ result' = result
    BY <1>13 DEF Crash
  <2>2. OwnResult'
    BY <2>1 DEF ResultInv, OwnResult, RunsOf, Written
  <2>3. \A q \in Run : Publishing(q)' => Publishing(q)
    BY <2>1 DEF Publishing
  <2>4. Rerun'
    BY <2>1, <2>3 DEF ResultInv, Rerun, RunsOf, Publishing, Unfinished
  <2> QED
    BY <2>2, <2>4 DEF ResultInv
<1>14. ASSUME UNCHANGED <<hash, result, at>> PROVE ResultInv'
  BY <1>14 DEF ResultInv, OwnResult, Rerun, Publishing, RunsOf, Unfinished
<1>15. ASSUME NEW j \in Job, ReadStatus(j) \/ ReadResult(j) PROVE UNCHANGED <<hash, result, at>>
  BY <1>15 DEF ReadStatus, ReadResult
<1>16. ASSUME NEW w \in Worker, Drain(w) \/ Restart(w) PROVE UNCHANGED <<hash, result, at>>
  BY <1>16 DEF Drain, Restart
<1> QED
  BY <1>1, <1>3, <1>4, <1>5, <1>7, <1>8, <1>9, <1>10, <1>11, <1>12, <1>13, <1>14,
     <1>15, <1>16 DEF Next, RunStep, vars

\* The results that are stored, in every run of the program.
THEOREM ResultInvAlways == Spec => []ResultInv
<1>1. Init => ResultInv
  BY GatewayAssumption DEF Init, ResultInv, OwnResult, Rerun, Publishing
<1> QED
  BY <1>1, ResultInvNext, TypeCorrect, PTL DEF Spec

\* StaleResultNeedsRerun for every instance: without a second submission of its
\* id, no unfinished job ever answers with a result.
THEOREM StaleResultNeedsRerunAlways == Spec => StaleResultNeedsRerun
<1> DEFINE Answer ==
      \A j \in Job :
        reader[j] = "fetch" /\ reader'[j] = "result" /\ Unfinished(hash[j]) =>
          \E r, s \in RunsOf(j) :
            /\ r # s
            /\ result[j] = r /\ at[r] \in {"done", "fail", "broken", "lost"}
            /\ at[s] \notin {"idle", "rejected"}
<1>1. TypeOK /\ ResultInv /\ [Next]_vars => [Answer]_vars
  <2> SUFFICES ASSUME TypeOK, ResultInv, Next, NEW j \in Job, reader[j] = "fetch",
                      reader'[j] = "result", Unfinished(hash[j])
               PROVE  \E r, s \in RunsOf(j) :
                        /\ r # s
                        /\ result[j] = r /\ at[r] \in {"done", "fail", "broken", "lost"}
                        /\ at[s] \notin {"idle", "rejected"}
    OBVIOUS
  <2>1. reader' # reader
    OBVIOUS
  <2>2. ReadResult(j)
    <3>1. PICK i \in Job : ReadStatus(i) \/ ReadResult(i)
      BY <2>1 DEF Next, RejectUrl, CreateJob, RunStep, SetExpiry, UpdatePhase, ServiceAnswers,
                  CompleteJob, StoreResult, FailJob, StatusCommand, Cancel, DeleteJob,
                  StatusVanishes, ResultVanishes, Crash, Drain, Restart
    <3> QED
      BY <3>1 DEF ReadStatus, ReadResult, TypeOK
  <2>3. result[j] # NoRun
    BY <2>2 DEF ReadResult, TypeOK
  <2>4. result[j] \in RunsOf(j) /\ at[result[j]] \in Written
    BY <2>3 DEF ResultInv, OwnResult
  <2>5. PICK s \in RunsOf(j) \ {result[j]} : at[s] \notin {"idle", "rejected"}
    BY <2>4 DEF ResultInv, Rerun, Publishing, RunsOf
  <2> QED
    BY <2>4, <2>5 DEF Written
<1> HIDE DEF Answer
<1>2. Spec => [][Answer]_vars
  BY <1>1, ResultInvAlways, TypeCorrect, PTL DEF Spec
<1> QED
  BY <1>2 DEF Answer, StaleResultNeedsRerun

-------------------------------------------------------------------------------
(* CliShowsOutcome.  A command comes to fetch a result by a poll that read *)
(* completed, and what it finds then follows from the gateway's invariants *)
(* and from who can stop its run.                                          *)

\* What stops a run half way, and who drains.
Culprits ==
  /\ \A r \in Run : at[r] \in {"fail", "broken"} => r \in Faulty
  /\ \A r \in Run : at[r] = "lost" => WorkerOf[r] \in Mortal
  /\ \A w \in Worker : worker[w] = "draining" => w \in Mortal

LEMMA CulpritsNext == TypeOK /\ Culprits /\ [Next]_vars => Culprits'
<1> SUFFICES ASSUME TypeOK, Culprits, [Next]_vars PROVE Culprits'
  OBVIOUS
<1> USE GatewayAssumption
<1>1. ASSUME NEW r \in Run, NEW next, Goto(r, next), UNCHANGED worker,
             next \in {"fail", "broken"} => r \in Faulty, next # "lost"
      PROVE  Culprits'
  BY <1>1 DEF Culprits, Goto, TypeOK
<1>2. ASSUME NEW r \in Run, NEW new, NEW next, NEW err, StatusCommand(r, new, next, err),
             next \notin {"fail", "broken", "lost"}, err # "lost"
      PROVE  Culprits'
  <2>1. PICK step \in {next, err} : Goto(r, step) /\ (step # next => r \in Faulty)
    BY <1>2 DEF StatusCommand
  <2> QED
    BY <1>1, <1>2, <2>1 DEF StatusCommand
<1>3. \A s \in Stages : s \notin {"fail", "broken", "lost"}
  BY DEF Stages, UpdateStages, CallStages
<1>4. ASSUME NEW r \in Run, RejectUrl(r) \/ ServiceAnswers(r) \/ StoreResult(r)
      PROVE  Culprits'
  <2>1. PICK next : Goto(r, next) /\ next # "lost" /\ (next \in {"fail", "broken"} => r \in Faulty)
    BY <1>3, <1>4 DEF RejectUrl, ServiceAnswers, StoreResult
  <2> QED
    BY <1>1, <1>4, <2>1 DEF RejectUrl, ServiceAnswers, StoreResult
<1>5. ASSUME NEW r \in Run, CreateJob(r) \/ SetExpiry(r) \/ CompleteJob(r) \/ FailJob(r)
      PROVE  Culprits'
  BY <1>2, <1>5 DEF CreateJob, SetExpiry, CompleteJob, FailJob
<1>6. ASSUME NEW r \in Run, UpdatePhase(r) PROVE Culprits'
  BY <1>2, <1>3, <1>6 DEF UpdatePhase
<1>7. ASSUME NEW r \in Run, Cancel(r) PROVE Culprits'
  BY <1>7 DEF Cancel, Goto, Culprits, TypeOK
<1>8. ASSUME NEW w \in Worker, Crash(w) PROVE Culprits'
  BY <1>8 DEF Crash, RunsOn, Culprits, TypeOK
<1>9. ASSUME NEW w \in Worker, Drain(w) \/ Restart(w) PROVE Culprits'
  BY <1>9 DEF Drain, Restart, Culprits, TypeOK
<1>10. ASSUME UNCHANGED <<at, worker>> PROVE Culprits'
  BY <1>10 DEF Culprits
<1>11. ASSUME NEW j \in Job, \/ ReadStatus(j) \/ ReadResult(j)
                             \/ DeleteJob(j) \/ StatusVanishes(j) \/ ResultVanishes(j)
       PROVE  UNCHANGED <<at, worker>>
  BY <1>11 DEF ReadStatus, ReadResult, DeleteJob, StatusVanishes, ResultVanishes
<1> QED
  BY <1>4, <1>5, <1>6, <1>7, <1>8, <1>9, <1>10, <1>11 DEF Next, RunStep, vars

LEMMA CulpritsAlways == Spec => []Culprits
<1>1. Init => Culprits
  BY DEF Init, Culprits
<1> QED
  BY <1>1, CulpritsNext, TypeCorrect, PTL DEF Spec

\* The client only adds requests to the gateway: it changes nothing of it.
LEMMA CliImplementsGateway == CliSpec => Spec
<1>1. CliInit => Init
  BY DEF CliInit
<1>2. [CliNext]_cliVars => [Next]_vars
  BY DEF CliNext, cliVars, vars, Posted, PostFails, CliStep, Poll, FetchStatus, FetchResult,
         FetchFails, CliGoto
<1> QED
  BY <1>1, <1>2, PTL DEF CliSpec, Spec

\* A job whose outcome was written keeps one while its keys are kept, when no
\* other run writes its key.
Over(j) == hash[j].status \in {"completed", "failed"}

LEMMA OverStays ==
  ASSUME TypeOK, OnCourse, [Next]_vars, NEW r \in Run, Once(JobOf[r]),
         Over(JobOf[r]), JobOf[r] \notin removed'
  PROVE  Over(JobOf[r])'
<1> USE GatewayAssumption
<1> DEFINE j == JobOf[r]
<1>1. j \in Job /\ hash[j] \in Hash
  BY DEF TypeOK
<1>2. j \notin removed
  BY DEF Next, RejectUrl, CreateJob, RunStep, SetExpiry, UpdatePhase, ServiceAnswers,
         CompleteJob, StoreResult, FailJob, StatusCommand, Cancel, ReadStatus, ReadResult,
         DeleteJob, StatusVanishes, ResultVanishes, Crash, Drain, Restart, vars
<1>3. Course(hash[j], at[r])
  BY <1>2 DEF OnCourse
<1>4. at[r] \notin {"idle", "expire"} \cup UpdateStages
  BY <1>3 DEF Course, Over, Unfinished, Stages
<1>5. ASSUME hash'[j] # hash[j] PROVE CompleteJob(r) \/ FailJob(r)
  <2>1. PICK q \in Run : \/ CreateJob(q) \/ SetExpiry(q) \/ UpdatePhase(q)
                        \/ CompleteJob(q) \/ FailJob(q)
    BY <1>5 DEF Next, RejectUrl, RunStep, ServiceAnswers, StoreResult, Cancel, ReadStatus,
                ReadResult, DeleteJob, StatusVanishes, ResultVanishes, Crash, Drain, Restart,
                vars, TypeOK
  <2>2. JobOf[q] = j
    BY <1>1, <1>5, <2>1 DEF CreateJob, SetExpiry, UpdatePhase, CompleteJob, FailJob,
                            StatusCommand, TypeOK
  <2>3. q = r
    BY <2>2 DEF Once, RunsOf
  <2> QED
    BY <1>4, <2>1, <2>3 DEF CreateJob, Unstarted, SetExpiry, UpdatePhase
<1>6. ASSUME CompleteJob(r) \/ FailJob(r)
      PROVE  hash'[j] \in {hash[j], Completed(hash[j]), Failed(hash[j])}
  BY <1>1, <1>6 DEF CompleteJob, FailJob, StatusCommand, TypeOK
<1> QED
  BY <1>1, <1>5, <1>6 DEF Over, Completed, Failed, Hash

Waiting ==
  \A r \in Commands : cli[r] \in {"fetching", "reading"} /\ JobOf[r] \notin removed =>
    Over(JobOf[r])

LEMMA WaitingNext ==
  ASSUME TypeOK, OnCourse, CliTypeOK, Waiting, [CliNext]_cliVars
  PROVE  CliTypeOK' /\ Waiting'
<1> USE GatewayAssumption, CliAssumption
<1>0. ASSUME NEW r \in Commands PROVE r \in Run /\ JobOf[r] \in Job /\ Once(JobOf[r])
  BY DEF Once, RunsOf
<1>1. CASE [Next]_vars /\ UNCHANGED cli
  <2>1. CliTypeOK'
    BY <1>1 DEF CliTypeOK
  <2>2. removed \subseteq removed'
    BY <1>1 DEF Next, RejectUrl, CreateJob, RunStep, SetExpiry, UpdatePhase, ServiceAnswers,
         CompleteJob, StoreResult, FailJob, StatusCommand, Cancel, ReadStatus, ReadResult,
         DeleteJob, StatusVanishes, ResultVanishes, Crash, Drain, Restart, vars
  <2> QED
    BY <1>0, <1>1, <2>1, <2>2, OverStays DEF Waiting
<1>2. ASSUME NEW r \in Commands, Posted(r) \/ PostFails(r) \/ CliStep(r) \/ FetchFails(r)
      PROVE  CliTypeOK' /\ Waiting'
  <2>1. PICK step \in CliSteps :
          /\ CliGoto(r, step)
          /\ step \in {"fetching", "reading"} /\ JobOf[r] \notin removed => Over(JobOf[r])
    <3>1. CASE Posted(r) \/ PostFails(r) \/ FetchFails(r)
      BY <3>1 DEF Posted, PostFails, FetchFails, CliSteps
    <3>2. CASE Poll(r)
      BY <3>2 DEF Poll, CliSteps, Shown, Over
    <3>3. CASE FetchStatus(r)
      <4>1. hash[JobOf[r]].status \in Statuses
        BY <1>0 DEF TypeOK, Hash
      <4>2. JobOf[r] \notin removed => Over(JobOf[r])
        BY <3>3 DEF FetchStatus, Waiting
      <4> QED
        BY <3>3, <4>1, <4>2 DEF FetchStatus, Exists, CliSteps, Shown
    <3>4. CASE FetchResult(r)
      BY <3>4 DEF FetchResult, CliSteps, Shown
    <3> QED
      BY <1>2, <3>1, <3>2, <3>3, <3>4 DEF CliStep
  <2>2. cli' = [cli EXCEPT ![r] = step] /\ hash' = hash /\ removed' = removed
    BY <2>1 DEF CliGoto, vars
  <2>3. CliTypeOK'
    BY <1>0, <2>2 DEF CliTypeOK
  <2>4. Waiting'
    BY <1>0, <2>1, <2>2 DEF CliTypeOK, Waiting, Over
  <2> QED
    BY <2>3, <2>4
<1>3. \/ [Next]_vars /\ UNCHANGED cli
      \/ \E r \in Commands : Posted(r) \/ PostFails(r) \/ CliStep(r) \/ FetchFails(r)
  BY DEF CliNext, cliVars
<1> QED
  BY <1>1, <1>2, <1>3

\* What the gateway and the client together keep, for the answers of a fetch.
CliInv ==
  /\ TypeOK /\ OnCourse /\ ResultInv /\ Culprits /\ CompletedHasResult /\ FailedNeedsFault
  /\ CliTypeOK /\ Waiting

LEMMA CliInvAlways == CliSpec => []CliInv
<1>1. CliInit => CliTypeOK /\ Waiting
  BY CliAssumption DEF CliInit, CliTypeOK, CliSteps, Shown, Waiting
<1>2. Spec => [](TypeOK /\ OnCourse /\ ResultInv /\ Culprits /\ CompletedHasResult
                 /\ FailedNeedsFault)
  BY TypeCorrect, OnCourseInit, OnCourseNext, ResultInvAlways, CulpritsAlways,
     CompletedHasResultAlways, FailedNeedsFaultAlways, PTL DEF Spec
<1> QED
  BY <1>1, <1>2, CliImplementsGateway, WaitingNext, PTL DEF CliSpec, CliInv

\* CliShowsOutcome for every instance: what a crawl command ends with is the
\* outcome of its own job, however stale its last poll, whoever else is served.
THEOREM CliShowsOutcomeAlways == CliSpec => CliShowsOutcome
<1> DEFINE Honest(r) ==
      LET j == JobOf[r] IN
      /\ cli'[r] \in {"absent", "running"} => j \in removed
      /\ cli'[r] = "result" =>
           /\ result[j] = r
           /\ j \in CalmJobs => hash[j].status = "completed" /\ at[r] = "done"
      /\ cli'[r] = "failed" => hash[j].status = "failed" /\ r \in Faulty
      /\ cli'[r] = "missing" => \/ j \in removed
                                \/ at[r] \in {"store", "fail", "broken", "lost"}
                                \/ hash[j].status = "failed"
<1> DEFINE Honesty == \A r \in Commands : cli'[r] # cli[r] => Honest(r)
<1>1. CliInv /\ [CliNext]_cliVars => [Honesty]_cliVars
  <2> SUFFICES ASSUME CliInv, CliNext, NEW r \in Commands, cli'[r] # cli[r]
               PROVE  Honest(r)
    OBVIOUS
  <2> DEFINE j == JobOf[r]
  <2>0. /\ r \in Run /\ j \in Job /\ RunsOf(j) = {r} /\ Once(j)
        /\ hash[j] \in Hash /\ cli \in [Run -> CliSteps]
    BY GatewayAssumption, CliAssumption DEF CliInv, TypeOK, CliTypeOK, Once, RunsOf
  <2>1. hash[j].status = "failed" => r \in Faulty
    BY <2>0 DEF CliInv, FailedNeedsFault
  <2>2. Posted(r) \/ PostFails(r) \/ CliStep(r) \/ FetchFails(r)
    <3>1. PICK q \in Commands : Posted(q) \/ PostFails(q) \/ CliStep(q) \/ FetchFails(q)
      BY DEF CliNext
    <3>2. \E step : cli' = [cli EXCEPT ![q] = step]
      BY <3>1 DEF Posted, PostFails, CliStep, FetchFails, Poll, FetchStatus, FetchResult, CliGoto
    <3> QED
      BY <2>0, <3>1, <3>2
  <2>3. CASE Posted(r) \/ PostFails(r) \/ FetchFails(r)
    <3>1. cli'[r] \in {"polling", "exit"}
      BY <2>0, <2>3 DEF Posted, PostFails, FetchFails, CliGoto
    <3> QED
      BY <3>1
  <2>4. CASE Poll(r)
    <3>1. cli'[r] = "fetching" \/ (cli'[r] = "failed" /\ hash[j].status = "failed")
      BY <2>0, <2>4 DEF Poll, CliGoto
    <3> QED
      BY <2>1, <3>1
  <2>5. CASE FetchStatus(r)
    <3>1. j \in removed \/ Over(j)
      BY <2>5 DEF FetchStatus, CliInv, Waiting
    <3>2. cli'[r] = CASE ~Exists(hash[j]) -> "absent"
                      [] hash[j].status \in {"running", "failed"} -> hash[j].status
                      [] OTHER -> "reading"
      BY <2>0, <2>5 DEF FetchStatus, CliGoto
    <3>3. \/ cli'[r] = "absent" /\ hash[j].status = "absent"
          \/ cli'[r] = "running" /\ hash[j].status = "running"
          \/ cli'[r] = "failed" /\ hash[j].status = "failed"
          \/ cli'[r] = "reading"
      BY <3>2 DEF Exists
    <3> QED
      BY <2>1, <3>1, <3>3 DEF Over
  <2>6. CASE FetchResult(r)
    <3>1. j \in removed \/ Over(j)
      BY <2>6 DEF FetchResult, CliInv, Waiting
    <3>2. cli'[r] = IF result[j] = NoRun THEN "missing" ELSE "result"
      BY <2>0, <2>6 DEF FetchResult, CliGoto
    <3>3. CASE result[j] = NoRun
      <4>1. \/ j \in removed \/ hash[j].status = "failed"
            \/ at[r] \in {"store", "fail", "broken", "lost"}
        BY <2>0, <3>1, <3>3 DEF CliInv, CompletedHasResult, Over
      <4> QED
        BY <3>2, <3>3, <4>1
    <3>4. CASE result[j] # NoRun
      <4>1. result[j] = r /\ at[r] \in Written
        BY <2>0, <3>4 DEF CliInv, ResultInv, OwnResult
      <4>2. ASSUME j \in CalmJobs PROVE hash[j].status = "completed" /\ at[r] = "done"
        <5>1. r \notin Faulty /\ WorkerOf[r] \notin Mortal /\ j \notin removed
          BY <2>0, <4>2 DEF CalmJobs, CliInv, TypeOK
        <5>2. at[r] = "done"
          BY <2>0, <4>1, <5>1 DEF CliInv, Culprits, Written
        <5> QED
          BY <2>1, <3>1, <5>1, <5>2 DEF Over
      <4> QED
        BY <3>2, <3>4, <4>1, <4>2
    <3> QED
      BY <3>3, <3>4
  <2> QED
    BY <2>2, <2>3, <2>4, <2>5, <2>6 DEF CliStep
<1> HIDE DEF Honesty
<1>2. CliSpec => [][Honesty]_cliVars
  BY <1>1, CliInvAlways, PTL DEF CliSpec
<1> QED
  BY <1>2 DEF Honesty, CliShowsOutcome
===============================================================================
