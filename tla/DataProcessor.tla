----------------------------- MODULE DataProcessor -----------------------------
(***************************************************************************)
(* The data-processor service: POST /process and POST /audit, their two    *)
(* worker processes and the object store they share.                       *)
(*                                                                         *)
(* A submission is one job's batch on its way to phase 3.  The gateway     *)
(* attempts its POST again after a timeout while the first handler goes    *)
(* on, and a client may submit a job id twice, so attempts overlap in the  *)
(* workers.  The pipeline itself runs without an await; what others see    *)
(* in between are the requests to MinIO.                                   *)
(***************************************************************************)
EXTENDS Records

CONSTANTS
  Job, Submission, Attempt,
  JobOf,          \* the request_id of each submission
  SubmissionOf,   \* the submission each attempt delivers
  Starts,         \* what may be submitted, delivered and found, as records
  LastSecond,     \* bound on the clock that names the objects
  Faulty,         \* the attempts whose worker or MinIO requests may fail
  NoObject

ASSUME ProcessorAssumption ==
  /\ JobOf \in [Submission -> Job]
  /\ SubmissionOf \in [Attempt -> Submission]
  /\ \A s \in Starts :
       /\ \A u \in Submission : s.batch[u] \in Seq(Record)
       /\ s.format \in [Submission -> {"csv", "json", "parquet", "delta"}]
       /\ s.bucket \in {"absent", "before"}
       /\ s.sent \subseteq Attempt
  /\ LastSecond \in Nat
  /\ Faulty \subseteq Attempt
  /\ Attempt \cap {"absent", "before", "init"} = {}

VARIABLES
  batch, format,   \* per submission
  now,             \* the second the clock shows
  bucket,          \* "absent", or who made it
  at,              \* the MinIO request each attempt is in, or how it ended
  second,          \* the timestamp it took
  store,           \* the objects of the clean bucket
  reply,           \* what each attempt answered
  logs             \* the jobs whose audit log is stored

vars == <<batch, format, now, bucket, at, second, store, reply, logs>>

-------------------------------------------------------------------------------

FileTypes == {"json", "csv", "parquet"}

\* delta, and every other name, is written as JSON.
FileType(f) == IF f \in {"csv", "parquet"} THEN f ELSE "json"

JobOfAttempt(a) == JobOf[SubmissionOf[a]]

Output(a) == CleanRecords(batch[SubmissionOf[a]])

\* Mutant: the name has no timestamp.
Path_Untimed(a) == <<JobOfAttempt(a), 0, FileType(format[SubmissionOf[a]])>>

Path(a) == <<JobOfAttempt(a), second[a], FileType(format[SubmissionOf[a]])>>

Paths == Job \X (0..LastSecond) \X FileTypes

NoPath == <<>>

\* csv.DictWriter refuses a row with a key the first row does not have, and
\* pyarrow a column that mixes numbers, truth values and texts.
Kind(v) == IF v \in {"zero", "false"} THEN v ELSE "text"

Writable(f, records) ==
  CASE f = "csv"     -> \A i \in DOMAIN records :
                          DOMAIN records[i] \subseteq DOMAIN records[1]
    [] f = "parquet" -> \A i, k \in DOMAIN records :
                          \A key \in DOMAIN records[i] \cap DOMAIN records[k] :
                            \/ "none" \in {records[i][key], records[k][key]}
                            \/ Kind(records[i][key]) = Kind(records[k][key])
    [] OTHER         -> TRUE

TypeOK ==
  /\ \A s \in Submission : /\ batch[s] \in Seq(Record)
                             /\ format[s] \in {"csv", "json", "parquet", "delta"}
  /\ now \in 0..LastSecond
  /\ bucket \in {"absent", "before", "init"} \cup Attempt
  /\ at \in [Attempt -> {"unsent", "idle", "exists", "make", "put", "done", "dead"}]
  /\ second \in [Attempt -> 0..LastSecond]
  /\ \A p \in Paths : store[p] = NoObject \/ store[p] \in Seq(Record) \ {<<>>}
  /\ reply \in [Attempt -> [status : {"none", "success", "failed"},
                            path : Paths \cup {NoPath}]]
  /\ logs \subseteq Job

Init ==
  /\ \E s \in Starts :
       /\ batch = s.batch
       /\ format = s.format
       /\ bucket = s.bucket
       /\ at = [a \in Attempt |-> IF a \in s.sent THEN "idle" ELSE "unsent"]
  /\ now = 0
  /\ second = [a \in Attempt |-> 0]
  /\ store = [p \in Paths |-> NoObject]
  /\ reply = [a \in Attempt |-> [status |-> "none", path |-> NoPath]]
  /\ logs = {}

-------------------------------------------------------------------------------
(* POST /process                                                           *)

Answer(a, path) ==
  /\ at' = [at EXCEPT ![a] = "done"]
  /\ reply' = [reply EXCEPT ![a] = [status |-> "success", path |-> path]]

Goto(a, step) == at' = [at EXCEPT ![a] = step] /\ UNCHANGED reply

\* Mutant: a batch without records is stored like any other.
Process_StoresEmpty(a) ==
  /\ at[a] = "idle"
  /\ Goto(a, "exists") /\ second' = [second EXCEPT ![a] = now]
  /\ UNCHANGED <<batch, format, now, bucket, store, logs>>

\* Clean, validate, deduplicate and score, and take the timestamp.
Process(a) ==
  /\ at[a] = "idle"
  /\ IF Output(a) = <<>>
       THEN Answer(a, NoPath) /\ UNCHANGED second
       ELSE Goto(a, "exists") /\ second' = [second EXCEPT ![a] = now]
  /\ UNCHANGED <<batch, format, now, bucket, store, logs>>

\* An exception outside of store(), which swallows its own.
ProcessFails(a) ==
  /\ at[a] = "idle" /\ a \in Faulty
  /\ at' = [at EXCEPT ![a] = "done"]
  /\ reply' = [reply EXCEPT ![a].status = "failed"]
  /\ UNCHANGED <<batch, format, now, bucket, second, store, logs>>

\* Mutant: the bucket is made without asking for it.
BucketExists_Unasked(a) ==
  /\ at[a] = "exists"
  /\ Goto(a, "make")
  /\ UNCHANGED <<batch, format, now, bucket, second, store, logs>>

BucketExists(a) ==
  /\ at[a] = "exists"
  /\ \/ Goto(a, IF bucket = "absent" THEN "make" ELSE "put")
     \/ a \in Faulty /\ Answer(a, NoPath)
  /\ UNCHANGED <<batch, format, now, bucket, second, store, logs>>

\* MinIO refuses to make a bucket that somebody else has made meanwhile.
MakeBucket(a) ==
  /\ at[a] = "make"
  /\ \/ bucket = "absent" /\ bucket' = a /\ Goto(a, "put")
     \/ bucket # "absent" /\ Answer(a, NoPath) /\ UNCHANGED bucket
     \/ a \in Faulty /\ Answer(a, NoPath)
        /\ bucket' \in {bucket} \cup (IF bucket = "absent" THEN {a} ELSE {})
  /\ UNCHANGED <<batch, format, now, second, store, logs>>

\* A failed upload may have been stored all the same.
PutObject(a) ==
  LET Stored == /\ Writable(format[SubmissionOf[a]], Output(a))
                /\ store' = [store EXCEPT ![Path(a)] = Output(a)]
  IN /\ at[a] = "put"
     /\ \/ Stored /\ Answer(a, Path(a))
        \/ ~Writable(format[SubmissionOf[a]], Output(a)) /\ Answer(a, NoPath)
           /\ UNCHANGED store
        \/ a \in Faulty /\ Answer(a, NoPath) /\ (Stored \/ UNCHANGED store)
     /\ UNCHANGED <<batch, format, now, bucket, second, logs>>

\* The worker of the attempt dies, in the upload before or after it is stored.
Die(a) ==
  /\ a \in Faulty
  /\ at[a] \in {"exists", "make", "put"}
  /\ Goto(a, "dead")
  /\ \/ UNCHANGED store
     \/ /\ at[a] = "put" /\ Writable(format[SubmissionOf[a]], Output(a))
        /\ store' = [store EXCEPT ![Path(a)] = Output(a)]
  /\ UNCHANGED <<batch, format, now, bucket, second, logs>>

-------------------------------------------------------------------------------

\* POST /audit answers "stored" whether or not the log could be stored.  Nobody
\* else uses the audit bucket, so its three requests are one step.
StoreAudit(j) ==
  /\ logs' \in {logs, logs \cup {j}}
  /\ UNCHANGED <<batch, format, now, bucket, at, second, store, reply>>

\* The minio-init container, for which the service does not wait.  If the bucket
\* is there by the time of its mb, the script ends with an error.
InitMinio ==
  /\ bucket = "absent"
  /\ bucket' = "init"
  /\ UNCHANGED <<batch, format, now, at, second, store, reply, logs>>

Tick ==
  /\ now < LastSecond
  /\ now' = now + 1
  /\ UNCHANGED <<batch, format, bucket, at, second, store, reply, logs>>

Next ==
  \/ \E a \in Attempt :
       Process(a) \/ ProcessFails(a) \/ BucketExists(a) \/ MakeBucket(a)
         \/ PutObject(a) \/ Die(a)
  \/ \E j \in Job : StoreAudit(j)
  \/ InitMinio
  \/ Tick

Spec == Init /\ [][Next]_vars

-------------------------------------------------------------------------------
(* Safety                                                                  *)

Succeeded(a) == reply[a].status = "success"

Raw(a) == batch[SubmissionOf[a]]

Rejected(a) == RejectedRecords(Raw(a))

\* A value without content: no text, once tags and entities are read as a browser
\* reads them, nor a number other than 0, nor True.
Contentless == {"none", "zero", "false", "empty", "blank", "hollow", "nbsp"}

Content(r) == {f \in DOMAIN r : r[f] \notin Contentless}

\* A record as a reader sees it: blanks around a text, tags and entities are not
\* seen, but a tag that was written with entities is part of the text.
Seen(r) ==
  [f \in DOMAIN r |-> CASE r[f] \in {"blank", "hollow", "nbsp"} -> "empty"
                        [] r[f] \in {"padded", "tagged"}        -> "plain"
                        [] r[f] = "escaped"                     -> "tagged"
                        [] OTHER                                -> r[f]]

\* Every record of the batch with any content is accounted for, as it is seen: it
\* is among the clean records of the reply if its required fields have content,
\* and among the rejected ones otherwise; and neither list has another record.
NothingLost ==
  \A a \in Attempt : Succeeded(a) =>
    LET kept == {r \in ToSet(Raw(a)) : Content(r) # {}} IN
      /\ ToSet(Output(a)) = {Seen(r) : r \in {k \in kept : Required \subseteq Content(k)}}
      /\ ToSet(Rejected(a)) = {Seen(r) : r \in {k \in kept : ~(Required \subseteq Content(k))}}

\* The clean records are the first of each kind, in the order of the batch.
KeptInOrder ==
  \A a \in Attempt : Succeeded(a) =>
    LET all == CleanAll(Raw(a))
        Firsts == {i \in DOMAIN all : /\ ~Discarded(all[i]) /\ Complete(all[i])
                                      /\ \A k \in 1..(i - 1) : all[k] # all[i]}
        Rank(i) == Cardinality({k \in Firsts : k <= i})
    IN /\ Len(Output(a)) = Cardinality(Firsts)
       /\ \A i \in Firsts : Output(a)[Rank(i)] = all[i]

\* The grade means something in spite of the constant terms of its formula: an
\* excellent batch lost at most half of its records, and only a batch that
\* lost all of them is poor.
GradeIsEarned ==
  \A a \in Attempt : Succeeded(a) =>
    LET grade == Grade(Raw(a), Output(a)) IN
      /\ grade = "excellent" => 2 * Len(Output(a)) >= Len(Raw(a))
      /\ grade = "poor" <=> Output(a) = <<>>

\* The object a reply names holds the records of that reply, unless another
\* submission of the same job took its timestamp in the same second.
PathHoldsReply ==
  \A a \in Attempt : reply[a].path # NoPath =>
    \/ store[reply[a].path] = Output(a)
    \/ \E b \in Attempt : /\ SubmissionOf[b] # SubmissionOf[a]
                          /\ JobOfAttempt(b) = JobOfAttempt(a)
                          /\ second[b] = second[a]
                          /\ store[reply[a].path] = Output(b)

\* Without a fault, a reply has no path only when there was nothing to store,
\* the format could not hold it, or somebody else made the bucket meanwhile.
UnstoredHasReason ==
  \A a \in Attempt \ Faulty : Succeeded(a) /\ reply[a].path = NoPath =>
    \/ Output(a) = <<>>
    \/ ~Writable(format[SubmissionOf[a]], Output(a))
    \/ bucket \notin {"before", a}

===============================================================================
