------------------------------- MODULE JobStore -------------------------------
(***************************************************************************)
(* The Redis hash job:{id}:status and the commands JobStore issues on it.  *)
(* Each operator is the value of the hash after one HSET or EXPIRE: HSET   *)
(* merges its fields into the key, creates the key when it is missing and  *)
(* leaves the key's time to live as it was.                                *)
(*                                                                         *)
(* Kept of the hash: the status, the progress (in tenths, which also names *)
(* the phase) and whether the key carries a TTL.  Left out: the url, the   *)
(* data type, the timestamps and the error text.                           *)
(***************************************************************************)
EXTENDS Naturals

Statuses == {"absent", "submitted", "running", "completed", "failed"}

Hash == [status : Statuses, progress : 0..10, ttl : BOOLEAN]

NoHash == [status |-> "absent", progress |-> 0, ttl |-> FALSE]

Unfinished(h) == h.status \in {"submitted", "running"}

Exists(h) == h.status # "absent"

Progress(phase) ==
  CASE phase = "phase0" -> 1
    [] phase = "phase1" -> 3
    [] phase = "phase2" -> 5
    [] OTHER            -> 7

\* create_job: HSET of the whole record, then EXPIRE as a second command.
Created(h) == [status |-> "submitted", progress |-> 0, ttl |-> h.ttl]

Expiring(h) == IF Exists(h) THEN [h EXCEPT !.ttl = TRUE] ELSE h

\* update_phase
Updated(h, phase) == [status |-> "running", progress |-> Progress(phase), ttl |-> h.ttl]

\* complete_job: this HSET first, the result key second.
\* Mutant: the key is written anew, so that its TTL is lost.
Completed_Replaced(h) == [status |-> "completed", progress |-> 10, ttl |-> FALSE]

Completed(h) == [status |-> "completed", progress |-> 10, ttl |-> h.ttl]

\* fail_job leaves the progress where it was.
Failed(h) == [h EXCEPT !.status = "failed"]
===============================================================================
