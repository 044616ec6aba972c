----------------------------- MODULE RateLimiter ------------------------------
(***************************************************************************)
(* RateLimiter of shared/utils/http_client.py: tasks of an event loop wait *)
(* in acquire, one at a time under a lock; threads wait in acquire_sync,   *)
(* which takes no lock.                                                    *)
(*                                                                         *)
(* Times are ages in ticks, cut off at Interval: "elapsed < min_interval"  *)
(* and the length of the sleep tell no more apart.  A sleep may last       *)
(* longer than asked for.  time.monotonic() and the assignment of its      *)
(* value are two steps.                                                    *)
(***************************************************************************)
EXTENDS Naturals

CONSTANTS
  Caller,     \* tasks and threads that share the limiter
  Interval,   \* min_interval
  Modes,      \* the sets of callers that may be threads
  None        \* nobody holds the lock

ASSUME LimiterAssumption ==
  /\ Interval \in Nat \ {0}
  /\ Modes \subseteq SUBSET Caller
  /\ None \notin Caller

VARIABLES
  threads,    \* the callers that use acquire_sync
  stage,      \* where in the limiter each caller is
  timer,      \* pausing: the rest of its sleep; stamping: the age of the time it read
  since,      \* the age of _last_request_time
  gap,        \* history: the age of the last time read for a request
  lock,       \* _lock
  overlapped  \* history: two callers have been between reading and writing

limiterVars == <<threads, stage, timer, since, gap, lock, overlapped>>

Ages == 0..Interval

LimiterTypeOK ==
  /\ threads \in Modes
  /\ stage \in [Caller -> {"out", "pausing", "stamping"}]
  /\ timer \in [Caller -> Ages]
  /\ since \in Ages
  /\ gap \in Ages
  /\ lock \in Caller \cup {None}
  /\ overlapped \in BOOLEAN

LimiterInit ==
  /\ threads \in Modes
  /\ stage = [c \in Caller |-> "out"]
  /\ timer = [c \in Caller |-> 0]
  /\ since = Interval
  /\ gap = Interval
  /\ lock = None
  /\ overlapped = FALSE

-------------------------------------------------------------------------------

\* Mutant: tasks do not take the lock either.
ReadLast_Unlocked(c) ==
  /\ stage[c] = "out"
  /\ stage' = [stage EXCEPT ![c] = "pausing"]
  /\ timer' = [timer EXCEPT ![c] = Interval - since]
  /\ overlapped' = (overlapped \/ \E d \in Caller \ {c} : stage[d] # "out")
  /\ UNCHANGED <<threads, since, gap, lock>>

\* Enters with the lock, if it is a task, and compares the last time with now.
ReadLast(c) ==
  /\ stage[c] = "out"
  /\ IF c \in threads THEN UNCHANGED lock ELSE lock = None /\ lock' = c
  /\ stage' = [stage EXCEPT ![c] = "pausing"]
  /\ timer' = [timer EXCEPT ![c] = Interval - since]
  /\ overlapped' = (overlapped \/ \E d \in Caller \ {c} : stage[d] # "out")
  /\ UNCHANGED <<threads, since, gap>>

\* The sleep, if there was one, is over: the time of this request.
ReadClock(c) ==
  /\ stage[c] = "pausing"
  /\ timer[c] = 0
  /\ stage' = [stage EXCEPT ![c] = "stamping"]
  /\ gap' = 0
  /\ UNCHANGED <<threads, timer, since, lock, overlapped>>

\* Mutant: the time is not stored.
Stamp_Forgotten(c) ==
  /\ stage[c] = "stamping"
  /\ stage' = [stage EXCEPT ![c] = "out"]
  /\ timer' = [timer EXCEPT ![c] = 0]
  /\ lock' = IF lock = c THEN None ELSE lock
  /\ UNCHANGED <<threads, since, gap, overlapped>>

Stamp(c) ==
  /\ stage[c] = "stamping"
  /\ stage' = [stage EXCEPT ![c] = "out"]
  /\ since' = timer[c]
  /\ timer' = [timer EXCEPT ![c] = 0]
  /\ lock' = IF lock = c THEN None ELSE lock
  /\ UNCHANGED <<threads, gap, overlapped>>

\* Mutant: the lock is not a context manager.
Leave_Locked(c) ==
  /\ stage[c] = "pausing"
  /\ c \notin threads
  /\ stage' = [stage EXCEPT ![c] = "out"]
  /\ timer' = [timer EXCEPT ![c] = 0]
  /\ UNCHANGED <<threads, since, gap, lock, overlapped>>

\* A task is cancelled in its sleep; the lock is released.
Leave(c) ==
  /\ stage[c] = "pausing"
  /\ c \notin threads
  /\ stage' = [stage EXCEPT ![c] = "out"]
  /\ timer' = [timer EXCEPT ![c] = 0]
  /\ lock' = None
  /\ UNCHANGED <<threads, since, gap, overlapped>>

Older(age) == IF age < Interval THEN age + 1 ELSE age

Tick ==
  /\ since' = Older(since)
  /\ gap' = Older(gap)
  /\ timer' = [c \in Caller |->
       CASE stage[c] = "pausing"  -> IF timer[c] > 0 THEN timer[c] - 1 ELSE 0
         [] stage[c] = "stamping" -> Older(timer[c])
         [] OTHER                 -> timer[c]]
  /\ UNCHANGED <<threads, stage, lock, overlapped>>

LimiterNext ==
  \/ \E c \in Caller : ReadLast(c) \/ ReadClock(c) \/ Stamp(c) \/ Leave(c)
  \/ Tick

LimiterSpec == LimiterInit /\ [][LimiterNext]_limiterVars

-------------------------------------------------------------------------------

\* Requests are at least Interval apart, unless two callers have been between
\* the two accesses to the last time at once: then an old time may have been
\* used, or written over a newer one.  Tasks alone never are, because of the
\* lock: it takes a thread to get in between.
Paced ==
  [][\A c \in Caller :
       ReadClock(c) => gap = Interval \/ (overlapped /\ threads # {})]_limiterVars
===============================================================================
