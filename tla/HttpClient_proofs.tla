--------------------------- MODULE HttpClient_proofs ---------------------------
(***************************************************************************)
(* Theorems of RateLimiter and of HttpClient, which uses it, for any       *)
(* callers, threads, interval, redirect limits and numbers of addresses.   *)
(*                                                                         *)
(* The limiter first.  What it stores is the time of the last request for  *)
(* as long as no two callers have been between reading it and writing it.  *)
(***************************************************************************)
EXTENDS HttpClient, TLAPS

Inside(c) == stage[c] # "out"

\* The lock is held by the task that is inside, and by nobody else.
LockIsHeld ==
  /\ lock # None => lock \notin threads /\ Inside(lock)
  /\ \A c \in Caller \ threads : Inside(c) => lock = c

\* Under the lock only one task at a time is between the two accesses to the
\* last time; it takes a thread, which has no lock, to get in between.
OverlapNeedsThread == overlapped => threads # {}

OneInside == \A c, d \in Caller : Inside(c) /\ Inside(d) => c = d

\* The last time is that of the last request, except while a caller that has
\* read the clock for the next one has not stored it.
Recorded ==
  /\ (\A c \in Caller : stage[c] # "stamping") => since = gap
  /\ \A c \in Caller : stage[c] = "pausing" => gap + timer[c] >= Interval
  /\ \A c \in Caller : stage[c] = "stamping" => timer[c] = gap

IInv ==
  /\ LimiterTypeOK
  /\ LockIsHeld
  /\ OverlapNeedsThread
  /\ ~overlapped => OneInside /\ Recorded

-------------------------------------------------------------------------------

LEMMA InitInv == LimiterInit => IInv
  <1> SUFFICES ASSUME LimiterInit PROVE IInv
    OBVIOUS
  <1>1. LimiterTypeOK
    <2>1. Interval \in Nat /\ 0 \in Ages /\ Interval \in Ages
      BY LimiterAssumption DEF Ages
    <2> QED
      BY <2>1 DEF LimiterInit, LimiterTypeOK
  <1>2. LockIsHeld /\ OverlapNeedsThread
    BY DEF LimiterInit, LockIsHeld, OverlapNeedsThread, Inside
  <1>3. OneInside /\ Recorded
    BY DEF LimiterInit, OneInside, Recorded, Inside
  <1> QED
    BY <1>1, <1>2, <1>3 DEF IInv

LEMMA ReadLastInv ==
  ASSUME IInv, NEW c \in Caller, ReadLast(c)
  PROVE  IInv'
  <1> USE LimiterAssumption DEF IInv, ReadLast
  <1>1. LimiterTypeOK'
    BY DEF LimiterTypeOK, Ages
  <1>2. LockIsHeld'
    BY DEF LimiterTypeOK, LockIsHeld, Inside
  <1>3. OverlapNeedsThread'
    <2>1. SUFFICES ASSUME ~overlapped, overlapped' PROVE threads # {}
      BY DEF OverlapNeedsThread
    <2>2. PICK d \in Caller \ {c} : Inside(d)
      BY <2>1 DEF Inside
    <2>3. CASE c \in threads
      BY <2>3
    <2>4. CASE c \notin threads
      BY <2>2, <2>4 DEF LockIsHeld, Inside
    <2> QED
      BY <2>3, <2>4
  <1>4. ASSUME ~overlapped' PROVE OneInside' /\ Recorded'
    <2>1. ~overlapped /\ \A d \in Caller \ {c} : stage[d] = "out"
      BY <1>4 DEF LimiterTypeOK
    <2>2. since = gap
      BY <2>1 DEF Recorded
    <2>3. \A d \in Caller \ {c} : stage'[d] = "out"
      BY <2>1 DEF LimiterTypeOK
    <2>4. stage'[c] = "pausing" /\ timer'[c] = Interval - since /\ since' = since /\ gap' = gap
      BY DEF LimiterTypeOK
    <2>5. OneInside'
      BY <2>3 DEF OneInside, Inside
    <2>6. Recorded'
      BY <2>2, <2>3, <2>4 DEF Recorded, LimiterTypeOK, Ages
    <2> QED
      BY <2>5, <2>6
  <1> QED
    BY <1>1, <1>2, <1>3, <1>4

LEMMA ReadClockInv ==
  ASSUME IInv, NEW c \in Caller, ReadClock(c)
  PROVE  IInv'
  <1> USE LimiterAssumption DEF IInv, ReadClock
  <1>1. LimiterTypeOK'
    BY DEF LimiterTypeOK, Ages
  <1>2. LockIsHeld' /\ OverlapNeedsThread'
    BY DEF LimiterTypeOK, LockIsHeld, OverlapNeedsThread, Inside
  <1>3. ASSUME ~overlapped' PROVE OneInside' /\ Recorded'
    <2>1. OneInside /\ Recorded
      BY <1>3
    <2>2. \A d \in Caller \ {c} : stage'[d] = "out"
      BY <2>1 DEF OneInside, Inside, LimiterTypeOK
    <2>3. stage'[c] = "stamping" /\ timer'[c] = 0 /\ gap' = 0
      BY DEF LimiterTypeOK
    <2>4. OneInside'
      BY <2>2 DEF OneInside, Inside
    <2>5. Recorded'
      BY <2>2, <2>3 DEF Recorded
    <2> QED
      BY <2>4, <2>5
  <1> QED
    BY <1>1, <1>2, <1>3

LEMMA StampInv ==
  ASSUME IInv, NEW c \in Caller, Stamp(c)
  PROVE  IInv'
  <1> USE LimiterAssumption DEF IInv, Stamp
  <1>1. LimiterTypeOK'
    BY DEF LimiterTypeOK, Ages
  <1>2. LockIsHeld' /\ OverlapNeedsThread'
    BY DEF LimiterTypeOK, LockIsHeld, OverlapNeedsThread, Inside
  <1>3. ASSUME ~overlapped' PROVE OneInside' /\ Recorded'
    <2>1. OneInside /\ Recorded
      BY <1>3
    <2>2. \A d \in Caller : stage'[d] = "out"
      BY <2>1 DEF OneInside, Inside, LimiterTypeOK
    <2>3. since' = gap'
      BY <2>1 DEF Recorded
    <2>4. OneInside'
      BY <2>2 DEF OneInside, Inside
    <2>5. Recorded'
      BY <2>2, <2>3 DEF Recorded
    <2> QED
      BY <2>4, <2>5
  <1> QED
    BY <1>1, <1>2, <1>3

LEMMA LeaveInv ==
  ASSUME IInv, NEW c \in Caller, Leave(c)
  PROVE  IInv'
  <1> USE LimiterAssumption DEF IInv, Leave
  <1>1. LimiterTypeOK'
    BY DEF LimiterTypeOK, Ages
  <1>2. LockIsHeld' /\ OverlapNeedsThread'
    BY DEF LimiterTypeOK, LockIsHeld, OverlapNeedsThread, Inside
  <1>3. ASSUME ~overlapped' PROVE OneInside' /\ Recorded'
    <2>1. OneInside /\ Recorded
      BY <1>3
    <2>2. \A d \in Caller : stage[d] # "stamping" /\ stage'[d] = "out"
      BY <2>1 DEF OneInside, Inside, LimiterTypeOK
    <2>3. OneInside' /\ Recorded'
      BY <2>1, <2>2 DEF OneInside, Recorded, Inside
    <2> QED
      BY <2>3
  <1> QED
    BY <1>1, <1>2, <1>3

LEMMA TickInv == IInv /\ Tick => IInv'
  <1> SUFFICES ASSUME IInv, Tick PROVE IInv'
    OBVIOUS
  <1> USE LimiterAssumption DEF IInv, Tick, Older
  <1>1. LimiterTypeOK'
    BY DEF LimiterTypeOK, Ages
  <1>2. LockIsHeld' /\ OverlapNeedsThread'
    BY DEF LockIsHeld, OverlapNeedsThread, Inside
  <1>3. ASSUME ~overlapped' PROVE OneInside' /\ Recorded'
    <2>1. OneInside /\ Recorded
      BY <1>3
    <2>2. OneInside'
      BY <2>1 DEF OneInside, Inside
    <2>3. (\A c \in Caller : stage'[c] # "stamping") => since' = gap'
      BY <2>1 DEF Recorded
    <2>4. ASSUME NEW c \in Caller, stage'[c] = "pausing" PROVE gap' + timer'[c] >= Interval
      BY <2>1, <2>4 DEF Recorded, LimiterTypeOK, Ages
    <2>5. ASSUME NEW c \in Caller, stage'[c] = "stamping" PROVE timer'[c] = gap'
      BY <2>1, <2>5 DEF Recorded
    <2> QED
      BY <2>2, <2>3, <2>4, <2>5 DEF Recorded
  <1> QED
    BY <1>1, <1>2, <1>3

LEMMA NextInv == IInv /\ [LimiterNext]_limiterVars => IInv'
  <1> SUFFICES ASSUME IInv, [LimiterNext]_limiterVars PROVE IInv'
    OBVIOUS
  <1>1. ASSUME NEW c \in Caller, ReadLast(c) PROVE IInv'
    BY <1>1, ReadLastInv
  <1>2. ASSUME NEW c \in Caller, ReadClock(c) PROVE IInv'
    BY <1>2, ReadClockInv
  <1>3. ASSUME NEW c \in Caller, Stamp(c) PROVE IInv'
    BY <1>3, StampInv
  <1>4. ASSUME NEW c \in Caller, Leave(c) PROVE IInv'
    BY <1>4, LeaveInv
  <1>5. CASE Tick
    BY <1>5, TickInv
  <1>6. CASE UNCHANGED limiterVars
    BY <1>6 DEF limiterVars, IInv, LimiterTypeOK, LockIsHeld, OverlapNeedsThread,
                OneInside, Recorded, Inside
  <1> QED
    BY <1>1, <1>2, <1>3, <1>4, <1>5, <1>6 DEF LimiterNext

\* The strengthening is an invariant of the limiter.
THEOREM LimiterInvariant == LimiterSpec => []IInv
  BY InitInv, NextInv, PTL DEF LimiterSpec

-------------------------------------------------------------------------------

\* Requests are min_interval apart, unless callers have overlapped: a caller
\* sleeps until the interval since the last request is over.  And tasks alone do
\* not overlap, because acquire holds its lock from the reading to the writing.
THEOREM PacedAlways == LimiterSpec => Paced
  <1>1. IInv /\ [LimiterNext]_limiterVars =>
          [\A c \in Caller :
             ReadClock(c) => gap = Interval \/ (overlapped /\ threads # {})]_limiterVars
    <2> SUFFICES ASSUME IInv, NEW c \in Caller, ReadClock(c), ~(overlapped /\ threads # {})
                 PROVE  gap = Interval
      BY DEF IInv, LimiterTypeOK
    <2>1. ~overlapped
      BY DEF IInv, OverlapNeedsThread, LimiterTypeOK
    <2>2. gap + 0 >= Interval /\ gap \in 0..Interval
      BY <2>1 DEF IInv, Recorded, ReadClock, LimiterTypeOK, Ages
    <2> QED
      BY <2>2, LimiterAssumption
  <1> QED
    BY <1>1, LimiterInvariant, PTL DEF LimiterSpec, Paced

-------------------------------------------------------------------------------
(* The client uses its limiter as RateLimiter has it, so what is proved of *)
(* the limiter holds in the client; the rest is about the three loops of a *)
(* fetch.                                                                  *)

FetchTypeOK ==
  /\ at \in [Caller -> Outcomes \cup {"idle", "limit", "resolve", "request", "throttled",
                                      "backoff"}]
  /\ attempt \in [Caller -> 1..Attempts]
  /\ follow \in [Caller -> Redirects]
  /\ hop \in [Caller -> Nat]
  /\ \A c \in Caller : hop[c] \in 0..follow[c]
  /\ left \in [Caller -> 0..MaxAddresses]

\* While a request is on its way, the address it goes to is still counted.
AddressLeft == \A c \in Caller : at[c] = "request" => left[c] >= 1

\* Only a fetch that has an attempt left waits for the next one.
AttemptLeft == \A c \in Caller : at[c] = "backoff" => attempt[c] < Attempts

FetchInv == FetchTypeOK /\ AddressLeft /\ AttemptLeft /\ GivesUpLate

-------------------------------------------------------------------------------

\* What a fetch does to the limiter is a step of the limiter, or nothing.
LEMMA LimiterStep == [Next]_vars => [LimiterNext]_limiterVars
  <1> SUFFICES ASSUME [Next]_vars PROVE [LimiterNext]_limiterVars
    OBVIOUS
  <1>1. ASSUME NEW c \in Caller, Start(c) PROVE UNCHANGED limiterVars
    BY <1>1 DEF Start
  <1>2. ASSUME NEW c \in Caller, FetchStep(c) PROVE LimiterNext \/ UNCHANGED limiterVars
    <2>1. CASE Limit(c)
      BY <2>1 DEF Limit, LimiterNext
    <2>2. CASE Granted(c)
      BY <2>2 DEF Granted, LimiterNext
    <2> QED
      BY <1>2, <2>1, <2>2 DEF FetchStep, Resolve, Responds, Redirected, AddressFails,
                              ThrottleEnds, Retry
  <1>3. ASSUME NEW c \in Caller, Cancel(c) PROVE LimiterNext \/ UNCHANGED limiterVars
    BY <1>3 DEF Cancel, LimiterNext
  <1>4. CASE Tick /\ UNCHANGED fetchVars
    BY <1>4 DEF LimiterNext
  <1>5. CASE UNCHANGED vars
    BY <1>5 DEF vars
  <1> QED
    BY <1>1, <1>2, <1>3, <1>4, <1>5 DEF Next

\* The client implements the limiter: whatever its fetches do to each other,
\* the limiter sees callers that enter, wait, leave or are cancelled.
THEOREM ImplementsLimiter == Spec => LimiterSpec
  <1>1. Init => LimiterInit
    BY DEF Init
  <1> QED
    BY <1>1, LimiterStep, PTL DEF Spec, LimiterSpec

\* Requests of the client are min_interval apart unless threads overlap.
THEOREM ClientPaced == Spec => Paced
  BY ImplementsLimiter, PacedAlways, PTL

-------------------------------------------------------------------------------

LEMMA FetchInitial == Init => FetchInv
  <1> SUFFICES ASSUME Init PROVE FetchInv
    OBVIOUS
  <1> USE HttpAssumption DEF Init
  <1>1. \A c \in Caller : hop[c] \in 0..follow[c]
    <2> TAKE c \in Caller
    <2>1. follow[c] \in Nat /\ hop[c] = 0
      OBVIOUS
    <2> QED
      BY <2>1
  <1>2. FetchTypeOK
    BY <1>1 DEF FetchTypeOK, Attempts, Outcomes
  <1>3. AddressLeft /\ AttemptLeft /\ GivesUpLate
    BY DEF AddressLeft, AttemptLeft, GivesUpLate, Retried, TransportErrors
  <1> QED
    BY <1>2, <1>3 DEF FetchInv

\* A raised error is final only if its kind is not retried, or in the third attempt.
LEMMA RaiseInv ==
  ASSUME FetchInv, NEW c \in Caller, NEW error \in TransportErrors \cup {"status"},
         Raise(c, error), at[c] \notin Outcomes,
         error \in TransportErrors => left[c] = 1,
         UNCHANGED <<threads, attempt, follow, hop, left>>
  PROVE  FetchInv'
  <1>1. FetchTypeOK'
    BY DEF FetchInv, FetchTypeOK, Raise, Goto, Outcomes, TransportErrors
  <1>2. attempt[c] \in 1..3
    BY DEF FetchInv, FetchTypeOK, Attempts
  <1>3. \/ /\ at'[c] = "backoff"
           /\ attempt[c] < Attempts
        \/ at'[c] = error /\ (error \in Retried(c) => attempt[c] = Attempts)
    BY <1>2 DEF FetchInv, FetchTypeOK, Raise, Goto, Attempts
  <1>4. \A d \in Caller \ {c} : at'[d] = at[d]
    BY DEF FetchInv, FetchTypeOK, Raise, Goto
  <1>5. AddressLeft' /\ AttemptLeft'
    BY <1>3, <1>4 DEF FetchInv, AddressLeft, AttemptLeft, TransportErrors
  <1>6. GivesUpLate'
    BY <1>3, <1>4 DEF FetchInv, GivesUpLate, Retried, TransportErrors
  <1> QED
    BY <1>1, <1>5, <1>6 DEF FetchInv

\* A caller that goes on, and not to an error that might have been retried.
LEMMA GotoInv ==
  ASSUME FetchInv, NEW c \in Caller,
         NEW step \in {"limit", "resolve", "request", "throttled", "response", "unsafe",
                       "garbled", "cancelled"},
         Goto(c, step), UNCHANGED <<threads, attempt, follow, hop, left>>,
         step = "request" => left[c] >= 1
  PROVE  FetchInv'
  <1>1. FetchTypeOK'
    BY DEF FetchInv, FetchTypeOK, Goto, Outcomes
  <1>2. at'[c] = step /\ \A d \in Caller \ {c} : at'[d] = at[d]
    BY DEF FetchInv, FetchTypeOK, Goto
  <1>3. AddressLeft' /\ AttemptLeft' /\ GivesUpLate'
    BY <1>2 DEF FetchInv, AddressLeft, AttemptLeft, GivesUpLate, Retried, TransportErrors
  <1> QED
    BY <1>1, <1>3 DEF FetchInv

LEMMA ResolveInv ==
  ASSUME FetchInv, NEW c \in Caller, Resolve(c)
  PROVE  FetchInv'
  <1>1. CASE Goto(c, "unsafe") /\ UNCHANGED left
    BY <1>1, GotoInv DEF Resolve, limiterVars
  <1>2. ASSUME Goto(c, "request"), NEW n \in 1..MaxAddresses, left' = [left EXCEPT ![c] = n]
        PROVE  FetchInv'
    <2>1. FetchTypeOK'
      BY <1>2, HttpAssumption DEF FetchInv, FetchTypeOK, Resolve, Goto, Outcomes
    <2>2. /\ at'[c] = "request" /\ left'[c] >= 1
          /\ \A d \in Caller \ {c} : at'[d] = at[d] /\ left'[d] = left[d]
      BY <1>2 DEF FetchInv, FetchTypeOK, Goto
    <2>3. UNCHANGED <<threads, attempt>>
      BY DEF Resolve, limiterVars
    <2>4. AddressLeft' /\ AttemptLeft'
      BY <2>2, <2>3 DEF FetchInv, AddressLeft, AttemptLeft
    <2>5. GivesUpLate'
      BY <2>2, <2>3 DEF FetchInv, GivesUpLate, Retried, TransportErrors
    <2> QED
      BY <2>1, <2>4, <2>5 DEF FetchInv
  <1> QED
    BY <1>1, <1>2 DEF Resolve

LEMMA RedirectedInv ==
  ASSUME FetchInv, NEW c \in Caller, Redirected(c)
  PROVE  FetchInv'
  <1>1. CASE hop[c] < follow[c]
    <2>1. /\ at' = [at EXCEPT ![c] = "resolve"]
          /\ hop' = [hop EXCEPT ![c] = hop[c] + 1]
          /\ UNCHANGED <<threads, attempt, follow, left>>
      BY <1>1 DEF Redirected, Goto, limiterVars
    <2>2. hop[c] + 1 \in 0..follow[c] /\ hop[c] + 1 \in Nat
      <3>1. follow[c] \in Nat /\ hop[c] \in Nat
        BY HttpAssumption DEF FetchInv, FetchTypeOK
      <3> QED
        BY <3>1, <1>1
    <2>3. FetchTypeOK'
      BY <2>1, <2>2 DEF FetchInv, FetchTypeOK, Outcomes
    <2>4. at'[c] = "resolve" /\ \A d \in Caller \ {c} : at'[d] = at[d]
      BY <2>1 DEF FetchInv, FetchTypeOK
    <2>5. AddressLeft' /\ AttemptLeft' /\ GivesUpLate'
      BY <2>1, <2>4 DEF FetchInv, AddressLeft, AttemptLeft, GivesUpLate, Retried, TransportErrors
    <2> QED
      BY <2>3, <2>5 DEF FetchInv
  <1>2. CASE ~(hop[c] < follow[c])
    BY <1>2, GotoInv DEF Redirected, limiterVars
  <1> QED
    BY <1>1, <1>2

LEMMA AddressFailsInv ==
  ASSUME FetchInv, NEW c \in Caller, AddressFails(c)
  PROVE  FetchInv'
  <1>0. left[c] \in Nat /\ left[c] >= 1
    BY HttpAssumption DEF FetchInv, FetchTypeOK, AddressLeft, AddressFails
  <1>1. CASE left[c] > 1
    <2>1. /\ left' = [left EXCEPT ![c] = left[c] - 1]
          /\ UNCHANGED <<at, threads, attempt, follow, hop>>
      BY <1>1 DEF AddressFails, limiterVars
    <2>2. left[c] - 1 \in 1..MaxAddresses
      BY <1>0, <1>1, HttpAssumption DEF FetchInv, FetchTypeOK
    <2>3. FetchTypeOK'
      BY <2>1, <2>2 DEF FetchInv, FetchTypeOK
    <2>4. left'[c] >= 1 /\ \A d \in Caller \ {c} : left'[d] = left[d]
      BY <2>1, <2>2 DEF FetchInv, FetchTypeOK
    <2>5. at[c] = "request"
      BY DEF AddressFails
    <2>6. AddressLeft' /\ AttemptLeft' /\ GivesUpLate'
      BY <2>1, <2>4, <2>5 DEF FetchInv, AddressLeft, AttemptLeft, GivesUpLate, Retried, TransportErrors
    <2> QED
      BY <2>3, <2>6 DEF FetchInv
  <1>2. CASE ~(left[c] > 1)
    <2>1. PICK error \in TransportErrors : Raise(c, error)
      BY <1>2 DEF AddressFails
    <2>2. left[c] = 1
      BY <1>0, <1>2
    <2> QED
      BY <1>2, <2>1, <2>2, RaiseInv DEF AddressFails, limiterVars, Outcomes, TransportErrors
  <1> QED
    BY <1>1, <1>2

LEMMA RetryInv ==
  ASSUME FetchInv, NEW c \in Caller, Retry(c)
  PROVE  FetchInv'
  <1>1. /\ at' = [at EXCEPT ![c] = "limit"]
        /\ attempt' = [attempt EXCEPT ![c] = attempt[c] + 1]
        /\ hop' = [hop EXCEPT ![c] = 0]
        /\ UNCHANGED <<threads, follow, left>>
    BY DEF Retry, Goto, limiterVars
  <1>2. attempt[c] + 1 \in 1..Attempts
    BY DEF FetchInv, FetchTypeOK, AttemptLeft, Attempts, Retry
  <1>3. FetchTypeOK'
    <2>1. \A d \in Caller : follow[d] \in Nat
      BY HttpAssumption DEF FetchInv, FetchTypeOK
    <2> QED
      BY <1>1, <1>2, <2>1 DEF FetchInv, FetchTypeOK, Outcomes
  <1>4. at'[c] = "limit" /\ \A d \in Caller \ {c} : at'[d] = at[d] /\ attempt'[d] = attempt[d]
    BY <1>1 DEF FetchInv, FetchTypeOK
  <1>5. AddressLeft' /\ AttemptLeft' /\ GivesUpLate'
    BY <1>1, <1>4 DEF FetchInv, AddressLeft, AttemptLeft, GivesUpLate, Retried, TransportErrors
  <1> QED
    BY <1>3, <1>5 DEF FetchInv

LEMMA CancelInv ==
  ASSUME FetchInv, NEW c \in Caller, Cancel(c), UNCHANGED threads
  PROVE  FetchInv'
  BY GotoInv DEF Cancel

LEMMA RespondsInv ==
  ASSUME FetchInv, NEW c \in Caller, Responds(c)
  PROVE  FetchInv'
  <1>1. CASE Goto(c, "response")
    BY <1>1, GotoInv DEF Responds, limiterVars
  <1>2. CASE Raise(c, "status")
    BY <1>2, RaiseInv DEF Responds, limiterVars, Outcomes, TransportErrors
  <1>3. CASE Goto(c, "throttled")
    BY <1>3, GotoInv DEF Responds, limiterVars
  <1>4. CASE Goto(c, "garbled")
    BY <1>4, GotoInv DEF Responds, limiterVars
  <1> QED
    BY <1>1, <1>2, <1>3, <1>4 DEF Responds, Goto

LEMMA FetchNextInv == FetchInv /\ [Next]_vars => FetchInv'
  <1> SUFFICES ASSUME FetchInv, [Next]_vars PROVE FetchInv'
    OBVIOUS
  <1>1. ASSUME NEW c \in Caller, Start(c) PROVE FetchInv'
    BY <1>1, GotoInv DEF Start, limiterVars
  <1>2. ASSUME NEW c \in Caller, Limit(c) PROVE FetchInv'
    BY <1>2 DEF Limit, ReadLast, ReadClock, fetchVars, FetchInv, FetchTypeOK, AddressLeft,
                AttemptLeft, GivesUpLate, Retried
  <1>3. ASSUME NEW c \in Caller, Granted(c) PROVE FetchInv'
    BY <1>3, GotoInv DEF Granted, Stamp
  <1>4. ASSUME NEW c \in Caller, ThrottleEnds(c) PROVE FetchInv'
    BY <1>4, RaiseInv DEF ThrottleEnds, limiterVars, Outcomes, TransportErrors
  <1>5. ASSUME NEW c \in Caller, FetchStep(c) PROVE FetchInv'
    BY <1>2, <1>3, <1>4, <1>5, ResolveInv, RespondsInv, RedirectedInv, AddressFailsInv,
       RetryInv DEF FetchStep
  <1>6. ASSUME NEW c \in Caller, Cancel(c) PROVE FetchInv'
    BY <1>6, CancelInv DEF Cancel, Leave, limiterVars
  <1>7. CASE Tick /\ UNCHANGED fetchVars
    BY <1>7 DEF Tick, fetchVars, FetchInv, FetchTypeOK, AddressLeft, AttemptLeft,
                GivesUpLate, Retried
  <1>8. CASE UNCHANGED vars
    BY <1>8 DEF vars, limiterVars, fetchVars, FetchInv, FetchTypeOK, AddressLeft,
                AttemptLeft, GivesUpLate, Retried
  <1> QED
    BY <1>1, <1>5, <1>6, <1>7, <1>8 DEF Next

THEOREM FetchInvariant == Spec => []FetchInv
  BY FetchInitial, FetchNextInv, PTL DEF Spec

-------------------------------------------------------------------------------

\* Every reachable state of the client is well typed: a fetch makes at most
\* three attempts, and follows at most max_redirects redirects in each.
THEOREM ClientTypeCorrect == Spec => []TypeOK
  <1>1. FetchInv /\ IInv => TypeOK
    BY DEF FetchInv, FetchTypeOK, IInv, TypeOK
  <1> QED
    BY <1>1, FetchInvariant, ImplementsLimiter, LimiterInvariant, PTL

\* A passing error is raised by the third attempt only, and an error of the
\* transport only when all addresses have failed, for any number of them.
THEOREM GivesUpLateAlways == Spec => []GivesUpLate
  <1>1. FetchInv => GivesUpLate
    BY DEF FetchInv
  <1> QED
    BY <1>1, FetchInvariant, PTL
===============================================================================
