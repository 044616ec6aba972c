------------------------------ MODULE HttpClient ------------------------------
(***************************************************************************)
(* CrawlerHttpClient: fetch and fetch_sync with their tenacity retries,    *)
(* the limiter they share, and the loop over redirects and addresses of    *)
(* safe_async_request below them.                                          *)
(*                                                                         *)
(* Each caller fetches once.  What the server and the network answer is    *)
(* any answer; sleeps that do not touch the limiter (the exponential wait, *)
(* Retry-After) have no length.                                            *)
(***************************************************************************)
EXTENDS RateLimiter

CONSTANTS
  Redirects,     \* the values of max_redirects: 0, and the bound for the default
  MaxAddresses   \* bound on the addresses a name resolves to

ASSUME HttpAssumption == Redirects \subseteq Nat /\ MaxAddresses \in Nat \ {0}

Attempts == 3

VARIABLES
  at,        \* where each fetch is, or its outcome
  attempt,   \* tenacity's count
  follow,    \* max_redirects of the fetch
  hop,       \* the redirects followed in this attempt
  left       \* the addresses not yet tried in this hop

fetchVars == <<at, attempt, follow, hop, left>>

vars == <<limiterVars, fetchVars>>

TransportErrors == {"connect", "timeout", "other"}

\* "status": HTTPStatusError; "unsafe": UnsafeTargetError, which also stands for
\* too many redirects; "garbled": int() rejects the Retry-After header.
Outcomes == TransportErrors \cup {"response", "status", "unsafe", "garbled", "cancelled"}

TypeOK ==
  /\ LimiterTypeOK
  /\ at \in [Caller -> Outcomes \cup {"idle", "limit", "resolve", "request", "throttled",
                                      "backoff"}]
  /\ attempt \in [Caller -> 1..Attempts]
  /\ follow \in [Caller -> Redirects]
  /\ \A c \in Caller : hop[c] \in 0..follow[c]
  /\ left \in [Caller -> 0..MaxAddresses]

\* fetch_sync always takes the default.
Init ==
  /\ LimiterInit
  /\ at = [c \in Caller |-> "idle"]
  /\ attempt = [c \in Caller |-> 1]
  /\ follow \in [Caller -> Redirects]
  /\ \A c \in threads : follow[c] # 0
  /\ hop = [c \in Caller |-> 0]
  /\ left = [c \in Caller |-> 0]

-------------------------------------------------------------------------------

Goto(c, step) == at' = [at EXCEPT ![c] = step]

Start(c) ==
  /\ at[c] = "idle"
  /\ Goto(c, "limit")
  /\ UNCHANGED <<limiterVars, attempt, follow, hop, left>>

Limit(c) ==
  /\ at[c] = "limit"
  /\ ReadLast(c) \/ ReadClock(c)
  /\ UNCHANGED fetchVars

Granted(c) ==
  /\ at[c] = "limit"
  /\ Stamp(c)
  /\ Goto(c, "resolve")
  /\ UNCHANGED <<attempt, follow, hop, left>>

-------------------------------------------------------------------------------

\* resolve_public_http_url: the addresses of the host, or UnsafeTargetError.
Resolve(c) ==
  /\ at[c] = "resolve"
  /\ \/ Goto(c, "unsafe") /\ UNCHANGED left
     \/ /\ Goto(c, "request")
        /\ \E n \in 1..MaxAddresses : left' = [left EXCEPT ![c] = n]
  /\ UNCHANGED <<limiterVars, attempt, follow, hop>>

\* retry_if_exception_type; only fetch repeats an error status.
Retried(c) == {"connect", "timeout"} \cup (IF c \in threads THEN {} ELSE {"status"})

\* Mutant: one attempt less.
Raise_Early(c, error) ==
  Goto(c, IF error \in Retried(c) /\ attempt[c] < Attempts - 1 THEN "backoff" ELSE error)

Raise(c, error) ==
  Goto(c, IF error \in Retried(c) /\ attempt[c] < Attempts THEN "backoff" ELSE error)

\* A response that ends the loop over the redirects.  A 3xx without a location
\* is one, and raise_for_status raises for it as for 4xx and 5xx.
Responds(c) ==
  /\ at[c] = "request"
  /\ \/ Goto(c, "response")
     \/ Raise(c, "status")
     \/ c \notin threads /\ at' \in {[at EXCEPT ![c] = "throttled"], [at EXCEPT ![c] = "garbled"]}
  /\ UNCHANGED <<limiterVars, attempt, follow, hop, left>>

Redirected(c) ==
  /\ at[c] = "request"
  /\ IF hop[c] < follow[c]
       THEN Goto(c, "resolve") /\ hop' = [hop EXCEPT ![c] = @ + 1]
       ELSE Goto(c, "unsafe") /\ UNCHANGED hop
  /\ UNCHANGED <<limiterVars, attempt, follow, left>>

\* Mutant: the first address that fails ends the attempt.
AddressFails_First(c) ==
  /\ at[c] = "request"
  /\ \E error \in TransportErrors : Raise(c, error)
  /\ UNCHANGED <<limiterVars, attempt, follow, hop, left>>

\* The next address is tried; the error of the last one is raised.
AddressFails(c) ==
  /\ at[c] = "request"
  /\ IF left[c] > 1
       THEN left' = [left EXCEPT ![c] = @ - 1] /\ UNCHANGED at
       ELSE UNCHANGED left /\ \E error \in TransportErrors : Raise(c, error)
  /\ UNCHANGED <<limiterVars, attempt, follow, hop>>

\* 429: the Retry-After sleep is over and the status is raised.
ThrottleEnds(c) ==
  /\ at[c] = "throttled"
  /\ Raise(c, "status")
  /\ UNCHANGED <<limiterVars, attempt, follow, hop, left>>

\* The next attempt starts from the first URL, and acquires again.
Retry(c) ==
  /\ at[c] = "backoff"
  /\ Goto(c, "limit")
  /\ attempt' = [attempt EXCEPT ![c] = @ + 1]
  /\ hop' = [hop EXCEPT ![c] = 0]
  /\ UNCHANGED <<limiterVars, follow, left>>

\* The task of a fetch is cancelled at an await.
Cancel(c) ==
  /\ c \notin threads
  /\ at[c] \in {"limit", "resolve", "request", "throttled", "backoff"}
  /\ Goto(c, "cancelled")
  /\ IF stage[c] = "out" THEN UNCHANGED limiterVars ELSE Leave(c)
  /\ UNCHANGED <<attempt, follow, hop, left>>

-------------------------------------------------------------------------------

FetchStep(c) ==
  \/ Limit(c) \/ Granted(c)
  \/ Resolve(c) \/ Responds(c) \/ Redirected(c) \/ AddressFails(c)
  \/ ThrottleEnds(c) \/ Retry(c)

Next ==
  \/ \E c \in Caller : Start(c) \/ FetchStep(c) \/ Cancel(c)
  \/ Tick /\ UNCHANGED fetchVars

Spec == Init /\ [][Next]_vars

\* Every request has a timeout, every sleep ends, and time goes on.
FairSpec ==
  /\ Spec
  /\ WF_vars(Tick /\ UNCHANGED fetchVars)
  /\ \A c \in Caller : WF_vars(FetchStep(c))

-------------------------------------------------------------------------------

\* An error that may pass is raised only by the third attempt, and an error of
\* the transport only when the last address of the host had failed as well.
GivesUpLate ==
  \A c \in Caller :
    /\ at[c] \in Retried(c) => attempt[c] = Attempts
    /\ at[c] \in TransportErrors => left[c] = 1

\* Every fetch comes to an end, whatever the servers answer and whoever is
\* cancelled while he holds the lock of the limiter.
FetchEnds == \A c \in Caller : at[c] # "idle" ~> at[c] \in Outcomes
===============================================================================
