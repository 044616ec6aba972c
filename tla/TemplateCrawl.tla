----------------------------- MODULE TemplateCrawl -----------------------------
(***************************************************************************)
(* The crawler-service: POST /crawl/analyze and POST /crawl/execute with   *)
(* its one template, StaticScraper, on a web site of a few pages.          *)
(*                                                                         *)
(* A call is one delivery of a request.  The gateway delivers a request    *)
(* again after a timeout while the handler of the first goes on, so the    *)
(* calls of one job overlap and meet the same site.                        *)
(*                                                                         *)
(* Time passes in windows of 1 / rate_limit_rps seconds: of two requests   *)
(* with a sleep between them the second is in a later window.  A get may   *)
(* take longer than a window, and every redirect it follows is a request   *)
(* of its own, with no sleep before it.                                    *)
(***************************************************************************)
EXTENDS Naturals, Subsequences

CONSTANTS
  Page, NoPage,
  Start,        \* the page at the URL of the request
  Listings,     \* what may be on a page: sequences of items
  MaxPages,     \* scope.max_pages
  Analysis,     \* the calls of /crawl/analyze
  Crawl         \* and of /crawl/execute

\* An item lacks nothing, a required field, or the title.
Item == {"full", "partial", "untitled"}

ASSUME CrawlAssumption ==
  /\ NoPage \notin Page /\ Start \in Page
  /\ Listings \subseteq Seq(Item)
  /\ MaxPages \in Nat \ {0}
  /\ Analysis \cap Crawl = {}

VARIABLES
  link,      \* the next link of each page
  listing,   \* the items on it
  at,        \* the await each call is suspended at
  url, page, records,   \* the local variables of scrape
  broke,     \* an error ended the page loop
  reply,     \* the records, or the analysis, a call answered
  gets       \* how many gets of each call have sent the site something in this window

site == <<link, listing>>
vars == <<site, at, url, page, records, broke, reply, gets>>

Call == Analysis \cup Crawl

NoReply == [status |-> "none"]

TypeOK ==
  /\ link \in [Page -> Page \cup {NoPage}]
  /\ listing \in [Page -> Listings]
  /\ at \in [Call -> {"idle", "fetch", "sleep", "awake", "done"}]
  /\ url \in [Crawl -> Page]
  /\ page \in [Crawl -> 0..MaxPages]
  /\ \A c \in Crawl : \A i \in DOMAIN records[c] :
       records[c][i] \in Page \X {"full", "partial"}
  /\ broke \in [Crawl -> BOOLEAN]
  /\ \A c \in Call : reply[c].status \in {"none", "analysed", "success", "failed"}
  /\ gets \in [Call -> Nat]

Init ==
  /\ link \in [Page -> Page \cup {NoPage}]
  /\ listing \in [Page -> Listings]
  /\ at = [c \in Call |-> "idle"]
  /\ url = [c \in Crawl |-> Start]
  /\ page = [c \in Crawl |-> 0]
  /\ records = [c \in Crawl |-> <<>>]
  /\ broke = [c \in Crawl |-> FALSE]
  /\ reply = [c \in Call |-> NoReply]
  /\ gets = [c \in Call |-> 0]

Goto(c, step) == at' = [at EXCEPT ![c] = step]

\* The get of a page goes out.
Send(c) ==
  /\ Goto(c, "fetch")
  /\ gets' = [gets EXCEPT ![c] = @ + 1]

\* The site sends the get elsewhere, which follows at once, in this window or in
\* a later one, where the get has not been counted yet.  One redirect too many is
\* an error of the fetch.
Redirected(c) ==
  /\ at[c] = "fetch"
  /\ gets' = [gets EXCEPT ![c] = IF @ = 0 THEN 1 ELSE @]
  /\ UNCHANGED <<site, at, url, page, records, broke, reply>>

-------------------------------------------------------------------------------
(* POST /crawl/analyze                                                     *)

Analyze(c) ==
  /\ at[c] = "idle"
  /\ Send(c)
  /\ UNCHANGED <<site, url, page, records, broke, reply>>

\* Whatever was detected is lost: the import of check_robots_txt fails, and the
\* handler of a failed fetch answers for that, too.
Analyzed(c) ==
  /\ at[c] = "fetch"
  /\ Goto(c, "done")
  /\ \E error \in {"fetch", "import"} :
       reply' = [reply EXCEPT ![c] = [status |-> "analysed", web_type |-> "UNKNOWN",
                                      error |-> error]]
  /\ UNCHANGED <<site, url, page, records, broke, gets>>

-------------------------------------------------------------------------------
(* POST /crawl/execute                                                     *)

\* _extract_record makes nothing of an item without a title.
Extracted(p) ==
  LET items  == listing[p]
      titled == Picked(items, {i \in DOMAIN items : items[i] # "untitled"})
  IN [i \in DOMAIN titled |-> <<p, titled[i]>>]

\* validate_records.
Validated(rs) == Picked(rs, {i \in DOMAIN rs : rs[i][2] = "full"})

\* The loop is over: execute validates what there is and answers.
Answer(c, rs) ==
  /\ Goto(c, "done")
  /\ records' = [records EXCEPT ![c] = rs]
  /\ reply' = [reply EXCEPT ![c] = [status |-> "success", records |-> Validated(rs)]]

\* The registry's one template takes every URL.
Execute(c) ==
  /\ at[c] = "idle"
  /\ Send(c)
  /\ page' = [page EXCEPT ![c] = 1]
  /\ UNCHANGED <<site, url, records, broke, reply>>

\* The scrape cannot begin, its client cannot be made.
ExecuteFails(c) ==
  /\ at[c] = "idle"
  /\ Goto(c, "done")
  /\ reply' = [reply EXCEPT ![c] = [status |-> "failed"]]
  /\ UNCHANGED <<site, url, page, records, broke, gets>>

\* Mutant: the next page is asked for under the old URL.
Fetched_SameURL(c) ==
  LET rs == records[c] \o Extracted(url[c]) IN
    /\ at[c] = "fetch"
    /\ IF link[url[c]] = NoPage
         THEN Answer(c, rs)
         ELSE /\ Goto(c, "sleep")
              /\ records' = [records EXCEPT ![c] = rs]
              /\ UNCHANGED reply
    /\ UNCHANGED <<site, url, page, broke, gets>>

\* Mutant: the pause is left out.
Fetched_NoPause(c) ==
  LET rs   == records[c] \o Extracted(url[c])
      next == link[url[c]]
  IN /\ at[c] = "fetch"
     /\ IF next = NoPage
          THEN Answer(c, rs) /\ UNCHANGED url
          ELSE /\ Goto(c, "awake")
               /\ records' = [records EXCEPT ![c] = rs]
               /\ url' = [url EXCEPT ![c] = next]
               /\ UNCHANGED reply
     /\ UNCHANGED <<site, page, broke, gets>>

Fetched(c) ==
  LET rs   == records[c] \o Extracted(url[c])
      next == link[url[c]]
  IN /\ at[c] = "fetch"
     /\ IF next = NoPage
          THEN Answer(c, rs) /\ UNCHANGED url
          ELSE /\ Goto(c, "sleep")
               /\ records' = [records EXCEPT ![c] = rs]
               /\ url' = [url EXCEPT ![c] = next]
               /\ UNCHANGED reply
     /\ UNCHANGED <<site, page, broke, gets>>

\* No answer, an error status or an exception on the way to the next URL: it is
\* logged, and the records so far are the result.
FetchFails(c) ==
  /\ at[c] = "fetch"
  /\ \/ Answer(c, records[c])
     \/ Answer(c, records[c] \o Extracted(url[c])) /\ link[url[c]] # NoPage
  /\ broke' = [broke EXCEPT ![c] = TRUE]
  /\ UNCHANGED <<site, url, page, gets>>

\* Mutant: one page too many.
Continue_OneMore(c) ==
  /\ at[c] = "awake"
  /\ IF page[c] <= MaxPages
       THEN /\ Send(c)
            /\ page' = [page EXCEPT ![c] = @ + 1]
            /\ UNCHANGED <<records, reply>>
       ELSE Answer(c, records[c]) /\ UNCHANGED <<page, gets>>
  /\ UNCHANGED <<site, url, broke>>

\* Mutant: the crawl goes on for as long as there is a next link.
Continue_Unbounded(c) ==
  /\ at[c] = "awake"
  /\ Send(c)
  /\ page' = [page EXCEPT ![c] = IF @ < MaxPages THEN @ + 1 ELSE 1]
  /\ records' = [records EXCEPT ![c] = <<>>]
  /\ UNCHANGED <<site, url, broke, reply>>

\* After the sleep, which follows the last page as well, the loop goes on.
Continue(c) ==
  /\ at[c] = "awake"
  /\ IF page[c] < MaxPages
       THEN /\ Send(c)
            /\ page' = [page EXCEPT ![c] = @ + 1]
            /\ UNCHANGED <<records, reply>>
       ELSE Answer(c, records[c]) /\ UNCHANGED <<page, gets>>
  /\ UNCHANGED <<site, url, broke>>

-------------------------------------------------------------------------------

\* The next window begins; who slept through the end of the last may wake.
Tick ==
  /\ at' = [c \in Call |-> IF at[c] = "sleep" THEN "awake" ELSE at[c]]
  /\ gets' = [c \in Call |-> 0]
  /\ UNCHANGED <<site, url, page, records, broke, reply>>

Steps(c) == Fetched(c) \/ FetchFails(c) \/ Continue(c)

Next ==
  \/ \E c \in Analysis : Analyze(c) \/ Analyzed(c)
  \/ \E c \in Crawl : Execute(c) \/ ExecuteFails(c) \/ Steps(c)
  \/ \E c \in Call : Redirected(c)
  \/ Tick

Spec == Init /\ [][Next]_vars

\* Time passes, the event loop runs what is ready, and a fetch ends: the site
\* answers in full, or it is silent for the 30 seconds httpx waits.  A site that
\* sends a byte every 29 seconds for ever is outside.
FairSpec ==
  /\ Spec
  /\ WF_vars(Tick)
  /\ \A c \in Analysis : WF_vars(Analyzed(c))
  /\ \A c \in Crawl : WF_vars(Steps(c))

-------------------------------------------------------------------------------
(* Safety                                                                  *)

\* The pages in the order of the links, from the one that was asked for.
Along(next) ==
  LET N[n \in 1..MaxPages] == IF n = 1 THEN Start
                              ELSE IF N[n - 1] = NoPage THEN NoPage ELSE next[N[n - 1]]
  IN N

Nth == Along(link)

\* The valid records of the first n of them, for each n.
FirstPages ==
  Joined([n \in 1..MaxPages |-> IF Nth[n] = NoPage THEN <<>> ELSE Validated(Extracted(Nth[n]))])

\* A crawl answers with the valid records of the pages along the links, page by
\* page and in their order, up to the last link, the page limit or the page an
\* error happened on, however its steps and those of other calls alternate.
RecordsFollowLinks ==
  \A c \in Crawl : at[c] = "done" /\ reply[c].status = "success" =>
    IF broke[c]
      THEN \E n \in {page[c] - 1, page[c]} : reply[c].records = FirstPages[n]
      ELSE reply[c].records = FirstPages[MaxPages]

\* A pause lies between any two pages of a call: all that it sends the site in
\* one window belongs to one get, the request and the redirects it followed.
EachKeepsPace == \A c \in Call : gets[c] <= 1

-------------------------------------------------------------------------------
(* Liveness                                                                *)

\* A call that was accepted is answered, also when the links go in circles.
EveryCallEnds == \A c \in Call : at[c] # "idle" ~> at[c] = "done"
===============================================================================
