# TLA+ models of the crawler agent

These modules model the crawl system of this repository: an API gateway that
accepts crawl jobs, three services that work on them, and the stores they share.
TLC checks each module on a small instance; TLAPS proves the safety properties of every
state machine (the gateway, the job router, the command line client, the agent's graph,
nodes and memory, the crawler, the data processor, the HTTP client) for every value of
their constants.

    tlc -config gateway_hostile.cfg MCGateway      # one run; the others are listed below
    tlapm Gateway_proofs.tla                       # one of the eight proof modules

Source paths below are relative to the repository: `gw/` stands for
`services/api-gateway/src`, `ag/` for `services/agent-service/src`, `cr/` for
`services/crawler-service/src`, `dp/` for `services/data-processor/src`, `sh/` for
`packages/shared-lib/shared`.


## 1. Inventory

### The parts, their state and how they interact

    client --POST /crawl--> API gateway --(background task: JobRouter.execute)
                              |   |          |-- POST /crawl/analyze, /crawl/execute --> crawler-service --> web site
                              |   |          |-- POST /agent/run   (no records) --> agent-service --> LLM, sandbox, web site
                              |   |          |-- POST /process     (raw records) --> data-processor --> MinIO
                              |   |          `-- POST /audit       (always, fire and forget) --> data-processor
                              |   `-- job:{id}:status, job:{id}:result (Redis)
    client --GET status, GET result, DELETE--'

| Part | State | Operations | Hard behaviour |
|---|---|---|---|
| Crawl routes and job store (`gw/routers/crawl.py`, `gw/services/job_store.py`) | two Redis keys per job id, one asyncio task per submission | submit, status, result, delete; create, update phase, complete, fail | several writers of one key, an await between any two commands, outcome written in two commands, Redis errors, eviction |
| Worker life cycle (`gw/main.py`) | the set of pending tasks | start, drain for 30 s, cancel | tasks live in memory only; a cancellation bypasses `except Exception` |
| JobRouter, ServiceCaller (`gw/services/`) | the local variables of `execute`, result and audit log | five calls with timeouts and retries, phase updates, audit | a timed-out handler goes on; each call is delivered up to three times; every phase can fail in several ways |
| Agent service (`ag/graphs`, `ag/routers`) | graph state per run, checkpoint per thread, attempt counter | prepare, analyze_site, generate_code, run_tests, decide_next, alert_human, then save to memory | overlapping runs on one thread and one domain, stale checkpoint and context, exceptions in any node |
| Agent memory (`ag/memory`) | Redis: domain context, errors, feedback, conversation buffer; a checkpoint per thread; dictionaries of the process in their place | read before the run, write after it | expiry and eviction between read and use; runs that share a session or a thread; a process that starts without its stores |
| Approved artifacts (`ag/artifacts.py`) | a crawler file per domain and data type | promote, load, clean up | a file named by a context written later |
| Validation, sandbox, LLM factory (`ag/validation.py`, `run_tests.py`, `ag/utils`) | a process and its files; model clients | policy check, execution with a time limit, record gate, fallback provider | timeouts against late exits; errors of two providers |
| Crawler service (`cr/`) | local variables of the page loop | analyze, execute | cyclic links, redirects, errors in the middle, overlapping deliveries |
| Data processor (`dp/`) | objects in MinIO | clean, validate, deduplicate, score, store; store audit | order of the steps, bucket creation race, object names, swallowed errors |
| Shared library (`sh/`) | limiter clock, proxy position | models, HTTP client, robots and network checks | async and sync use of one limiter |
| CLI (`gw/cli.py`) | the job it waits for | post, poll, fetch | a status it never leaves the loop for; a poll that is old when the result is fetched |
| Deployment (`docker-compose.yml`, `configs/`) | none | two gateway workers, `allkeys-lru`, restart policies | what the environment may do to the rest |

### What makes each part correct

- **Gateway.** An unfinished job is being worked on; a completed one has a result;
  keys keep their TTL; a job fails only for a reason; a client sees the life
  `submitted -> running -> completed | failed` and a progress that never falls.
- **JobRouter.** The status of a result says what happened; the agent is only asked
  when the template had nothing; the audit agrees with the result; late handlers
  change nothing; `execute` always returns.
- **Agent.** A success is earned by the run that claims it; no reply carries records
  of an earlier run; no node meets a missing field; the context names what exists;
  every run ends.
- **Agent nodes.** Only code the policy accepts at that time is executed; its process
  does not outlive its test where it can be ended; records that pass were earned; no
  provider that can be asked is given up early; every await ends.
- **Agent memory.** A run saves its messages once and in order; the buffer is the end of
  the conversation; production keeps nothing in its own memory.
- **HTTP client.** Requests keep their distance, what may pass is retried until the
  last attempt, every fetch ends.
- **CLI.** The command ends when its job does, and shows the outcome of that job.
- **Crawler.** The records follow the links in order; the loop ends on any site; a
  call keeps its own pace.
- **Data processor.** No record is lost or invented, the order is kept, the grade means
  something; a path that is answered holds the records of that answer.

The hazards, each at its line and with the properties that would catch it, are in
`PROJECT.json`.


## 2. Modules

| Module | Models | Kind |
|---|---|---|
| `Phases` | the order of the awaits in `JobRouter.execute` | operators, shared by Gateway, Pipeline and JobRouter |
| `Pipeline` | what `execute` promises the task that awaits it | abstract specification |
| `JobStore` | the status hash and the commands on it | operators |
| `JobLifecycle` | what the API promises about one job | abstract specification |
| `Gateway` | routes, tasks, job store, workers | state machine; implements `JobLifecycle` |
| `JobRouter` | one `execute` with `ServiceCaller` and the services' handlers | state machine; implements `Pipeline` |
| `CliClient` | the `crawl` command of `gw/cli.py` | state machine, composed with `Gateway` |
| `AgentGraph` | `CustomAgentGraph.run`, its nodes, memory and artifacts | state machine |
| `AgentNodes` | the inside of `analyze_site`, `generate_code` and `run_tests` | state machine over `RecordGate`; implements `NodePass` |
| `NodePass` | these nodes as `AgentGraph` has them: one step each | abstract specification |
| `RecordGate` | the policy for code and the gate for records of `ag/validation.py` | operators |
| `AgentMemory` | conversation buffer, checkpoints, and the process that holds them | state machine |
| `RateLimiter` | `RateLimiter` of `sh/utils/http_client.py` | state machine |
| `HttpClient` | `fetch`, `fetch_sync` and the safe request below them | state machine over `RateLimiter` |
| `Subsequences` | list comprehensions, sums and concatenations, as recursive functions | operators, shared by the three modules with such loops |
| `Records` | clean, validate, deduplicate, score | operators over `Subsequences` |
| `DataProcessor` | `POST /process`, `POST /audit` and the object store | state machine over `Records` |
| `TemplateCrawl` | the crawler service and a small web site | state machine |
| `MC*` | values of the constants for TLC | instances |
| `Gateway_proofs`, `JobRouter_proofs`, `AgentGraph_proofs`, `AgentNodes_proofs`, `AgentMemory_proofs`, `HttpClient_proofs`, `DataProcessor_proofs`, `TemplateCrawl_proofs` | theorems about the module of that name; `Gateway_proofs` also has those of `CliClient`, and `HttpClient_proofs` those of `RateLimiter` | proofs |

`Gateway` and `JobRouter` are composed through `Pipeline`: `Gateway` moves its tasks by
`Phases!Follows`, and `JobRouter` is checked (with liveness) and proved (its safety) to
implement `Pipeline`, whose steps are the same relation. `AgentGraph`, `TemplateCrawl` and
`DataProcessor` are the services behind the calls; each of them gets the overlapping
deliveries that the retries modelled in `JobRouter` produce, and `JobRouter` takes from them
the set of replies a service may give (`Replies`). `CliClient` extends `Gateway` with a
client that acts on what it has read, and `HttpClient` extends `RateLimiter`, whose actions
are parts of its own. `AgentNodes` looks into three nodes that `AgentGraph` takes as one
step each with a choice of outcomes; `NodePass` states that step, and `AgentNodes` is
checked (with liveness) and proved (its safety) to implement it.

### How state and actions correspond to the code

**Gateway.** A run is one `POST /crawl` and the background task it starts; `at[r]`
is the await it is suspended at, so one action is the code between two awaits.
`hash` and `result` are the two Redis keys of a job; of the hash the status, the
progress and the presence of a TTL are kept. The job id is chosen by the client, so
two runs may have one id. `CreateJob` and `SetExpiry` are the HSET and the EXPIRE of
`create_job`, `CompleteJob` and `StoreResult` the two writes of `complete_job`; a
command of a run in `Faulty` may raise, with or without effect. `Crash`, `Drain`,
`Cancel` and `Restart` are the life of a uvicorn worker; `DeleteJob`,
`StatusVanishes` and `ResultVanishes` take keys away. `ReadStatus` and `ReadResult`
are the two reads of `GET /crawl/{id}/result`; `GET status` is a single read.

**JobRouter.** `stage` is the await of `execute`; `attempt` and `waiting` are the
state of `ServiceCaller`; `running[s]` is the set of attempts whose handlers are
still executing at the other end. `HandlerEnds` delivers a reply only if the caller
still waits for that attempt. `GoOn` is the transition with the `finally` block in
it: on the way to the audit it finalises the audit log. `Cancel` is a shutdown (the
`finally` block runs), `Crash` a death (it does not).

**AgentGraph.** `node[r]` is where a run is, `chan[r]` its graph state,
`checkpoint[t]` what LangGraph saved for the thread `t`: it is written in the
background, so `NodeReturns` leaves open whether it is the new or the old one.
`seen[r]` is the domain context the run loaded before it started. A piece of code is
named by the run that generated it; `tested[r]` is a history variable, the code that
passed the last test of the run itself. What the LLM, the target site, the sandbox and
the record gate do is a choice of outcome. A repeated delivery is a second run on
the same thread. `NodeRaises` may follow every node: what the node itself does not raise,
the checkpointer behind it may. `PrepareRaises` is the approved file that cannot be read,
outside every `try`: the request ends with a 500. `ForgetThread` takes the checkpoint of a
thread away, as an eviction by Redis does.

**AgentNodes and RecordGate.** `at` is the await a pass through the three nodes is suspended
at: the robots check, the page, an LLM call with its `failures` per provider, the sandboxed
process. The `keys` of a setup are the providers whose client can be made: one without a
key, or whose constructor raises, is passed over or given up at once, and the attempts are
about the others. An invalid URL at the robots check and a temporary directory that cannot
be written raise out of the node (`CheckRobots`, `Launch`). `process` is that process, which
runs beside the node: `ProcessExits` and `Reap` (asyncio's child watcher) may come before,
between or after `TimesOut` and `Collect`. A timeout calls `killpg`; this raises
`ProcessLookupError` when the process has just been collected, and `PermissionError` when
the setuid launcher has made it root's (`sandbox_launcher.c:57`), and both become an error
of the test. A program is what the policy looks at: the kinds of its top-level statements
and the banned names it uses. A record is a function from fields to kinds of values.
`Normalized` and `Complete` are `validate_records`, with the threshold in tenths.

**AgentMemory.** `process` says which stores a process has started with, or that it is down;
`conversation` and `checkpoint` are indexed by store, and what is under "local" is lost in a
`Crash`. `Expire` and `EvictCheckpoint` take away what is in Redis. A message is named by
the run that said it and its number, so that the histories, `saved` of what each run
appended and `log` of what each buffer was given, tell repetitions apart. `GraphEnds` takes
the messages behind the length of the loaded history, `AddMessage` is the transaction of
RPUSH, LTRIM and EXPIRE, which may raise with or without effect.

**RateLimiter and HttpClient.** Times are ages, cut off at the interval. A caller in
`threads` uses `acquire_sync` and `fetch_sync`, any other one is a task of the event
loop. `time.monotonic()` and the assignment of its value are two actions, `ReadClock` and
`Stamp`, because a thread may be switched between them. The retry decorator is
`attempt`, the loop over redirects `hop`, the loop over addresses `left`. `Cancel` ends a
task at any await, also while it holds the lock.

**CliClient.** `cli[r]` is the request the command waits for. The answer to a poll and the
request that follows are separate actions, so the job may have gone on, failed or
vanished in between.

**DataProcessor and Records.** A value is the class of all values the pipeline treats
alike (a text of tags only, a text that decodes to blanks, zero, false, ...); `Kind` says
which of them a Parquet column can hold together. Scores are exact fractions, where the code
adds floating-point numbers. The pipeline
runs without an await and is one action, `Process`; the requests of `store` to MinIO are one
action each. Those of `store_audit` are one action together, as nothing else uses its
bucket. Objects are named by job, second and type, as in the code.

**TemplateCrawl.** `link` and `listing` are the web site, any function over a few
pages; `Fetched`, `FetchFails` and `Continue` are the parts of the page loop between
its awaits. Time is a sequence of windows as long as the pause between two requests, and
`gets[c]` counts the gets from which the site has had a request in this one: a get sends one
as it begins, and one more, maybe windows later, for each redirect (`Redirected`).
`ExecuteFails` is the exception outside the scraper, answered as a failure.
`FirstPages[n]`, which `RecordsFollowLinks` compares the replies with, has the valid records
of the first `n` pages along the links from the start; `Along` walks them.


## 3. Runs

All runs must finish without an error, except those marked *violation*, whose one
property states a claim of the repository that the code does not meet.

| Run | Question | Instance and why it is enough |
|---|---|---|
| `gateway_hostile` | What do the two keys of a job still guarantee when everything goes wrong, and whose result may be served? `NoOrphan`, `CompletedHasResult`, `KeptKeysExpire`, `FailedNeedsFault`, `StaleResultNeedsRerun` | one id, two submissions, two workers, all faults (Redis errors in the second submission only: which of them made the job fail is then visible). The properties speak of one id at a time; two submissions are what it takes to overwrite each other. The proofs cover every number. |
| `gateway_lifecycle` | Does a job submitted once live the life the API describes, is an undisturbed one finished, and does the `crawl` command end with its outcome? `ImplementsFairLifecycle`, `CliEnds`, `CliShowsOutcome` | two ids, either of them posted by the command; the second run meets Redis errors, removal and the loss of its worker, the first is calm, so that the liveness of the first is checked next to the trouble of the second |
| `gateway_restart` *violation* | README.md:171 "recovers unacknowledged jobs after a worker restart" | one id, two submissions |
| `router` | Do status, fallback and audit agree with what happened, and does `execute` return? `HonestStatus`, `AgentIsFallback`, `AuditAgrees`, `NothingLate`, `ImplementsPipeline` | two attempts per call instead of three: a first, a repeated and an exhausted one, with a late handler of each |
| `router_partial` *violation* | job_router.py:137 "Processing failed but we still have raw data" | one attempt |
| `agent_runs` | Is a reply earned by its own run, do runs find usable memory, and are all answered? `EarnedSuccess`, `NoStaleRecords`, `AlertHasAnalysis`, `ContextIsBacked`, `EveryRunAnswered` | two overlapping runs with memory errors and crashes: a repeated one on one thread with two attempts each, or two threads and data types on one domain, where with one attempt a cached crawler that fails goes straight to `alert_human` |
| `agent_robots` *violation* | robots.py:1 "preflight used before any target-page request" | two runs, no faults |
| `nodes` | What runs, what passes, what is left behind, and do the nodes do what `AgentGraph` says of them? `OnlyWatchedCodeRuns`, `PassedIsEarned`, `ProvidersExhausted`, `ImplementsPass` | one pass, first, retried or cached; every set of providers that can be made, every way to start the sandbox, one program per rule of the policy, outputs with complete, incomplete, repeated, empty and scalar records against caps of one and two records and a threshold of 0.5, which a list of two records of two fields meets exactly (the default of 0.8 it cannot) |
| `memory` | What does the conversation buffer hold? `NewMessagesSaved`, `BufferIsRecent`, `ProductionIsDurable` | two runs that share a session, a thread, both or neither, two messages each and a limit of three, which the second run exceeds, with restarts, expiry and Redis errors, in production and development |
| `http` | Do requests keep their distance, are errors raised too early, does every fetch end? `Paced`, `GivesUpLate`, `FetchEnds` | two callers in every mixture of tasks and threads, an interval of two ticks (within it, at its end), no or one redirect, up to two addresses, the three attempts of the code |
| `processor` | Is what the pipeline returns what a reference definition says, does a path hold it, and does no path mean a reason? `NothingLost`, `KeptInOrder`, `GradeIsEarned`, `PathHoldsReply`, `UnstoredHasReason` | every batch of up to two records over all kinds of values, one key optional, and every batch of three over the kinds that interact, delivered once; and three deliveries of two submissions of one id, two seconds, three file types, batches with no, one and three records, a bucket that may be missing, one faulty delivery |
| `crawl` | Do records follow the links, at what pace, and does the loop end, on any site? `RecordsFollowLinks`, `EachKeepsPace`, `EveryCallEnds` | every site of two pages with its possible listings (all link structures, circles and any number of redirects included), a limit of three pages, which a circle exceeds, two crawls and an analysis |

Bounds: `MaxAttempts`, `MaxRetries` and `MaxPages` are parameters of the code with
smaller values; `LastSecond` bounds the clock of the data processor, whose value
only matters as "the same second or not"; the numbers of runs, attempts and calls
are sets of model values. There are no state constraints and no symmetry (most runs
check liveness or distinguish the values). `Talk` bounds the messages of a run,
`Redirects` and `MaxAddresses` the two inner loops of a request; the proofs hold for any
of them. Deadlock is checked where the model never stops: `Gateway` and `CliClient`,
where a reader is always enabled or a poll goes on, `TemplateCrawl` and `HttpClient`,
where time goes on, and `AgentMemory`, whose process restarts. `JobRouter`, `AgentGraph`,
`AgentNodes` and `DataProcessor` model a fixed number of requests, and end when these are
answered.

Four runs check a `TypeOK`; those of `Gateway`, `HttpClient`, `AgentMemory` and
`AgentNodes` are proved instead.

Every property of a passing run has a mutant in `PROJECT.json`: a version of one
definition with a plausible bug, written above the definition it replaces and named
after it (`CompleteJob_Swallowed`), under which the run finds the property violated.

### Fairness

- `Gateway`: `WF(RunStep(r))` for each run. An event loop runs what is ready, a Redis
  command answers or raises, and each call has a timeout and a bounded number of
  attempts (`service_caller.py`). Nothing is assumed of clients, crashes or removal.
- `JobRouter`: `WF(Step)`, without `HandlerEnds`: httpx enforces the timeouts, and the
  services are not trusted to answer. `Timeout` is what makes `execute` return.
- `AgentGraph`: `WF(RunStep(r))`. The fetch, the LLM, the sandbox and the webhook have
  timeouts of their own.
- `TemplateCrawl`: time passes, and a fetch ends because httpx follows 20 redirects at most
  and waits 30 seconds for each part of an answer. A site that sends a byte now and then for
  ever is outside: no timeout of the code ends such a get.
- `CliClient`: `WF(CliStep(r))` for the command, besides the fairness of the runs: polls go
  on, so one of them arrives, and each request is answered or raises after 30 seconds.
- `HttpClient`: time passes, and `WF(FetchStep(c))`: requests have timeouts and sleeps
  end. Nothing is assumed of `Start` and `Cancel`.
- `AgentNodes`: `WF(PassStep)` and `WF(Reap)`: fetches, renderings and LLM calls have timeouts,
  and an exited child is collected. `ProcessExits` is not fair: a program may run for
  ever, and the timeout of the test is what ends the pass.
- `AgentMemory` and `DataProcessor` have no liveness property: that a run ends is checked
  with `AgentGraph`, and after every request to MinIO the data processor answers.

### Where code and documentation disagree

The three violation runs show

- `gateway_restart`: the pipeline is a task in the memory of a worker (`crawl.py:81`);
  no durable worker exists, and a restart leaves its job `running` until the TTL.
- `router_partial`: a data-processor that answers `status = "failed"` with 200
  (`processor_service.py:81`) counts as processed, and the job is a success without
  clean records (`job_router.py:121`).
- `agent_robots`: the edge from `analyze_site` to `generate_code` is unconditional, and a
  cached crawler skips `analyze_site`, so code runs on the target after a refused
  preflight, or without any.

Met while modelling, visible in the models, and without a run of their own:

- `update_phase`, `complete_job` and `fail_job` HSET a key that a client may have deleted
  meanwhile, which creates it again without a TTL (`job_store.py:79`; `job_store.py:7`
  "Keys auto-expire after 24 hours"). `KeptKeysExpire` therefore exempts removed keys.
- `complete_job` writes the status first: `GET result` answers 404 for a completed job
  in between (`job_store.py:97`; `crawl.py:4`). It is the stage "publishing" of
  `JobLifecycle`.
- An id submitted again serves the result of its first run while it reads
  `submitted` (`crawl.py:119`; `crawl.py:112`). `StaleResultNeedsRerun` says that this is the
  only way to get a result of an unfinished job.
- The audit is sent by `fire_and_forget` and dropped after its attempts
  (`service_caller.py:85`; `audit.py:3` "100% audit trail coverage").
- `alert_human` writes nothing to the domain memory (`alert_human.py:5` says it does).
- The cleaner decodes entities after it has removed the tags (`cleaner.py:59`), and has
  no step that normalises URLs (`cleaner.py:5`).
- Completeness is measured on records that were selected for being complete, so it is
  100 % (`scorer.py:37`; `result.py:105`).
- `bucket_exists` and `make_bucket` are two requests; of two workers on a fresh
  installation the later one stores nothing (`storage.py:60`). `UnstoredHasReason` has
  a case for it.
- `max_records` is not passed to the scraper (`crawl_service.py:108`; `request.py:110`),
  and the rate limit (`request.py:160` "Requests per second limit") holds for the pages of one
  execution: not for a site with several executions, nor for the redirects of a page, which
  follow at once (`static_scraper.py:44`). Hence `EachKeepsPace`, which is about gets, and no
  bound on requests.
- `analyze` imports `check_robots_txt`, which does not exist, so it answers UNKNOWN for
  every page (`crawl_service.py:55`): `Analyzed` has no other answer.
- The format `delta` is written as JSON (`storage.py:62`). CSV of records with different
  keys, and Parquet of columns with mixed types, raise inside `store()`, which swallows it:
  a success without a path (`storage.py:98`; `storage.py:3` "Supports JSON, CSV, and Parquet
  output formats"). It is one of the reasons `UnstoredHasReason` names.
- The fallback of the renderer never works: `allowed_hosts` is handed on to httpx, which
  has no such argument (`analyze_site.py:137`). `FetchPage` has no other outcome.
- A sandbox started by the launcher belongs to root, so `killpg` is refused, the timeout is
  reported as an error and the process goes on to its own limits (`run_tests.py:297`).
  `OnlyWatchedCodeRuns` has a case for it.
- A run that resumes a thread's checkpoint saves messages of the earlier run again
  (`custom_agent_graph.py:237`), hence the condition in `NewMessagesSaved`.
- The limiter is acquired once per attempt, also when redirects and further addresses make
  several requests of it (`http_client.py:116`): `Paced` is about attempts. `acquire_sync`
  takes no lock, so threads may overlap.
- With `follow_redirects=False` any redirect raises "Too many redirects"
  (`http_client.py:132`), a host that does not resolve is an `UnsafeTargetError` and is not
  retried, and a `Retry-After` that is a date raises ValueError.
- The `crawl` command polls for ever when its job is gone or was lost with its worker
  (`cli.py:127`): the exceptions in `CliEnds`.


## 4. Proofs

Each proof module holds for every value of the constants; the only assumptions are the
named ones that type the constants (`GatewayAssumption`, `CliAssumption`,
`AttemptsAssumption`, `AgentAssumption`, `NodesAssumption`, `GateAssumption`,
`MemoryAssumption`, `LimiterAssumption`, `HttpAssumption`, `RecordsAssumption`,
`ProcessorAssumption`, `CrawlAssumption`). What they say beyond types: the fields of a
record are finitely many, an output is a list of JSON values,
and the names of deliveries are not those of the other makers of the bucket.
`LifecycleAlways` has the hypothesis of the promise itself, that each job id is submitted
once, which holds in `gateway_lifecycle`.

| Module | Theorem | States |
|---|---|---|
| `Gateway_proofs` | `TypeCorrect` | `Spec => []TypeOK` |
| | `NoOrphanAlways` | `Spec => []NoOrphan` |
| | `CompletedHasResultAlways` | `Spec => []CompletedHasResult` |
| | `KeptKeysExpireAlways` | `Spec => []KeptKeysExpire` |
| | `FailedNeedsFaultAlways` | `Spec => []FailedNeedsFault` |
| | `LifecycleAlways` | `Spec => ImplementsLifecycle`, where no id is submitted twice |
| | `ResultInvAlways` | `Spec => []ResultInv` |
| | `StaleResultNeedsRerunAlways` | `Spec => StaleResultNeedsRerun` |
| | `CliShowsOutcomeAlways` | `CliSpec => CliShowsOutcome` |
| `JobRouter_proofs` | `RouterTypeCorrect` | `Spec => []TypeOK` |
| | `HonestStatusAlways` | `Spec => []HonestStatus` |
| | `AgentIsFallbackAlways` | `Spec => []AgentIsFallback` |
| | `AuditAgreesAlways` | `Spec => []AuditAgrees` |
| | `NothingLateAlways` | `Spec => NothingLate` |
| | `RouterImplementsPipeline` | `Spec => P!Spec` |
| `AgentGraph_proofs` | `GraphTypeCorrect` | `Spec => []TypeOK` |
| | `EarnedSuccessAlways` | `Spec => []EarnedSuccess` |
| | `NoStaleRecordsAlways` | `Spec => []NoStaleRecords` |
| | `AlertHasAnalysisAlways` | `Spec => []AlertHasAnalysis` |
| | `ContextIsBackedAlways` | `Spec => []ContextIsBacked` |
| `HttpClient_proofs` | `PacedAlways` | `LimiterSpec => Paced` |
| | `ImplementsLimiter` | `Spec => LimiterSpec` |
| | `ClientPaced` | `Spec => Paced` |
| | `ClientTypeCorrect` | `Spec => []TypeOK` |
| | `GivesUpLateAlways` | `Spec => []GivesUpLate` |
| `AgentMemory_proofs` | `MemoryTypeCorrect` | `Spec => []TypeOK` |
| | `ProductionIsDurableAlways` | `Spec => []ProductionIsDurable` |
| | `BufferIsRecentAlways` | `Spec => []BufferIsRecent` |
| | `NewMessagesSavedAlways` | `Spec => []NewMessagesSaved` |
| `AgentNodes_proofs` | `NodesTypeCorrect` | `Spec => []TypeOK` |
| | `OnlyWatchedCodeRunsAlways` | `Spec => []OnlyWatchedCodeRuns` |
| | `ProvidersExhaustedAlways` | `Spec => []ProvidersExhausted` |
| | `PassedIsEarnedAlways` | `Spec => []PassedIsEarned` |
| | `NodesImplementPass` | `Spec => Pass!Spec` |
| `DataProcessor_proofs` | `ProcessorTypeCorrect` | `Spec => []TypeOK` |
| | `NothingLostAlways` | `Spec => []NothingLost` |
| | `KeptInOrderAlways` | `Spec => []KeptInOrder` |
| | `GradeIsEarnedAlways` | `Spec => []GradeIsEarned` |
| | `PathHoldsReplyAlways` | `Spec => []PathHoldsReply` |
| | `UnstoredHasReasonAlways` | `Spec => []UnstoredHasReason` |
| `TemplateCrawl_proofs` | `CrawlTypeCorrect` | `Spec => []TypeOK` |
| | `RecordsFollowLinksAlways` | `Spec => []RecordsFollowLinks` |
| | `EachKeepsPaceAlways` | `Spec => []EachKeepsPace` |

**Gateway.** The type invariant is inductive by itself. Each of the other invariants is
inductive together with `TypeOK`, because it is stated with the positions of the runs it
depends on: `NoOrphan` names the runs that may hold an unfinished job,
`CompletedHasResult` the runs between the two writes, `KeptKeysExpire` the runs that are
past `SetExpiry`, and `FailedNeedsFault` carries the conjunct that a run at `fail` had a
fault, without which its second conjunct is not preserved by `FailJob`. Each proof has one
step per action. The actions that write the status key all go through `StatusCommand`; for
each invariant one lemma (`OrphanCommand`, `ResultCommand`, `ExpiryCommand`,
`FaultCommand`) says under which conditions such a command preserves it, one (`...Goto`)
does so for a run that moves without writing, and the steps for the actions establish
those conditions. Job ids are not assumed distinct: the lemmas speak of all runs of a job.

The refinement of `JobLifecycle` compares the hash before and after a step, and so needs to
know how far it can be. `OnCourse` says it for each await of a run that is alone with its
job: nothing is there before the first command; while a phase is awaited the status is
unfinished and the progress at most what the phases before it stored (`Bound`, without
which a progress could fall); the status is completed before the result is stored; and who
is done has left an outcome. `CourseSteps` checks the awaits that follow one another.

`StaleResultNeedsRerun` follows from `ResultInv`: a stored result is that of a run of the
job that is past its last phase, and if a run has published, or is about to, while the
status is unfinished, another run of the id has begun.

**CliClient.** A step of the composition is one of `Gateway` or leaves it alone, so every
invariant above carries over. A command that fetches has polled a job that is over;
`OverStays` says that it still is when the answer comes, unless its keys were removed, as
`Once` makes its own run the only writer. `Culprits` says who can stop a run, so that a
command whose job nothing disturbs gets the result.

**JobRouter.** None of the properties is inductive: each speaks of the end of `execute`,
and what makes it true was learnt several awaits before. `Known` says what the locals
hold at each await (before the crawl there are no raw records; the agent is awaited only
after an answer without records; nothing is processed without records), `Trying` that an
attempt not yet sent is left, `Audited` that the audit log takes the status of the result
on the way to its post, and `Executing` what a handler that is still at work says of the
stages passed, which is what late handlers need. `NothingLate` and the refinement are
step properties that follow from the invariant; under the refinement mapping `execute`
steps to "stopped" when it is cancelled, also while its `finally` block posts the audit.

**AgentGraph.** A later run starts from a checkpoint and a context that other runs wrote,
so the invariant speaks of these as well: code is never kept without the analysis it was
written from (`Coherent`, in graph states and checkpoints, `CoherentContext` in the
context), from which `AlertHasAnalysis` follows on the cached way, and an artifact that is
on disk stays there. `RunInv` follows one run: what `decide_next` finds was either earned
by this run or has neither a passed test nor records, and what is `Final` stays so. The
lemma `MoveStep` says that a step of one run that keeps to its own variables and takes no
artifact away (`Moves`) preserves the part of the invariant about every other run; the
steps for the actions establish its conditions.

**RateLimiter** (in `HttpClient_proofs`)**.** `Paced` is an action property: when a time is
read for a request, the previous one is an interval old. It needs to know that a task
between its two accesses holds the lock (`LockIsHeld`), that without an overlap at most one
caller is there (`OneInside`), and that the time remembered is then the time of the last
request, however far the caller inside has come (`Recorded`).

**HttpClient.** Each step of the client is a step of the limiter or leaves it alone
(`LimiterStep`), so `Spec => LimiterSpec` and `Paced` carries over. `GivesUpLate` is
inductive with two facts about the loops: a request under way goes to an address that is
counted (`AddressLeft`), and a fetch that waits for its next attempt has one
(`AttemptLeft`).

**AgentMemory.** A run is under way only in a process that is up (`Hosted`), which types its
stores; a production process that is up works with the stores that last (`DurableInv`).
For `BufferIsRecent` the lemma `RecentAppend` says that appending to the buffer and to the
history, and trimming the buffer, keeps it the end of the history. `NewMessagesSaved` needs
two invariants. `SaidInv`: no buffer, checkpoint or run holds a message that was not said,
so a run that has said nothing finds none of its own. `SavedInv` follows a run: in its graph,
its own messages are the end of its list, and the rest is at least as long as the history
(as long, if the thread was new); from the end of the graph on, what it has saved and what
it has still to save is the list behind the history. `Moved` says that a save keeps the two
together the same.

**AgentNodes.** `Watched` says that there is no process before its launch, and that after
the policy check the code in the state is the one it accepted; `Settled` that records are
there only after the process of the test has ended. `NodesImplementPass` maps each await to
a step of `NodePass` or a stutter; it needs `Watched`, because a pass without code can
only fail its test. `PassedIsEarned` follows from `GateInv`: from the gate on, the
records are what `Normalized` makes of the output of a process that is over, and
`Complete`. The rest is about these two operators: `NormalizedKeeps` says that the list has
records of the output within the cap and none twice, `FewAreMissing` turns the threshold on
present values into one on missing ones.

**Loops over lists.** What a loop does to a list of any length is proved by induction, though
the library's induction theorems, which take an operator, cannot be used: `NatSetInduction`
states induction for a set of numbers, and follows from the theorem that a non-empty subset
of a well-founded set has a minimal element. `PrefixRecursion` concludes that a recursive
function on `0..Len(s)` exists and has the values its equation gives it, and
`PickedPrefixes` what `Picked` collects from each prefix. These lemmas are repeated in the
three proof modules whose components have such loops (`DataProcessor`, `TemplateCrawl`,
`AgentNodes`).

**DataProcessor.** `Picks` says that the k-th element of a list is the one at the k-th
position of a set (`Rank`). `PickedPicks` shows it of a comprehension, `PickedTwice` of two
in a row, and `DeduplicatePicks` of the deduplicator; together (`OutputPicks`) they give the
reply as the first occurrences of the usable records in their order, from which
`KeptInOrder` follows. `NothingLost` says without the cleaner what a field of the input
shows after cleaning; `CleanIsSeen` proves that cleaning does this to every value and
empties the fields without content, and `BatchNothingLost` puts the two together. For
`GradeIsEarned`, `ScoreBounds` bounds the scores the code computes and `GradeArithmetic`
compares them with the thresholds. The properties of the store rest on `StoreInv`, one
conjunct per attempt: who has answered is done (`Answered`); a path that was answered is the
attempt's own and holds the output of an attempt with the same path (`Held`); who is about
to make the bucket has not yet made it (`NotTheMaker`); and a success without a path has its
reason (`HasReason`). That another submission is to blame when the object is not the reply's
own is then a fact about `Path`.

**TemplateCrawl.** `EachKeepsPace` is not inductive: a call may wake up in every window.
`KeepsPace` adds that who has not begun, or has just woken, has no get in this window yet:
nothing is sent in a pause, and `Tick` wakes those who pause when the count starts again. A
redirect belongs to the get that is counted already, or is the first that the site has of it
in this window. `RecordsFollowLinks` rests on `CrawlInv`, which says for each await what the
loop has collected: before page `n` is fetched, its address is the `n`-th along the links
and the valid records so far are `FirstPages[n - 1]`. The code validates once, at the end,
and `FirstPages` page by page: `ValidatedConcat` says that it is the same. `WalkEnds` says
that there are no pages after a page without a link.

Only model-checked: the liveness properties, as TLAPS handles neither fairness nor ENABLED.
These are `CliEnds`, `EveryRunAnswered`, `EveryCallEnds`, `FetchEnds` and the fairness parts
of `ImplementsFairLifecycle`, `ImplementsPipeline` and `ImplementsPass`, whose safety parts
are proved (`LifecycleAlways`, `RouterImplementsPipeline`, `NodesImplementPass`). Every
other property of a passing run is a theorem.


## 5. Not modelled

- **Tracing and API key middleware**: keeps no state.
- **The other commands of the CLI** are one GET each.
- **Advisory agent memory** (error patterns, vector base, feedback): only enters prompts.
- **Clean-up of stale sandbox directories** at the start of the agent service: no run reads
  them.
- **Proxies**: the position in a list that no service fills.
- **Which URL is public, which HTML makes an item, which text the LLM writes**: inputs. The
  checks themselves (`sh/utils/network.py`, the policy) are one step each.
- **HTML, prompts, log and error texts, timestamps other than object names**: data no
  property depends on.
- **Configuration and deployment files**: their effects (two workers, eviction,
  restarts, retry limits) are constants and environment actions.
- **Detection of the web type** is lost in the code before it has an effect.


## 6. Plan

Done, in order of importance: `Gateway` with its proofs and `CliClient`, `JobRouter`,
`AgentGraph`, `Records` and `DataProcessor`, `TemplateCrawl`; then `AgentNodes` with
`RecordGate`, `AgentMemory`, `RateLimiter` and `HttpClient`; the proofs of section 4.

Next, models: repeated deliveries of `JobRouter` composed with concurrent runs of
`AgentGraph`.

Then, proofs:

1. What the refinements let a caller conclude: the promises of `Pipeline` and `JobLifecycle`
   as theorems about these modules (the progress never falls, an outcome is final).
2. That the replies of `TemplateCrawl` and `DataProcessor` are among the `Replies` of
   `JobRouter`.
3. A bound on the requests of the HTTP client's three nested loops.
