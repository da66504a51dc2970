# A TLA+ model of GroktoCrawl

GroktoCrawl turns crawling, scraping, search and research requests into jobs
that run for seconds to minutes, call paid or slow services, and are watched,
cancelled and notified about by their clients. What is hard to get right in it
is not any one computation but what happens when several of them meet: a job
whose process dies, a lease that expires under a worker that is still running,
a client that disconnects between two writes, a queue whose head is cancelled.
The modules here model those parts of the code and check them with TLC, and
TLAPS proves the safety properties of all of them for every size of the system.

Contents: [the system](#the-system), [the modules](#the-modules),
[the runs](#the-runs), [what the runs found](#what-the-runs-found),
[the proofs](#the-proofs), [what is not modelled](#what-is-not-modelled),
[the plan](#the-plan).

## The system

| Part | Where | State it owns | Modelled by |
|---|---|---|---|
| API service | `agent-svc/agent` | routes, background tasks, recovery loops; one FastAPI process, one event loop, a synchronous Valkey client called through threads or inline | `JobExecution`, `LiveResearch`, `CrawlEngine`, `Admission` |
| Job records | Valkey, through `store.py` and `job_execution.py` | `job:{id}:meta`, leases, the webhook outbox | `JobExecution`, `JobLifecycle` |
| Research ledger | Valkey, through `experimental/durable_research.py` | one record per run: lease, generation, receipts of paid operations, notification | `ResearchLedger` |
| Artifact authority | PostgreSQL, through `experimental/source_store.py` | committed artifact roots, tombstones, the advisory execution lock | `LiveResearch` |
| Crawl engine | `agent-svc/agent/crawler.py`, `dedup.py` | queue, seen set, retry counts and results of one crawl | `CrawlEngine` |
| Admission control | `common/admission.py` | budget and FIFO queue per class of work | `Admission` |
| Webhook outbox | Valkey, through `store.py`; `webhook.py` | one hash of events per job, claims on them | `WebhookOutbox` |
| Research sessions | `agent-svc/agent/session*.py`, `routes/documents.py` | a handful of Valkey keys per session, a leased lock, reservations | `ResearchSession` |
| Research memory | `agent-svc/agent/research_memory*.py` | artifacts in Valkey, vectors in Qdrant and PostgreSQL | `ResearchMemory` |
| Scraper | `scraper-svc/scraper` | browser pool, politeness reservations, cache | `BrowserPool`; the rest is not modelled |
| Portal | `portal-svc/portal` | circuit breaker towards the API | `CircuitBreaker` |
| Monitors | `agent-svc/agent/monitor.py` | Valkey records | not modelled |
| Browser service | `browser-svc` | interactive browser sessions | not modelled |
| Semantic, parse, MCP, capture-egress, flare-control, LLM fixture | own directories | little or none | not modelled |

How they interact: a client submits a job to the API service, directly, over
MCP or over the portal, which protects itself with the circuit breaker. The API
service writes the job's record, starts a worker task and answers. The worker
claims the record's lease, passes admission control, calls the scraper (which
takes a browser from its pool), search and LLM services, and publishes a
terminal state together with a webhook intent, which delivery tasks and replays
of any process then carry to the receiver. A recovery loop in every process
scans for records nobody has claimed and for leases that have expired. Live
research follows its own protocol: the ledger in Valkey fences the worker and
records an intent and a receipt around each paid call, while PostgreSQL decides
whether a result exists. Sessions let a client build up research step by step:
their requests meet in Valkey, under a lock or through reservations. Answers
worth keeping go to the research memory, which spans three stores without a
transaction.

`PROJECT.json` lists all 34 parts with the reason for each one left out, maps
each definition to the lines it models, and lists the hazards of the code with
the properties that cover them.

## The modules

The same reading of the code is used throughout. The services are asyncio
programs, so a stretch of code without an `await` is one action and every
`await` is a boundary at which other tasks run and at which the task may be
cancelled. A Lua script is one atomic step; a `GET` followed by a `SET` is two.
A call handed to a thread is a boundary as well. Time is relative: a lease
either still has time left or has expired, a cooldown has passed or has not.
Storage errors, crashes and shutdowns are actions, drawn from a named budget.
Contents of pages, prompts and reports are not represented, except for what the
protocol compares (a page's content hash, a canonical URL, a record's fence).

### Admission

`common/admission.py`, for one resource class; classes share nothing. `active`
is `_active[class]`, `queue` the FIFO of waiters, `task[c]` where caller `c`
stands. `Acquire` is the synchronous part of `acquire()`: oversized requests are
rejected, a caller is admitted if nobody waits and it fits, rejected if the
queue is full, and queued otherwise. The single await of `acquire()` splits the
rest: `_drain` resolves a future (`granted`), the task resumes later (`Resume`),
and cancellation can come before the grant (`withdrawn`) or after it
(`revoked`). `HandleCancelled` is the `except` block, `Release` is `release()`
with its `_drain`. `MCAdmission` supplies five callers of weights 1, 2, 2, 3
and 4 for a budget of 3, so that the last one is rejected as oversized.

### CircuitBreaker

`common/circuit_breaker.py` and the two proxy streams in
`portal-svc/portal/app.py` that use it. `check()`, `record_success()` and
`record_failure()` hold a lock and never await inside it: each is an action.
Between its `check()` and its outcome a request is in `inflight`, and outcomes
arrive in any order and any state. `Outcomes` names the ways a proxied call can
end; two of them record nothing. `probes` is a history variable: who was let
through in the present half-open window.

### JobExecution and JobLifecycle

`job_execution.py`, `store.py`, `worker.py`, `tasks.py` and the job side of
`crawl_stream.py`. `meta[j]` is the Valkey record reduced to the fields the
protocol reads: status, execution state, fence, owner and the lease time left.
A worker is a tracked task or an inline SSE generator (`Slots`), and its `pc`
names the await it is at. The scripts are operators on records
(`Claimed`, `Fenced`, `CancelScript`, `Unknown`, `Released`), applied in one
step. `schedule_retry` and `resume_retry` read a record and
write it back later, so the model keeps the copy (`buf`) between the two.
Actions cover submission, claim, heartbeat, success, failure, rate limiting,
retry, delivery, release, `DELETE`, client disconnect, the recovery scan with
its separately awaited marks, graceful shutdown, crash and restart. A claim
runs in a thread that outlives the task or the stream awaiting it, so it may be
granted to nobody (`ClaimGoesOn`). With
`Faults` a Valkey call of the recovery loop, of a heartbeat or of a webhook
enqueue may raise; neither loop catches that, so it ends for good. A raised
call in a worker's own path is its failure path (`WorkFails`); a script that
took effect although its answer was lost is not modelled.

`JobLifecycle` is what the job API promises: a job is accepted once,
dispatched at most once and resolved at most once. `JobExecution` maps its
records to these phases (`Lifecycle`). A run checks the refinement, and where
no job is retried a theorem states it.

### ResearchLedger and LiveResearch

`ResearchLedger` has the Lua scripts of `durable_research.py` as operators from
a record to a record: admit, claim, renew, begin an operation, record its
receipt, complete, fail, cancel, delete, and the claim and completion of a
notification. `LiveResearch` composes them with the routes in
`routes/experimental_research.py`, the runner in `experimental/live_runner.py`,
the PostgreSQL root and advisory lock, and the notification loop in
`experimental/research_notifications.py`. Each process has a local run record
and its lock (`run`, `rlock`), at most one worker, one request being answered
at a time, and a sender. `dispatched` and `sent` are histories of the calls
made to the outside.

Some abstractions are worth knowing. A script handed to a thread takes effect
before its task is cut or not at all. A lease that nobody renews lapses at an
arbitrary moment. The faults, `MaxFaults` of them, are a crash, a storage call
of the worker that raises (in the phases of `ErrorAt`; at the claim also after
it took effect), a wait for the execution lock that exceeds `lock_timeout`, a
live lease that is lost, and a lost execution lock: the connection that holds it
sits idle while its holder works through others, PostgreSQL ends it
(`source_store.py:96`), and the holder learns of it when it leaves the section
(`LockLost`, `Leaves`; `lost` remembers it).

### BrowserPool

`scraper-svc/scraper/browser_pool.py` as `fetch_tiers.py` uses it. Every block
under the pool's condition is an action. `req[r]` is a request's task,
`browser[b]` a native process together with its pool entry, `launching` and
`closings` the pool's two reservation counters, `shut` the progress of
`close()`. A request can be cancelled at each await; native launches and closes
are shielded and finish on their own, as in the code. Age and idle limits are
abstracted: an unleased process may expire whenever the reaper looks.

### CrawlEngine

`CrawlEngine.run` of `crawler.py` with `dedup.py`. The main task seeds the queue
from the sitemap (cut to the limit first, then without low-value, repeated and
start URLs), dispatches up to `Concurrency` scrape tasks, waits, drains and
returns; `Scrape` steps run only while the main task awaits (`Yielded`). A task
is created (`DispatchTask`), starts (`Begin`), is held by the delay between
scrapes and by admission, and asks the scraper for its page (`Fetch`); `late`
counts those requests that are made after the job was cancelled.
A scrape may succeed, fail and back off, raise, turn out to be a duplicate by
canonical URL or by content, or need a second fetch for its HTML. `Interrupt`
cancels `run()` at any await, `Expire` is the cancel token or the time limit
seen at the head of the loop, and `CancelJob` is `DELETE` in the store. A cache
hit is a successful scrape. `MCCrawlEngine` supplies a site of five pages that
link to one another, with a canonical alias, a content duplicate and a filtered
page, and a sitemap with a low-value URL, a repeated one and the start URL.

### WebhookOutbox

The outbox scripts of `store.py`, `webhook.py`, and the replay that
`job_execution.py` and `routes/crawl.py` start. An event is one built intent.
The terminal script of a job stores it (`StoreIntent`), and so does
`deliver_webhook`, which also schedules a delivery (`DeliverWebhook`): both
build the event anew, with an id of its own, and the fingerprint key makes the
second one an alias of the first (`Canonical`). The fingerprint covers the
success flag and the error (`Fingerprint`). Most callers build the two intents
alike; an ordinary failure does not: it is recorded with `success=False` and its
error (`worker.py:248`) and delivered with `success=True` and none
(`worker.py:257`), so it is stored, and goes out, under two ids. A delivery task claims an event
for 30 seconds, checks the destination, posts up to `MaxRetries` times and
records an outcome, each after an await. The claim is not renewed: `Lapse` may
take it from a task that is still sending, and `Lose` ends a task with its
process. `Listed` is the window of one replay in the order of `SCAN`.

### ResearchSession

One session and the requests on it. `meta`, `log`, `refs`, `artifact`, `docs`,
`idem` and `lock` are the session's keys, reduced to which step or document an
entry belongs to. Each script of `session_store.py` is an action. A serialized
step (`gather` stands for search, scrape and deepen; `query`), a document
operation and the attachment of a research root (`AttachResearch`, with the
revision its client expects) go through `AcquireLock`, `CheckPending`, their reads, and up to three
separate writes that each compare the owner inside the script (`MayWrite`). An
independent step goes through `Reserve`, its remote work and `Commit`. The
client reads its clock before it sends the commit script, so the model keeps
what that clock will say (`fresh`) apart from the lease itself. Leases lapse at
any moment, whether or not the heartbeat or the holder is alive. `Cancel` is a
cancellation or an error at any await; store calls run shielded in threads, so
a call has taken effect or not by the time the clean-up runs. `Raises` is an
error of the call that takes or returns the lock or the reservation, after which
nothing is cleaned up (at most `MaxRaises` of them). A worker that dies takes no further step, and no fairness is assumed. The session can be
deleted or expire between any two steps. `Legacy` steps stand for a session
written before the step counter existed.

### ResearchMemory

`store`, `delete` and `sweep` of `research_memory.py` in its three vector modes,
and the migration command beside it. `data`, `qd` and `pg` are the ids present
in Valkey, Qdrant and PostgreSQL. Every call to an index is an action of its own
that may fail, and a failed write may have been applied. `delete` orders its two
stores by which index is authoritative, as the code does. The sweep lists,
checks each artifact, deletes, and may be overtaken between any two of these.
`CopyRead` and `CopyWrite` are backfill and restore, `VerifyRead` and
`VerifyEnd` the parity check, which reads the two sides one after the other.
`Restart` recreates the service in any mode and cuts off whatever is in flight.

## The runs

From this directory, `tlc -config <cfg> <module>` repeats a run.

| Run | Module, configuration | Properties | Distinct states |
|---|---|---|---|
| admission | `MCAdmission`, `Admission.cfg` | BudgetConserved, NoOvertaking, ServedUnlessRevoked | 2,479 |
| breaker | `CircuitBreaker`, `CircuitBreaker.cfg` | OneProbePerWindow, ClosedBelowThreshold, OpenIsProbed | 1,094 |
| jobs | `JobExecution`, `JobsObserved.cfg` | NeverReplayed, OwnerIsTheWorker, IntentRecorded | 511,357 |
| jobs_resolve | `JobExecution`, `JobsResolve.cfg` | ImplementsLifecycle, EventuallyTerminal | 17,314 |
| research | `LiveResearch`, `LiveResearch.cfg` | DispatchedOnce, CommittedWins, AmbiguityReported, CallbacksFaithful, OutcomeIsFinal | 1,737,068 |
| research_settles | `LiveResearch`, `ResearchSettles.cfg` | RunsSettle, CallbacksSettle | 118,544 |
| browser_pool | `BrowserPool`, `BrowserPool.cfg` | ProcessesBounded, LeasesExact, NothingLeft, RequestsServed, CloseEnds | 203,401 |
| crawl | `MCCrawlEngine`, `CrawlEngine.cfg` | FetchesBounded, SettledOnce, Accounted, LateFetchesBounded, CrawlEnds | 790,277 |
| sessions | `MCResearchSession`, `MCResearchSession.cfg` | IndicesUnique, OneStepPerKey, OwnerReadsCurrent, AnsweredComplete, NothingLeftBehind | 1,295,010 |
| webhooks | `MCWebhookOutbox`, `MCWebhookOutbox.cfg` | OneSender, SettledIsFinal, EventuallySettled | 78,945 |
| memory | `ResearchMemory`, `ResearchMemory.cfg` | AcknowledgedIndexed, VerifiedCutover, ArtifactsLeaveKnowingly, OrphansSwept | 742,913 |

One more run, jobs_lost_lease, ends in a counterexample and is described
[below](#what-the-runs-found). Each property of each passing run comes with a
mutant, a definition next to the one it would replace that makes the mistake
the property guards against (a dropped guard, a missing refund, a lost wakeup);
TLC finds the property violated when the mutant takes its place. Type
correctness is a conjunct of one of the run's invariants; for JobExecution it is
a theorem of its own, and for CircuitBreaker a part of the inductive invariant.

**admission.** With every caller cancellable at every point of its wait, the
weight admitted stays within the budget, the counter is exactly what the
callers own, nobody is admitted past a waiter ahead of it, and every waiter is
served in the end, through waiters cancelled at the front of the queue, unless
a grant is cancelled before its task resumes (why, is told below). Budget 3 and
queue capacity 3 with weights 1 to 4 produce fast admissions, partial drains,
a full queue and an oversized request; with fewer callers no drain would grant
two waiters and stop at a third.

**breaker.** Four requests and threshold 3 leave one request to be in flight
across a whole open and half-open cycle, which is what makes stale outcomes
interesting. A half-open window admits one request, a closed circuit has
counted fewer failures than the threshold, and an open circuit is probed even
if late failures keep restarting the cooldown.

**jobs.** One job under the retrying wrapper, two processes, two attempts, one
stop (crash or shutdown), and failing Valkey calls in the loops and enqueues. The job is claimed once,
its lease is its worker's, and a completed or failed record has its webhook
intent. Two processes are what it takes for a recovery scan to meet a foreign
worker; a lease of one tick may expire under a worker between any two of its
steps, and a longer one only delays that.

**jobs_resolve.** An SSE crawl that races the recovery scan, its client and
`DELETE`, next to a record written by a release without the execution marker.
The protocol implements `JobLifecycle`, and both jobs reach a terminal status
wherever the client or the process disappears. There is one process and no
failing call here: a raised call kills the recovery loop in the code, and then
nothing is guaranteed until the next restart.

**research.** Two processes share one run of one paid operation, with one
fault of those above. No paid call
is made twice; PostgreSQL and the ledger do not disagree on the outcome, as long
as no live holder lost the execution lock (after that, a cancellation that found
no root and the publication can both succeed, which TLC shows when `~lost` is
taken out of `CommittedWins`); a
failure with an unreceipted call says `outcome_unknown`; callbacks carry the
ledger's outcome; outcomes are final. Requests and callbacks reach one of the two processes; the other
only recovers and executes. Two requests answered by different processes at
the same time are therefore outside this instance.

**research_settles.** One process, the same faults: an admitted run reaches an
outcome unless its recovery window closes first, and an outcome's callback is
delivered, rejected or given up. The property names one exception: a storage
error before the claim marks the run failed in the process
(`experimental_research.py:873`), and every worker that recovery starts there
returns at once (line 717), so that only a restart or another process takes the
run up.

**browser_pool.** Three requests for two domains and one process slot, so that
a request must evict another domain's process or wait for it, while launches
fail, requests are cancelled and the service shuts down. The bound counts
processes still being launched for cancelled requests and processes still
closing. Safety was also checked once with two slots and three browsers (1.24
million states).

**crawl.** Page limits 0 (none), 1 and 2, depth 2, two concurrent tasks, all
three sitemap modes, every outcome of every scrape in every order, the job
cancelled at any await. Pages a and b link to each other, so that a page is
rediscovered during its own backoff, which is the case `FetchesBounded` and
`Accounted` are about. After a cancel at most `Concurrency` pages are still asked
of the scraper: the status is read at the head of the loop only, and a task that
is held by the delay (which makes the concurrency one) or by admission goes on.
The page itself is what is counted; a task in flight may also still fetch its
HTML (`crawler.py:1276`, `1375`).

What `Accounted` says of the start URL excludes a limit of one page. There it
does not hold: the
comment at `agent-svc/agent/crawler.py:602` says the sitemap is truncated to
"reserve 1 for start URL", but for `max_pages` 1 nothing is truncated and the
sitemap's first URL takes the only page.

**sessions.** Three requests, each of any kind, two idempotency keys, two
fingerprints, two documents, two research runs to attach; one reservation at a time and one document are the
limits, so that both are met. Three requests are what it takes for a worker
that lost its lease, the one that took over and a retry to be there at once.
Step indices and idempotency keys are used once, whoever ends up doing the
work. What a lock owner has read stays current for as long as it owns the lock,
with one exception that the property names: a commit compares the reservation's
expiry with a clock its client read earlier and never looks at the lock, so one
that is overtaken by its own expiry lands inside somebody's serialized step. A
step answered as done is complete, a deleted session stays deleted, and the
document quota holds although it is checked on a snapshot. A request that ended
holds nothing, with a second exception: `acquire_lock` and `step` clean up after
a cancellation, but not when the acquisition or the reservation itself raises
after it took effect, nor when the release does. One such error is allowed; it
leaves the lock or the reservation to its lease. Requests, keys and documents
are symmetric; the run checks invariants only, for which that is sound.

**webhooks.** Two intents that are alike, and a third with the other success flag
that its receiver never takes and that is first in every scan; two delivery
tasks; two faults, each a task that dies or a claim that a task outlives. The
intents of one fingerprint become one id, and the third keeps its own; while its
claim has not lapsed a task is the recorded owner of its event, also when one that
outlived an earlier claim records its result; `delivered` means a
receiver answered; settled events stay settled; and an event with a live
receiver is settled in the end. With a window of one event instead of two,
EventuallySettled fails: the event of the dead receiver stays pending and fills
the window of each replay. The code's window is 500 (`store.py:643`). Faults are
finite because a delivery that outlives its claim every time is never recorded.

**memory.** Two memories in all modes, with every index call failing or not and
one restart into any mode. A memory acknowledged in the pgvector mode keeps its
row whatever the sweep lists and when; a verified cutover loses none; an
artifact leaves only for a reason its caller can see; vectors without an
artifact are swept in the end. Two ids are enough for the sweep and the
migration command to hold one while the other changes. The model follows the
runbook where the code relies on it: `verify` runs while no store is in flight
("while writes are paused or during a quiet window"), without which
VerifiedCutover fails, because a store whose mirror write failed can reach
Qdrant after `verify` has read it.

### Deadlock and fairness

Deadlock checking is off where the modelled system really stops: the job runs
(all jobs resolved and no stop left), the pool (all requests done and the pool
closed), the session (all requests ended and the session gone) and the outbox
(all events settled). `LiveResearch` and the others keep it on.

| Module | Fair steps | Why |
|---|---|---|
| Admission | resuming, handling a cancellation, releasing | the loop runs ready tasks; holders release in a `finally` |
| CircuitBreaker | the cooldown, the end of a call, a check that may probe | time passes, the API ends its streams (the portal itself sets no timeout), and users keep asking: without a request nobody probes. The set of requests is finite, so the end of calls also stands for fresh requests |
| JobExecution | a worker's own steps, scans and marks, webhook enqueues, shutdown steps, restart, the clock | every external call has a timeout, the scan repeats at an interval, compose restarts the service. Heartbeats are *not* fair: they may always be late |
| LiveResearch | workers, handlers, recovery and notification loops; strongly, whoever waits for a lock; an unrenewed lease lapses | `asyncio.Lock` and PostgreSQL advisory locks queue their waiters; a wait longer than `lock_timeout` raises, which is one of the faults |
| BrowserPool | a request's own steps, native launch and close, `close()` | page loads have timeouts and native calls end; arrival, cancellation, expiry and shutdown are not fair |
| CrawlEngine | the main task, scrape tasks | a scrape has a timeout, a backoff takes seconds |
| WebhookOutbox | replays, the steps of a task, the lapse of a claim; strongly, the claim of a listed event and the answer of a live receiver | replays repeat, posts have timeouts, claims end by the clock; a live receiver that is asked again and again answers |
| ResearchMemory | the steps of the sweep; strongly, each of its deletions | the sweep loop never ends, and an index that is asked again and again deletes |
| ResearchSession | none | safety only |

## What the runs found

The run jobs_lost_lease (`JobExecution`, `JobsLostLease.cfg`) checks
`NoContradictoryEvents` and fails. ADR 0072 says "A lost lease prevents the old
worker from publishing terminal state."; the worker ignores that its completion
was refused and delivers `completed` after `OUTCOME_UNKNOWN` was announced
(`agent-svc/agent/worker.py:213`).

Three more properties state a sentence of the repository and do not hold. They
are kept in their modules; each line gives what it takes to see it.

| Property | The repository says | The code does | To repeat it |
|---|---|---|---|
| Admission, WaitersServed | acquire "admits immediately when capacity is available, otherwise enqueues a bounded FIFO waiter" (ADR 0051) | a waiter cancelled after its grant refunds its weight without `_drain` (`common/admission.py:193`); if nobody else holds units, the waiters behind it are never woken | `Admission.cfg` with WaitersServed as its only property |
| CircuitBreaker, HalfOpenDecides | the breaker "temporarily short-circuits requests" (`common/circuit_breaker.py:4`) | a probe answered 4xx records nothing (`portal-svc/portal/app.py:104`); the circuit stays half-open and refuses everybody | `CircuitBreaker.cfg` with HalfOpenDecides as its only property |
| LiveResearch, LocalFailureIsDurable | "Terminal failures and cancellation survive process loss; process-local status is synchronized from the durable ledger." (ADR 0070) | a storage error before the claim marks the run failed in the process only (`agent-svc/agent/routes/experimental_research.py:873`); the ledger keeps it admitted | `Spec` with NumOps 1, MaxNoteTries 1, Procs and Clients {p1}, no Senders, ErrorAt {"enter"}, MaxFaults 1 |

The two liveness counterexamples are found under the fairness of the table
above: in the first every holder has released and every ready task has run; in
the second the probe has ended and users keep asking.

Smaller observations from modelling, none of them a property of a run:

- A queued record that `_rebuild` cannot turn into a worker is marked without
  `stale` (`agent-svc/agent/job_execution.py:328`), and that mode of the script
  leaves a record with an execution marker alone: the job is not failed but
  stays queued until it expires. `JobsNoneForgotten` calls
  such a record claimable; `EventuallyTerminal` is checked without one.
- ADR 0072 says outbox events "have a lease so only one process sends a record
  at a time"; the 30 second claim is not renewed, while destination checks and
  three posts can take longer, so two may. `OneSender` is stated for claims
  that have not lapsed.
- A destination that cannot be resolved for a while is abandoned for good, as
  one that is not allowed is.
- `memory:index`, "SET of all active memory_ids" in ADR 0041, is not pruned when
  an artifact expires.
- Streams that share a background refresh of a memory await its task itself
  (`research/streaming.py:91`), so one client that disconnects cancels it for
  all of them; `start_refresh` says concurrent callers share one task.
- In the shadow mode rows of PostgreSQL without an artifact are not swept until
  the cutover. Restoring Qdrant does not ask for writes to be paused, so
  memories stored between the restore and the switch are not in Qdrant.
- A store error in the call that acquires the session lock or reserves a step
  (`session_store.py:939` and `session.py:317` handle a cancellation only), or in
  the one that releases them, leaves the session locked, or the reservation
  pending, until the lease lapses.
- A serialized session step that fails half-way leaves its history entry or
  references behind; ADR 0063 says so, and `AnsweredComplete` is about answered
  steps.

## The proofs

`tlapm` checks eight modules: `CommonProofs` for the two components of `common/`
(it extends `Admission` and `CircuitBreaker`, which is why the latter's `Init`,
`Next`, `Spec` and `TypeOK` carry the prefix `Breaker`), and one beside each of
the others. A proof uses the named assumption of the module it is about and
nothing else, so a theorem holds for every value of the constants: any number of processes,
requests, jobs, keys or pages, and any number of faults. The theorem of a
property names the definition that the run checks; the others state what no run
checks as a property of its own.

| Theorem | States | Beyond the assumption |
|---|---|---|
| AdmissionBudget, AdmissionFifo | BudgetConserved, NoOvertaking | |
| AdmissionLine | each pending waiter is in the bounded queue exactly once, and nobody else is but cancelled waiters about to leave | |
| AdmissionDrainComplete | when `release()` returns, the queue is empty or its first waiter is pending and does not fit | |
| AdmissionAttended | while anybody is queued, somebody admitted is still to release | no grant is cancelled before its task resumes |
| BreakerOneProbe, BreakerClosedBelow | OneProbePerWindow, ClosedBelowThreshold | |
| JobsTypeCorrect, JobsNeverReplayed, JobsOwnerIsTheWorker | types (no worker starts more attempts than the policy allows), NeverReplayed, OwnerIsTheWorker | |
| JobsIntentsStored | a completed or failed job outside the inline streams has its webhook intent | |
| JobsIntentRecorded | IntentRecorded | `Streams = {}`, as in the run |
| JobsOnlyRetriesReopen | every step moves a job along JobLifecycle, but for the two unfenced SETs of its retry path, which may put it back to executing | |
| JobsNoneForgotten | a job that is not terminal can still be claimed, or the scan's mark settles its record, at the latest when its lease has run out | |
| JobsImplementLifecycle | the refinement of JobLifecycle | `NoRetries`: one attempt, or only crawls |
| ResearchDispatchedOnce, ResearchCommittedWins, ResearchAmbiguityReported, ResearchCallbacksFaithful, ResearchOutcomeIsFinal | the five safety properties of LiveResearch | |
| PoolProcessesBounded, PoolLeasesExact, PoolNothingLeft | the three of BrowserPool | |
| PoolNoLostWakeup | a request sleeps on the condition only while it can neither share, recycle nor launch, and while a lease, a launch or a close that will notify is outstanding | |
| CrawlFetchesBounded, CrawlSettledOnce, CrawlAccounted, CrawlLateFetchesBounded | the four of CrawlEngine | |
| SessionIndicesUnique, SessionOneStepPerKey, SessionOwnerReadsCurrent, SessionAnsweredComplete, SessionNothingLeftBehind | the five of ResearchSession | |
| OutboxOneSender, OutboxSettledIsFinal | the two of WebhookOutbox | |
| MemoryAcknowledgedIndexed, MemoryVerifiedCutover, MemoryArtifactsLeaveKnowingly | the three of ResearchMemory | |

Each component has an inductive invariant (`IInv`; `AdmissionInv` and
`BreakerInv` in `CommonProofs`), which TLC checked on the
component's instance before it was proved, and three facts about it: it holds
initially, every step keeps it, and it implies the property. None of the
invariants of the runs is inductive as it stands. Three of the theorems have an
extra hypothesis because the code needs it. A streamed crawl publishes its
terminal status without storing an intent. A retry writes back a record that it
read before, without a fence, and can undo a terminal status;
`JobsOnlyRetriesReopen` says that nothing else can. A cancelled grant is
refunded without waking the queue.

The larger proofs share a plan. Lemmas first say what a script or a helper does
to the fields of a record. Then every action is summarised as one of a few
turns, by what it changes outside its own task. Each conjunct of `IInv` is then
carried over each turn.

*Admission* (`AdmissionAssumption`: finitely many callers, positive weights, the
budget and the capacity are numbers). `BudgetConserved` is not inductive: that a
grant moves the counter by the weight of the new owners needs that a caller
stands in the queue at most once, and that whoever is popped and pending owns
nothing yet. `LineInv` says so. Three things carry the proof. The weight of a
set of callers is the number of its units, pairs of a caller and a number up to
its weight, so that sums are cardinalities of disjoint unions (`WeightOfUnion`).
`Drained` is shown to be the loop's exit (`DrainedIsLoop`): every waiter popped
was done or fitted, and the next one is pending and does not fit; that what was
granted fits as a whole follows with the least-number principle (`DrainedFits`).
And `_drop_waiter` takes out one waiter and keeps the order of the others
(`DropWaiterLine`). `AdmissionAttended` is the part of `ServedUnlessRevoked` that
is a safety property: `acquire` queues only behind units in use, `_drain` stops
only there, and a cancelled waiter takes no owner away.

*Breaker* (`BreakerAssumption`: the threshold is positive, failures are counted
at least up to it, the outcomes are among the five). `OneProbePerWindow` does not say that the probe flag is set.
`WindowInv` does: in a half-open window the flag is set and exactly one request
has been let through, because the only way into the window is the `check()` that
takes the probe.

*Jobs* (`JobConstants`: the kinds of jobs are subsets of the jobs, the lease and
attempts are positive, `NoOwner` is no worker). A claim needs a queued record,
and nothing makes a record queued again; but `schedule_retry` and
`resume_retry` write back a record read earlier. So the invariant speaks of
these copies as well:

- `ClaimedOnce`: a record that is absent or queued was never claimed, and a
  worker past its claim was granted it;
- `BufferKept`: the copy a retry will write back is not queued, and its owner is
  the retrying worker or nobody;
- `AttemptsLeft`: only a worker with attempts left is in a retry.

The intents, the refinement and `JobsOnlyRetriesReopen` rest on `Turns`: what one
action can do to one record together with its outbox. The SET of a retry is a
turn of its own; `BufferKept` is why it cannot make a record queued again.
`JobsNoneForgotten` adds that a live record, and the copy a retry holds, is in a
state the scan has a case for (`RecordsScannable`).

*Research* (`ResearchConstants`: clients and senders are processes, the fault
budget is a number). `LocksHeld` says which process can be in which section of
the execution lock while none was lost, `Generations` which generation the lease in Valkey names and
who still holds an older one, `CallsPending` that a call made is an intent in
the ledger, `RootGuarded` what a publisher knows between its heartbeat and its
commit, `PendingReported` and `CallbacksCounted` what a failing worker and a
claimed callback will say.

*Browser pool* (`PoolConstants`: a positive limit, finitely many process
identities and more than the limit, none of them named like a marker).
`Counted` is the heart: `_launching` is the number of launches that have not
returned plus the processes nobody has registered, and `_closing_processes` the
number of those closing or not yet accounted for. `Bound` says in whose hands a
process is after its request was cancelled, `Leased` who holds a lease,
`Drained` what `close()` has already seen gone. `PoolNoLostWakeup` is proved from
`WaitersBlocked`, action by action: a block either ends in `notify_all()` and
leaves nobody waiting, or frees nothing a waiter could use.

*Crawl* (`CrawlConstants`: the site is finite, links, sitemap and canonical URLs
stay within it, the concurrency is positive).
`_seen` is not the set of fetched URLs, since a failing URL leaves it before its
backoff. `Tried` relates it to the retry count, `InFlight` and `Settled` give
each URL to one task and one result. `Accounted` needs the most: where a URL is
while it is neither a page nor an error (`Owed`: at work, backing off, or at the
front of the queue), that such URLs count against `max_pages` (`Reserved`), and
that only the truncated sitemap stands before the start URL (`Reaches`,
`Arrives`). `LateFetchesBounded` needs that the tasks which have not asked for
their page yet and the late requests together are no more than the concurrency,
and that none of the latter was made while tasks are still being created
(`Ceasing`). That `Kept` returns a sequence is proved by induction on its length,
with the least-number principle (`Least`, from `WFMin`).

*Sessions* (`SessionConstants`: the limits are numbers, the modes are known, the
names of requests, documents and runs are distinct). `IInv` relates four records
the code keeps apart: the counters bound every index given out (`Numbered`), the
idempotency hash names the requests at work, or whose release failed, and the
steps published (`Reserved`, `KeysLogged`), a task knows what it has written (`Written`, `RefsSeen`), and the
owner of the lock that saw no pending reservation knows that none is live
(`NoneLive`).

*Webhooks* (`OutboxConstants`: ranks are distinct, attempts and the window are
positive, `Nobody` and `Gone` are no tasks). `OneSender` says nothing of the
owner recorded for an event; `OwnersSend` and `TasksAtWork` say that it is a task
at work on that event which knows when its claim has lapsed, and `Earned` that a
recorded delivery was answered.

*Memory* (`MemoryConstants`: restarts are counted). A sweep, a migration and a
verification act on listings that are old by then. `DoomedGone`, `CopyCurrent`
and `MirrorKept` say what these still mean: an id is stored once, so an artifact
found missing stays missing, and nothing is being stored while verify runs.
`DeleteOrdered` says that between the row and the artifact of a delete in the
pgvector mode nothing brings the row back.

What stays with TLC, and why:

- liveness (EventuallyTerminal, OpenIsProbed, RunsSettle, CallbacksSettle,
  RequestsServed, CloseEnds, CrawlEnds, ServedUnlessRevoked, EventuallySettled,
  OrphansSwept): TLAPS does not reason about fairness here. Of three of them the
  safety half is proved: nobody waits in the admission queue or on the pool's
  condition without somebody who will wake it (AdmissionDrainComplete,
  AdmissionAttended, PoolNoLostWakeup), and no live job is out of the scan's
  reach (JobsNoneForgotten);
- `IntentRecorded` with inline streams and the refinement with retries, which do
  not hold in general, and that the definitions mean what the code does: the
  mutants and the map are for that.

## What is not modelled

Within the modelled parts:

- admission: metrics, and the optional timeout, which no caller passes;
- jobs: what a worker computes, the 24-hour expiry of records, the limit of 500
  records per scan, running without a coordinator, a script whose answer is
  lost after it took effect;
- research: fixture runs, runs without PostgreSQL, reads of artifacts, workspace
  follow-ups, backup snapshots, expiry of the ledger record, the limits on the
  number of operations and the size of a ledger record;
- browser pool: a failed start of the Playwright controller, a second
  cancellation of the same request, a steady stream of requests for one domain
  that starves a waiter for another;
- crawl: URL normalisation, link extraction, filters and sitemap parsing, which
  are data here, and the progress written to the store. The callbacks in the
  repository put into an unbounded queue and never suspend on an error; a
  suspending callback would open another window;
- webhooks: the 24-hour expiry of the outbox, signatures and payloads, and
  delivery without an outbox, which stores nothing;
- sessions: what a step finds, reads outside a step, the limit of 256 references
  (a refusal is a failed call), and the events told to the client;
- memory: similarity and freshness grading, the single flight of background
  refreshes, failing Valkey calls, and a clock that differs between Valkey and
  PostgreSQL (an artifact and its row expire at one moment).

Whole parts: 24 components are listed in `PROJECT.json` as not modelled, each
with its reason. Most are stateless (clients, adapters, extraction, parsing,
network policy), offline (experiments, scripts, evaluations) or observation
only (metrics, logs). Of those with state of their own, politeness reserves
slots across replicas in one script, which leaves nothing to interleave, and
within a replica the staggering one would state does not hold (a rollback
clears the slot others stagger behind, `politeness.py:501`); monitors and the
scrape cache read an entry and write it back whole, so that the last writer
wins, and a model would only restate that.

## The plan

1. **Browser service sessions** (`browser-svc`): creation, execution, expiry and
   removal of a bounded number of sessions on one event loop.
2. **Crawl stream** (`crawl_stream.py`): the queue between the engine and the
   client's event stream, composed with `CrawlEngine` on a smaller site.
3. **Sessions with live research**: the references of an attached root, composed
   with `LiveResearch`'s deletion of it.

Proofs, next: that every process counted as launching is in the hands of a
request (`Bound` says it in the other direction), and the safety half of
RunsSettle, that a run whose lease has lapsed is one recovery will find.
