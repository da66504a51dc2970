---------------------------- MODULE JobExecution ----------------------------
(***************************************************************************)
(* Ownership and recovery of accepted background jobs in agent-svc         *)
(* (job_execution.py, store.py, worker.py, tasks.py, crawl_stream.py).     *)
(*                                                                         *)
(* A job is one Valkey record.  Every Lua script is one atomic step; a GET *)
(* followed by a SET is two.  A worker is a task of the TaskTracker or an  *)
(* inline SSE generator; between two awaits it runs without interruption   *)
(* by its own event loop, but threads of its process and other processes   *)
(* reach Valkey at any time.                                               *)
(*                                                                         *)
(* Time is kept relative: `lease' is the time left, and expiry is zero.    *)
(***************************************************************************)
EXTENDS Integers, FiniteSets

CONSTANTS Jobs,         \* job ids
          Procs,        \* API processes
          NoOwner,      \* lease_owner = nil
          Crawls,       \* jobs of kind crawl; every other job runs under
                        \* _run_job_with_observability
          Streams,      \* crawls submitted with an inline SSE response
          Legacy,       \* records written before the execution marker existed
          Unbuildable,  \* records whose payload _rebuild cannot turn into a worker
          Lease,        \* lease_seconds, in ticks
          MaxAttempts,  \* RetryPolicy.max_attempts
          MaxStops,     \* bound: how often a process may stop
          Faults        \* TRUE when the Valkey calls of the recovery loop, of
                        \* heartbeats and of webhook enqueues may raise

ASSUME JobConstants ==
    /\ Crawls \subseteq Jobs /\ Streams \subseteq Crawls
    /\ Legacy \subseteq Jobs /\ Unbuildable \subseteq Jobs
    /\ Lease \in Nat \ {0} /\ MaxAttempts \in Nat \ {0} /\ MaxStops \in Nat
    /\ Faults \in BOOLEAN
    /\ NoOwner \notin Procs \X {"task", "sse"}

VARIABLES meta,     \* job:{id}:meta, the fields the protocol reads
          outbox,   \* event fingerprints in job:{id}:webhooks
          worker,   \* the worker of each process, as a task or as an SSE stream
          bg,       \* deliver_webhook calls that have not enqueued yet
          scan,     \* records the recovery scan listed and has not handled yet
          marks,    \* the mark_outcome_unknown call the scan awaits, if any
          proc,     \* up | norecovery | stopping | down
          stops,    \* how often a process has stopped (bounded)
          claims    \* history: successful claims of each job

vars == <<meta, outbox, worker, bg, scan, marks, proc, stops, claims>>

\* A worker is a task registered with TaskTracker, or a generator that is not.
Slots == Procs \X {"task", "sse"}
TaskOf(p) == <<p, "task">>
SseOf(p) == <<p, "sse">>

Statuses == {"none", "processing", "retry_scheduled", "completed", "failed", "cancelled"}
States == {"none", "queued", "running", "completed", "failed", "cancelled", "outcome_unknown"}
\* failed_ok is the failed event built without success=False; unknown is the
\* failed event that carries OUTCOME_UNKNOWN.
Events == {"completed", "failed", "failed_ok", "unknown", "retry_scheduled"}
Pcs == {"none", "claiming", "work", "sched", "deliver_retry", "sleep", "resume",
        "deliver", "ending", "marking", "releasing"}
PastClaim == Pcs \ {"none", "claiming"}
Interruptible == {"claiming", "work", "deliver", "deliver_retry", "sleep"}

Meta == [status : Statuses, state : States, fence : Nat,
         owner : Slots \cup {NoOwner}, lease : 0..Lease]
Worker == [pc : Pcs, fence : Nat, attempt : 0..MaxAttempts, hb : {"on", "off"},
           ev : Events \cup {"none"}, buf : Meta]

NoMeta == [status |-> "none", state |-> "none", fence |-> 0,
           owner |-> NoOwner, lease |-> 0]
Idle == [pc |-> "none", fence |-> 0, attempt |-> 0, hb |-> "off",
         ev |-> "none", buf |-> NoMeta]

Live(m) == m.status \in {"processing", "retry_scheduled"}
\* Between the GET and the SET of schedule_retry or resume_retry.
InRetry(s, j) == worker[s][j].pc \in {"sched", "resume"}
Serving(p) == proc[p] \in {"up", "norecovery"}
Running(p) == proc[p] # "down"
Put(s, j, w) == worker' = [worker EXCEPT ![s][j] = w]
Write(j, m) == meta' = [meta EXCEPT ![j] = m]
\* An intent passed to a script is stored in the same script, when the script
\* changes the record.
Intent(j, m, events) ==
    outbox' = [outbox EXCEPT ![j] = IF m = meta[j] THEN @ ELSE @ \cup events]
Deliver(p, j, e) == bg' = [bg EXCEPT ![p] = @ \cup {<<j, e>>}]

-----------------------------------------------------------------------------
(* The Lua scripts, as functions of the record they are run on             *)

\* JobStore.create_job
Queued == [status |-> "processing", state |-> "queued", fence |-> 0,
           owner |-> NoOwner, lease |-> 0]

CanClaim(m) == m.status = "processing" /\ m.state = "queued"

\* _CLAIM_SCRIPT
Claimed(m, s) == [m EXCEPT !.state = "running", !.fence = @ + 1,
                           !.owner = s, !.lease = Lease]

Owns(m, s, fence) == m.owner = s /\ m.fence = fence

\* Mutation of Fenced: the status of the record is not looked at.
FencedBlind(m, s, fence, status) ==
    [m EXCEPT !.status = status, !.state = status, !.owner = NoOwner, !.lease = 0]

\* _COMPLETE_FENCED_SCRIPT and _FAIL_FENCED_SCRIPT: the record is left alone
\* unless the job is live and the caller holds an unexpired lease.
Fenced(m, s, fence, status) ==
    IF Live(m) /\ m.state # "none" /\ Owns(m, s, fence) /\ m.lease > 0
      THEN [m EXCEPT !.status = status, !.state = status, !.owner = NoOwner, !.lease = 0]
      ELSE m

\* _CANCEL_SCRIPT: a record without an execution marker only changes status.
CancelScript(m) ==
    IF ~Live(m) THEN m
    ELSE IF m.state = "none" THEN [m EXCEPT !.status = "cancelled"]
    ELSE [m EXCEPT !.status = "cancelled", !.state = "cancelled", !.fence = @ + 1,
                   !.owner = NoOwner, !.lease = 0]

\* _FAIL_UNKNOWN_SCRIPT, when its mode's condition `may' holds.
Unknown(m, may) ==
    IF ~(Live(m) /\ may) THEN m
    ELSE IF m.state = "none" THEN [m EXCEPT !.status = "failed"]
    ELSE [m EXCEPT !.status = "failed", !.state = "outcome_unknown",
                   !.owner = NoOwner, !.lease = 0]
UnknownStale(m) == Unknown(m, m.state = "running" /\ m.lease = 0)
UnknownOwner(m, s, fence) == Unknown(m, m.state # "none" /\ Owns(m, s, fence))
UnknownLegacy(m) == Unknown(m, m.state = "none")

\* _RELEASE_SCRIPT
Released(m, s, fence) ==
    IF m.state # "none" /\ Owns(m, s, fence)
      THEN [m EXCEPT !.owner = NoOwner, !.lease = 0]
      ELSE m

-----------------------------------------------------------------------------
(* Mutations of the actions below: what a plausible bug would make of them *)

\* Claim without the check that the record is still queued.
ClaimRunning(s, j) ==
    /\ worker[s][j].pc = "claiming"
    /\ IF meta[j].status = "processing"
         THEN /\ Write(j, Claimed(meta[j], s))
              /\ Put(s, j, [Idle EXCEPT !.pc = "work", !.fence = meta[j].fence + 1,
                                        !.attempt = 1, !.hb = "on"])
              /\ claims' = [claims EXCEPT ![j] = @ + 1]
         ELSE /\ Put(s, j, Idle)
              /\ UNCHANGED <<meta, claims>>
    /\ UNCHANGED <<outbox, bg, scan, marks, proc, stops>>

\* The mark at the end of a worker drops the webhook intent.
MarkNoIntent(s, j) ==
    /\ worker[s][j].pc = "marking"
    /\ Write(j, UnknownOwner(meta[j], s, worker[s][j].fence))
    /\ Put(s, j, [worker[s][j] EXCEPT !.pc = "releasing", !.hb = "off"])
    /\ UNCHANGED <<outbox, bg, scan, marks, proc, stops, claims>>

-----------------------------------------------------------------------------
(* Submission and the worker                                               *)

\* POST: create_job, then submit_job or stream_job.
Submit(p, j) ==
    /\ Serving(p) /\ meta[j].status = "none"
    /\ Write(j, Queued)
    /\ Put(IF j \in Streams THEN SseOf(p) ELSE TaskOf(p), j,
           [Idle EXCEPT !.pc = "claiming"])
    /\ UNCHANGED <<outbox, bg, scan, marks, proc, stops, claims>>

\* claim, on a thread; the worker coroutine starts only if it is granted.
Claim(s, j) ==
    /\ worker[s][j].pc = "claiming"
    /\ IF CanClaim(meta[j])
         THEN /\ Write(j, Claimed(meta[j], s))
              /\ Put(s, j, [Idle EXCEPT !.pc = "work", !.fence = meta[j].fence + 1,
                                        !.attempt = 1, !.hb = "on"])
              /\ claims' = [claims EXCEPT ![j] = @ + 1]
         ELSE /\ Put(s, j, Idle)
              /\ UNCHANGED <<meta, claims>>
    /\ UNCHANGED <<outbox, bg, scan, marks, proc, stops>>

\* A worker is an agent worker when _run_job_with_observability drives it.
Observed(s, j) == s[2] = "task" /\ j \notin Crawls

\* complete_job or fail_job, whose answer every worker ignores, followed by
\* deliver_webhook: awaited by an observed worker, in a background task by a
\* crawl.  An SSE crawl passes no intent.
Publish(s, j, status, intent, event, pending) ==
    LET m == Fenced(meta[j], s, worker[s][j].fence, status) IN
    /\ Write(j, m)
    /\ Intent(j, m, IF s[2] = "sse" THEN {} ELSE {intent})
    /\ bg' = [bg EXCEPT ![s[1]] = (@ \ pending) \cup {<<j, event>>}]
    /\ Put(s, j, [worker[s][j] EXCEPT
                    !.pc = IF Observed(s, j) THEN "deliver" ELSE "ending",
                    !.ev = event])
    /\ UNCHANGED <<scan, marks, proc, stops, claims>>

WorkSucceeds(s, j) ==
    /\ worker[s][j].pc = "work"
    /\ Publish(s, j, "completed", "completed", "completed", {})

\* The observed worker delivers its failure without success=False.
WorkFails(s, j) ==
    /\ worker[s][j].pc = "work"
    /\ Publish(s, j, "failed", "failed", IF Observed(s, j) THEN "failed_ok" ELSE "failed", {})

\* Batch scrape and plan execution read the store and stop on a DELETE.
WorkSeesCancel(s, j) ==
    /\ worker[s][j].pc = "work" /\ Observed(s, j)
    /\ meta[j].status = "cancelled"
    /\ Put(s, j, [worker[s][j] EXCEPT !.pc = "ending"])
    /\ UNCHANGED <<meta, outbox, bg, scan, marks, proc, stops, claims>>

\* RetryableRateLimitError: budget exhausted, or the GET of schedule_retry.
RateLimited(s, j) ==
    /\ worker[s][j].pc = "work" /\ Observed(s, j)
    /\ IF worker[s][j].attempt >= MaxAttempts
         THEN Publish(s, j, "failed", "failed", "failed", {})
         ELSE /\ Put(s, j, IF meta[j].status = "processing"
                             THEN [worker[s][j] EXCEPT !.pc = "sched", !.buf = meta[j]]
                             ELSE [worker[s][j] EXCEPT !.pc = "ending"])
              /\ UNCHANGED <<meta, outbox, bg, scan, marks, proc, stops, claims>>

\* The SET of schedule_retry, then the retry_scheduled event.
ScheduleRetry(s, j) ==
    /\ worker[s][j].pc = "sched"
    /\ Write(j, [worker[s][j].buf EXCEPT !.status = "retry_scheduled"])
    /\ Put(s, j, [worker[s][j] EXCEPT !.pc = "deliver_retry", !.buf = NoMeta,
                                      !.ev = "retry_scheduled"])
    /\ Deliver(s[1], j, "retry_scheduled")
    /\ UNCHANGED <<outbox, scan, marks, proc, stops, claims>>

\* deliver_webhook returns to the worker that awaits it.
Delivered(s, j) ==
    /\ worker[s][j].pc \in {"deliver", "deliver_retry"}
    /\ <<j, worker[s][j].ev>> \notin bg[s[1]]
    /\ Put(s, j, [worker[s][j] EXCEPT
                    !.pc = IF @ = "deliver" THEN "ending" ELSE "sleep", !.ev = "none"])
    /\ UNCHANGED <<meta, outbox, bg, scan, marks, proc, stops, claims>>

\* retry_sleep is over: the GET of resume_retry.
Wake(s, j) ==
    /\ worker[s][j].pc = "sleep"
    /\ Put(s, j, IF meta[j].status = "retry_scheduled"
                   THEN [worker[s][j] EXCEPT !.pc = "resume", !.buf = meta[j]]
                   ELSE [worker[s][j] EXCEPT !.pc = "ending"])
    /\ UNCHANGED <<meta, outbox, bg, scan, marks, proc, stops, claims>>

\* The SET of resume_retry; the loop starts the next attempt.
ResumeRetry(s, j) ==
    /\ worker[s][j].pc = "resume"
    /\ Write(j, [worker[s][j].buf EXCEPT !.status = "processing"])
    /\ Put(s, j, [worker[s][j] EXCEPT !.pc = "work", !.buf = NoMeta, !.attempt = @ + 1])
    /\ UNCHANGED <<outbox, bg, scan, marks, proc, stops, claims>>

\* The worker coroutine is over: _run and stream read the record once.
Ending(s, j) ==
    /\ worker[s][j].pc = "ending"
    /\ Put(s, j, IF meta[j].status = "processing"
                   THEN [worker[s][j] EXCEPT !.pc = "marking"]
                   ELSE [worker[s][j] EXCEPT !.pc = "releasing", !.hb = "off"])
    /\ UNCHANGED <<meta, outbox, bg, scan, marks, proc, stops, claims>>

\* mark_outcome_unknown(owner, fence); then the finally block stops the heartbeat.
Mark(s, j) ==
    LET m == UnknownOwner(meta[j], s, worker[s][j].fence) IN
    /\ worker[s][j].pc = "marking"
    /\ Write(j, m) /\ Intent(j, m, {"unknown"})
    /\ Put(s, j, [worker[s][j] EXCEPT !.pc = "releasing", !.hb = "off"])
    /\ UNCHANGED <<bg, scan, marks, proc, stops, claims>>

Release(s, j) ==
    /\ worker[s][j].pc = "releasing"
    /\ Write(j, Released(meta[j], s, worker[s][j].fence))
    /\ Put(s, j, Idle)
    /\ UNCHANGED <<outbox, bg, scan, marks, proc, stops, claims>>

\* One round of _heartbeat_loop; the loop ends when the lease is lost.
Heartbeat(s, j) ==
    LET held == Live(meta[j]) /\ Owns(meta[j], s, worker[s][j].fence) IN
    /\ worker[s][j].hb = "on"
    /\ IF held
         THEN Write(j, [meta[j] EXCEPT !.lease = Lease]) /\ UNCHANGED worker
         ELSE Put(s, j, [worker[s][j] EXCEPT !.hb = "off"]) /\ UNCHANGED meta
    /\ UNCHANGED <<outbox, bg, scan, marks, proc, stops, claims>>

-----------------------------------------------------------------------------
(* Cancellation, webhooks of finished workers                              *)

\* CancelledError in the worker of slot s: a claim that is not granted yet
\* simply ends; the observed worker only unwinds; a crawl at work still
\* delivers crawl.completed from a background task.
Interrupted(s, j) ==
    IF worker[s][j].pc = "claiming" THEN Idle
    ELSE [worker[s][j] EXCEPT !.pc = "ending", !.ev = "none"]
InterruptEvents(s, j) ==
    IF worker[s][j].pc = "work" /\ j \in Crawls THEN {<<j, "completed">>} ELSE {}

\* Cancelling a worker that awaits its claim does not stop the thread: the
\* claim may be granted to nobody.
ClaimGoesOn(s, j) ==
    \/ UNCHANGED <<meta, claims>>
    \/ /\ worker[s][j].pc = "claiming" /\ CanClaim(meta[j])
       /\ Write(j, Claimed(meta[j], s))
       /\ claims' = [claims EXCEPT ![j] = @ + 1]

\* DELETE: cancel_job, then TaskTracker.cancel_job on the task of this process.
\* Only the crawl route passes an intent.  A worker between the GET and the SET
\* of a retry holds the event loop of its process, and the handler with it.
Delete(p, j) ==
    LET m == CancelScript(meta[j])  s == TaskOf(p) IN
    /\ Serving(p) /\ Live(meta[j])
    /\ ~InRetry(s, j)
    /\ Write(j, m)
    /\ Intent(j, m, IF j \in Crawls THEN {"completed"} ELSE {})
    /\ IF worker[s][j].pc \in Interruptible
         THEN /\ Put(s, j, Interrupted(s, j))
              /\ bg' = [bg EXCEPT ![p] = @ \cup InterruptEvents(s, j)]
         ELSE UNCHANGED <<worker, bg>>
    /\ UNCHANGED <<scan, marks, proc, stops, claims>>

\* The SSE client goes away while the generator awaits its crawl: unless the
\* record is terminal the handler cancels the job and delivers crawl.completed.
Disconnect(p, j) ==
    LET s == SseOf(p) IN
    /\ worker[s][j].pc = "work"
    /\ Put(s, j, [worker[s][j] EXCEPT !.pc = "ending"])
    /\ IF Live(meta[j])
         THEN Write(j, CancelScript(meta[j])) /\ Deliver(p, j, "completed")
         ELSE UNCHANGED <<meta, bg>>
    /\ UNCHANGED <<outbox, scan, marks, proc, stops, claims>>

\* The SSE client goes away while the generator is suspended at a yield, or
\* while the claim is awaited: the generator is closed and its handlers do
\* not run.
StreamClosed(p, j) ==
    LET s == SseOf(p) IN
    /\ worker[s][j].pc \in {"claiming", "work"}
    /\ Put(s, j, Interrupted(s, j))
    /\ ClaimGoesOn(s, j)
    /\ UNCHANGED <<outbox, bg, scan, marks, proc, stops>>

\* enqueue_webhook of a deliver_webhook call.
Enqueue(p, j, e) ==
    /\ <<j, e>> \in bg[p]
    /\ outbox' = [outbox EXCEPT ![j] = @ \cup {e}]
    /\ bg' = [bg EXCEPT ![p] = @ \ {<<j, e>>}]
    /\ UNCHANGED <<meta, worker, scan, marks, proc, stops, claims>>

\* enqueue_webhook raises.  In a background task nobody notices.  An awaiting
\* worker falls into its `except Exception', which fails the job and delivers
\* again; raised from there, the error escapes to _run, which marks the job.
EnqueueRaises(p, j, e) ==
    LET s == TaskOf(p)
        awaited == worker[s][j].pc \in {"deliver", "deliver_retry"} /\ worker[s][j].ev = e
    IN
    /\ Faults /\ <<j, e>> \in bg[p]
    /\ IF awaited /\ e # "failed_ok"
         THEN Publish(s, j, "failed", "failed", "failed_ok", {<<j, e>>})
         ELSE /\ bg' = [bg EXCEPT ![p] = @ \ {<<j, e>>}]
              /\ IF awaited
                   THEN Put(s, j, [worker[s][j] EXCEPT !.pc = "marking", !.ev = "none"])
                   ELSE UNCHANGED worker
              /\ UNCHANGED <<meta, outbox, scan, marks, proc, stops, claims>>

-----------------------------------------------------------------------------
(* The recovery scan                                                       *)

\* list_processing_jobs, on a thread.
ScanStart(p) ==
    /\ proc[p] = "up" /\ marks[p] = {}
    /\ \A j \in Jobs : scan[p][j] = NoMeta
    /\ \E j \in Jobs : Live(meta[j])
    /\ scan' = [scan EXCEPT ![p] = [j \in Jobs |-> IF Live(meta[j]) THEN meta[j] ELSE NoMeta]]
    /\ UNCHANGED <<meta, outbox, worker, bg, marks, proc, stops, claims>>

\* TaskTracker.create_background_task keeps a task that is not done.
SubmitRecovered(p, j) ==
    IF worker[TaskOf(p)][j].pc = "none"
      THEN Put(TaskOf(p), j, [Idle EXCEPT !.pc = "claiming"])
      ELSE UNCHANGED worker

\* recover_queued_jobs, one listed record: the decision is made on the record
\* as it was listed.  A mark is run on a thread and awaited.
\* (Mutation of Marking: an expired lease is left alone.)
MarkingIgnoresStale(p, j) ==
    IF scan[p][j].state = "none" THEN {<<j, "legacy">>} ELSE {}
Marking(p, j) ==
    LET r == scan[p][j] IN
    IF r.state = "none" \/ (r.state = "queued" /\ j \in Unbuildable) THEN {<<j, "legacy">>}
    ELSE IF r.status = "retry_scheduled" \/ (r.state = "running" /\ r.lease = 0)
      THEN {<<j, "stale">>} ELSE {}
ScanStep(p, j) ==
    LET r == scan[p][j] IN
    /\ r # NoMeta /\ Running(p) /\ marks[p] = {} /\ ~InRetry(TaskOf(p), j)
    /\ scan' = [scan EXCEPT ![p][j] = NoMeta]
    /\ marks' = [marks EXCEPT ![p] = Marking(p, j)]
    /\ IF r.status = "processing" /\ r.state = "queued" /\ j \notin Unbuildable
         THEN SubmitRecovered(p, j)
         ELSE UNCHANGED worker
    /\ UNCHANGED <<meta, outbox, bg, proc, stops, claims>>

\* The script looks at the record as it is by then.
ScanMark(p, j, mode) ==
    LET m == IF mode = "stale" THEN UnknownStale(meta[j]) ELSE UnknownLegacy(meta[j]) IN
    /\ <<j, mode>> \in marks[p]
    /\ marks' = [marks EXCEPT ![p] = {}]
    /\ Write(j, m) /\ Intent(j, m, {"unknown"})
    /\ UNCHANGED <<worker, bg, scan, proc, stops, claims>>

\* Neither loop catches an error of the Valkey client, and neither is restarted.
RecoveryDies(p) ==
    /\ Faults /\ proc[p] = "up"
    /\ proc' = [proc EXCEPT ![p] = "norecovery"]
    /\ scan' = [scan EXCEPT ![p] = [j \in Jobs |-> NoMeta]]
    /\ marks' = [marks EXCEPT ![p] = {}]
    /\ UNCHANGED <<meta, outbox, worker, bg, stops, claims>>
HeartbeatDies(s, j) ==
    /\ Faults /\ worker[s][j].hb = "on"
    /\ Put(s, j, [worker[s][j] EXCEPT !.hb = "off"])
    /\ UNCHANGED <<meta, outbox, bg, scan, marks, proc, stops, claims>>

-----------------------------------------------------------------------------
(* Processes and time                                                      *)

\* TaskTracker.shutdown: the loops stop, and the workers are cancelled.
Shutdown(p) ==
    /\ Serving(p) /\ stops < MaxStops
    /\ proc' = [proc EXCEPT ![p] = "stopping"]
    /\ stops' = stops + 1
    /\ UNCHANGED <<meta, outbox, worker, bg, scan, marks, claims>>

\* The cancelled workers unwind, one at a time.
ShutdownWorker(p, j) ==
    LET s == TaskOf(p) IN
    /\ proc[p] = "stopping" /\ worker[s][j].pc \in Interruptible
    /\ Put(s, j, Interrupted(s, j))
    /\ bg' = [bg EXCEPT ![p] = @ \cup InterruptEvents(s, j)]
    /\ ClaimGoesOn(s, j)
    /\ UNCHANGED <<outbox, scan, marks, proc, stops>>

\* The process is gone, and every coroutine of it: at the end of a shutdown or
\* by a crash.
Gone(p) ==
    /\ proc' = [proc EXCEPT ![p] = "down"]
    /\ worker' = [s \in Slots |-> IF s[1] = p THEN [j \in Jobs |-> Idle] ELSE worker[s]]
    /\ bg' = [bg EXCEPT ![p] = {}]
    /\ scan' = [scan EXCEPT ![p] = [j \in Jobs |-> NoMeta]]
    /\ marks' = [marks EXCEPT ![p] = {}]
    /\ UNCHANGED <<meta, outbox, claims>>
Exit(p) == proc[p] = "stopping" /\ Gone(p) /\ UNCHANGED stops
Crash(p) == Serving(p) /\ stops < MaxStops /\ Gone(p) /\ stops' = stops + 1

Start(p) ==
    /\ proc[p] = "down"
    /\ proc' = [proc EXCEPT ![p] = "up"]
    /\ UNCHANGED <<meta, outbox, worker, bg, scan, marks, stops, claims>>

Aged(m) == IF m.lease > 0 THEN [m EXCEPT !.lease = @ - 1] ELSE m

\* One tick of the clock, for every copy of a record.
Tick ==
    /\ \E j \in Jobs : meta[j].lease > 0
    /\ meta' = [j \in Jobs |-> Aged(meta[j])]
    /\ scan' = [p \in Procs |-> [j \in Jobs |-> Aged(scan[p][j])]]
    /\ worker' = [s \in Slots |-> [j \in Jobs |-> [worker[s][j] EXCEPT !.buf = Aged(@)]]]
    /\ UNCHANGED <<outbox, bg, marks, proc, stops, claims>>

-----------------------------------------------------------------------------

Init ==
    /\ meta = [j \in Jobs |-> IF j \in Legacy THEN [NoMeta EXCEPT !.status = "processing"]
                                              ELSE NoMeta]
    /\ outbox = [j \in Jobs |-> {}]
    /\ worker = [s \in Slots |-> [j \in Jobs |-> Idle]]
    /\ bg = [p \in Procs |-> {}]
    /\ scan = [p \in Procs |-> [j \in Jobs |-> NoMeta]]
    /\ marks = [p \in Procs |-> {}]
    /\ proc = [p \in Procs |-> "up"]
    /\ stops = 0
    /\ claims = [j \in Jobs |-> 0]

\* The steps a worker takes by itself.
WorkerStep(s, j) ==
    \/ Claim(s, j) \/ WorkSucceeds(s, j) \/ WorkFails(s, j) \/ WorkSeesCancel(s, j)
    \/ RateLimited(s, j) \/ ScheduleRetry(s, j) \/ Delivered(s, j) \/ Wake(s, j)
    \/ ResumeRetry(s, j) \/ Ending(s, j) \/ Mark(s, j) \/ Release(s, j)

Next ==
    \/ \E s \in Slots, j \in Jobs :
          WorkerStep(s, j) \/ Heartbeat(s, j) \/ HeartbeatDies(s, j)
    \/ \E p \in Procs, j \in Jobs :
          \/ Submit(p, j) \/ Delete(p, j) \/ Disconnect(p, j) \/ StreamClosed(p, j)
          \/ ScanStep(p, j) \/ ShutdownWorker(p, j)
          \/ \E e \in Events : Enqueue(p, j, e) \/ EnqueueRaises(p, j, e)
          \/ \E mode \in {"stale", "legacy"} : ScanMark(p, j, mode)
    \/ \E p \in Procs :
          \/ ScanStart(p) \/ RecoveryDies(p)
          \/ Shutdown(p) \/ Exit(p) \/ Crash(p) \/ Start(p)
    \/ Tick

Spec == Init /\ [][Next]_vars

\* Worker coroutines make progress (every external call of a worker has a
\* timeout), the event loop runs ready tasks, the recovery loop comes round
\* every RECOVERY_INTERVAL_SECONDS, compose restarts a stopped process, and
\* time passes.  Heartbeats are not assumed to be on time.
Fairness ==
    /\ \A s \in Slots, j \in Jobs : WF_vars(WorkerStep(s, j))
    /\ \A p \in Procs, j \in Jobs : WF_vars(ScanStep(p, j)) /\ WF_vars(ShutdownWorker(p, j))
    /\ \A p \in Procs, j \in Jobs, e \in Events : WF_vars(Enqueue(p, j, e))
    /\ \A p \in Procs, j \in Jobs, mode \in {"stale", "legacy"} : WF_vars(ScanMark(p, j, mode))
    /\ \A p \in Procs : WF_vars(ScanStart(p)) /\ WF_vars(Exit(p)) /\ WF_vars(Start(p))
    /\ WF_vars(Tick)

FairSpec == Spec /\ Fairness

-----------------------------------------------------------------------------
(* Properties                                                              *)

\* Type correctness.  A lease is never longer than lease_seconds, and no worker
\* starts more attempts than its RetryPolicy allows.
TypeOK ==
    /\ meta \in [Jobs -> Meta]
    /\ outbox \in [Jobs -> SUBSET Events]
    /\ worker \in [Slots -> [Jobs -> Worker]]
    /\ bg \in [Procs -> SUBSET (Jobs \X Events)]
    /\ scan \in [Procs -> [Jobs -> Meta]]
    /\ marks \in [Procs -> SUBSET (Jobs \X {"stale", "legacy"})]
    /\ proc \in [Procs -> {"up", "norecovery", "stopping", "down"}]
    /\ stops \in Nat
    /\ claims \in [Jobs -> Nat]

\* ADR-0072: claimed work is never replayed.  Whatever crashes, restarts, scans
\* of old records and racing submissions do, a job's claim is granted at most
\* once and at most one worker of any process is ever past it.
NeverReplayed ==
    \A j \in Jobs :
       /\ claims[j] <= 1
       /\ \A s, t \in Slots :
             worker[s][j].pc \in PastClaim /\ worker[t][j].pc \in PastClaim => s = t

\* The lease in the record is the lease of the worker that runs: no other
\* worker's claim, release or write-back ever takes it from under a worker that
\* is executing, except by ending the job or by its own release.
OwnerIsTheWorker ==
    \A j \in Jobs, s \in Slots :
       meta[j].owner \in Slots /\ worker[s][j].pc \in PastClaim => meta[j].owner = s

Terminal(m) == m.status \in {"completed", "failed", "cancelled"}

\* The detailed protocol implements the lifecycle the API promises.
PhaseOf(m) ==
    IF m.status = "none" THEN "absent"
    ELSE IF ~Live(m) THEN m.status
    ELSE IF m.state = "queued" THEN "accepted" ELSE "executing"
Phases == [j \in Jobs |-> PhaseOf(meta[j])]
Lifecycle == INSTANCE JobLifecycle WITH phase <- Phases

\* Every step of processes, workers, scans and clients is a step of the
\* lifecycle or changes nothing a client of the job API can see; in particular
\* the late writes of a worker, of the scan and of DELETE leave a terminal
\* record alone.
ImplementsLifecycle == Lifecycle!Spec

\* ADR-0072: terminal state and its webhook intent are written together, so
\* that a crash between publication and delivery loses nothing.  (A cancelled
\* job has an intent only on the crawl route.)
IntentRecorded ==
    \A j \in Jobs :
       /\ meta[j].status = "completed" => "completed" \in outbox[j]
       /\ meta[j].status = "failed" => outbox[j] \cap {"failed", "unknown"} # {}

\* ADR-0072: a lost lease keeps the old worker from publishing a terminal
\* state, to webhook receivers too: no job is announced both as completed and
\* as failed.
NoContradictoryEvents ==
    \A j \in Jobs :
       ~("completed" \in outbox[j] /\ outbox[j] \cap {"failed", "failed_ok", "unknown"} # {})

\* Every accepted job is resolved: dispatched if it was never claimed, failed
\* as OUTCOME_UNKNOWN if its worker disappeared.
EventuallyTerminal ==
    \A j \in Jobs : Live(meta[j]) ~> Terminal(meta[j])
=============================================================================
