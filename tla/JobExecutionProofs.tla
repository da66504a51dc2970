------------------------- MODULE JobExecutionProofs -------------------------
(***************************************************************************)
(* Proofs about JobExecution, for any number of jobs, processes, attempts  *)
(* and stops, with and without failing Valkey calls.                       *)
(*                                                                         *)
(* A claim needs a queued record, and nothing turns a record back into a   *)
(* queued one.  That is not inductive by itself, since schedule_retry and  *)
(* resume_retry write back a record they read earlier: the invariant also  *)
(* speaks of these buffered copies.                                        *)
(*                                                                         *)
(* The second half reads every action as one of a few turns of one record  *)
(* and its outbox (Turns).  From them follow the intent stored with a      *)
(* terminal status and, where nothing is retried, the refinement of        *)
(* JobLifecycle.                                                           *)
(***************************************************************************)
EXTENDS JobExecution, TLAPS

RetryPcs == {"sched", "deliver_retry", "sleep", "resume"}

\* A worker past its claim has begun an attempt; only an observed worker with
\* attempts left schedules a retry.
AttemptsLeft ==
    \A s \in Slots, j \in Jobs :
       /\ worker[s][j].pc \in PastClaim => worker[s][j].attempt >= 1
       /\ worker[s][j].pc \in RetryPcs =>
             worker[s][j].attempt < MaxAttempts /\ Observed(s, j)

\* Only a streamed crawl has a worker that the TaskTracker does not know.
StreamsOnly ==
    \A s \in Slots, j \in Jobs :
       s[2] = "sse" /\ worker[s][j].pc # "none" => j \in Streams

\* A record that does not exist or is queued was never claimed; a worker past
\* its claim was granted it.
ClaimedOnce ==
    \A j \in Jobs :
       /\ claims[j] \in {0, 1}
       /\ meta[j].status = "none" \/ meta[j].state = "queued" => claims[j] = 0
       /\ \A s \in Slots : worker[s][j].pc \in PastClaim => claims[j] = 1

\* The copy a retry writes back is not queued and belongs to nobody else.
BufferKept ==
    \A s \in Slots, j \in Jobs :
       worker[s][j].pc \in {"sched", "resume"} =>
          /\ worker[s][j].buf.status # "none"
          /\ worker[s][j].buf.state # "queued"
          /\ worker[s][j].buf.owner \in {s, NoOwner}

IInv == TypeOK /\ NeverReplayed /\ OwnerIsTheWorker
        /\ AttemptsLeft /\ StreamsOnly /\ ClaimedOnce /\ BufferKept

-----------------------------------------------------------------------------
(* The scripts and the two ways of updating a function                     *)

\* What no script but the claim does to a record: create it, queue it, or give
\* its lease to somebody.
Tame(m, n) ==
    /\ n.status = "none" => m.status = "none"
    /\ n.state = "queued" => m.state = "queued"
    /\ n.owner = m.owner \/ n.owner = NoOwner

\* Completion, failure, cancellation, marking and release map records to
\* records, and are tame.
LEMMA Scripts ==
    ASSUME NEW m \in Meta, NEW s \in Slots, NEW fence \in Nat,
           NEW status \in Statuses \ {"none"}, status \in States, status # "queued"
    PROVE  /\ Fenced(m, s, fence, status) \in Meta /\ Tame(m, Fenced(m, s, fence, status))
           /\ CancelScript(m) \in Meta /\ Tame(m, CancelScript(m))
           /\ UnknownStale(m) \in Meta /\ Tame(m, UnknownStale(m))
           /\ UnknownLegacy(m) \in Meta /\ Tame(m, UnknownLegacy(m))
           /\ UnknownOwner(m, s, fence) \in Meta /\ Tame(m, UnknownOwner(m, s, fence))
           /\ Released(m, s, fence) \in Meta /\ Tame(m, Released(m, s, fence))
  <1>0. 0 \in 0..Lease /\ Lease \in 0..Lease
    BY JobConstants DEF JobConstants
  <1> USE <1>0 DEF Meta, Tame, Live, Owns, Statuses, States
  <1>1. Fenced(m, s, fence, status) \in Meta /\ Tame(m, Fenced(m, s, fence, status))
    BY Zenon DEF Fenced
  <1>2. CancelScript(m) \in Meta /\ Tame(m, CancelScript(m))
    <2>1. m.fence + 1 \in Nat
      OBVIOUS
    <2>2. CASE Live(m) /\ m.state # "none"
      <3>1. CancelScript(m) = [m EXCEPT !.status = "cancelled", !.state = "cancelled",
                                        !.fence = @ + 1, !.owner = NoOwner, !.lease = 0]
        BY Zenon, <2>2 DEF CancelScript
      <3> QED
        BY Zenon, <2>1, <3>1
    <2>3. CASE ~(Live(m) /\ m.state # "none")
      BY Zenon, <2>3 DEF CancelScript
    <2> QED
      BY Zenon, <2>2, <2>3
  <1>3. ASSUME NEW may \in BOOLEAN
        PROVE  Unknown(m, may) \in Meta /\ Tame(m, Unknown(m, may))
    BY Zenon DEF Unknown
  <1>4. Released(m, s, fence) \in Meta /\ Tame(m, Released(m, s, fence))
    BY Zenon DEF Released
  <1> QED
    BY Zenon, <1>1, <1>2, <1>3, <1>4 DEF UnknownStale, UnknownLegacy, UnknownOwner

\* Writing one record, and putting one worker, leave the others alone.
LEMMA WriteOne ==
    ASSUME meta \in [Jobs -> Meta], NEW j \in Jobs, NEW m \in Meta, Write(j, m)
    PROVE  /\ meta' \in [Jobs -> Meta] /\ meta'[j] = m
           /\ \A k \in Jobs : k # j => meta'[k] = meta[k]
  BY Zenon DEF Write
LEMMA PutOne ==
    ASSUME worker \in [Slots -> [Jobs -> Worker]],
           NEW s \in Slots, NEW j \in Jobs, NEW w \in Worker, Put(s, j, w)
    PROVE  /\ worker' \in [Slots -> [Jobs -> Worker]] /\ worker'[s][j] = w
           /\ \A t \in Slots, k \in Jobs : t # s \/ k # j => worker'[t][k] = worker[t][k]
  BY Zenon DEF Put
LEMMA Constants == NoMeta \in Meta /\ Idle \in Worker /\ Queued \in Meta /\ NoOwner \notin Slots
  BY JobConstants DEF JobConstants, NoMeta, Idle, Queued, Meta, Worker, Statuses, States, Pcs, Slots

\* A step that grants no claim preserves the invariant when it writes records
\* tamely, brings no worker past its claim and buffers only what it just read.
LEMMA QuietStep ==
    ASSUME IInv, TypeOK', AttemptsLeft', StreamsOnly', claims' = claims,
           \A j \in Jobs : Tame(meta[j], meta'[j]),
           \A s \in Slots, j \in Jobs :
              /\ worker'[s][j].pc \in PastClaim => worker[s][j].pc \in PastClaim
              /\ worker'[s][j].pc \in {"sched", "resume"} =>
                    \/ worker[s][j].pc = worker'[s][j].pc /\ Tame(worker[s][j].buf, worker'[s][j].buf)
                    \/ worker'[s][j].buf = meta[j] /\ meta[j].status # "none"
    PROVE  IInv'
  <1>1. NeverReplayed'
    BY Zenon DEF IInv, NeverReplayed
  <1>2. OwnerIsTheWorker'
    BY Zenon, Constants DEF IInv, OwnerIsTheWorker, Tame
  <1>3. ClaimedOnce'
    BY Zenon DEF IInv, ClaimedOnce, Tame
  <1>4. BufferKept'
    <2> SUFFICES ASSUME NEW s \in Slots, NEW j \in Jobs,
                        worker'[s][j].pc \in {"sched", "resume"}
                 PROVE  /\ worker'[s][j].buf.status # "none"
                        /\ worker'[s][j].buf.state # "queued"
                        /\ worker'[s][j].buf.owner \in {s, NoOwner}
      BY Zenon DEF BufferKept
    <2>1. CASE worker[s][j].pc = worker'[s][j].pc /\ Tame(worker[s][j].buf, worker'[s][j].buf)
      BY Zenon, <2>1 DEF IInv, BufferKept, Tame
    <2>2. CASE worker'[s][j].buf = meta[j] /\ meta[j].status # "none"
      <3>1. worker[s][j].pc \in PastClaim
        BY Zenon DEF PastClaim, Pcs
      <3>2. meta[j].state # "queued"
        BY <3>1 DEF IInv, ClaimedOnce
      <3>3. meta[j].owner \in Slots \cup {NoOwner}
        BY Zenon DEF IInv, TypeOK, Meta
      <3>4. meta[j].owner \in {s, NoOwner}
        BY Zenon, <3>1, <3>3 DEF IInv, OwnerIsTheWorker
      <3> QED
        BY Zenon, <2>2, <3>2, <3>4
    <2> QED
      BY Zenon, <2>1, <2>2
  <1> QED
    BY Zenon, <1>1, <1>2, <1>3, <1>4 DEF IInv

\* The types of what neither lemma above speaks of.
OthersOK ==
    /\ outbox \in [Jobs -> SUBSET Events]
    /\ bg \in [Procs -> SUBSET (Jobs \X Events)]
    /\ scan \in [Procs -> [Jobs -> Meta]]
    /\ marks \in [Procs -> SUBSET (Jobs \X {"stale", "legacy"})]
    /\ proc \in [Procs -> {"up", "norecovery", "stopping", "down"}]
    /\ stops \in Nat

\* What a quiet step may put in the place of the worker of slot s.
Follows(s, j, w) ==
    LET v == worker[s][j] IN
    /\ w \in Worker
    /\ w.pc # "none" => v.pc # "none" \/ s[2] # "sse"
    /\ w.pc \in PastClaim => v.pc \in PastClaim /\ w.attempt = v.attempt
    /\ w.pc \in RetryPcs => w.attempt < MaxAttempts /\ Observed(s, j)
    /\ w.pc \in {"sched", "resume"} => \/ v.pc = w.pc /\ v.buf = w.buf
                                       \/ w.buf = meta[j] /\ meta[j].status # "none"

\* The shape of most actions: one record written tamely, one worker moved on.
LEMMA OneStep ==
    ASSUME IInv, NEW s \in Slots, NEW j \in Jobs, NEW m \in Meta, NEW w,
           Write(j, m), Tame(meta[j], m),
           Put(s, j, w), Follows(s, j, w),
           claims' = claims, OthersOK'
    PROVE  IInv'
  <1>1. /\ meta \in [Jobs -> Meta] /\ worker \in [Slots -> [Jobs -> Worker]]
        /\ claims \in [Jobs -> Nat] /\ w \in Worker
    BY Zenon DEF IInv, TypeOK, Follows
  <1>2. /\ meta' \in [Jobs -> Meta] /\ meta'[j] = m
        /\ \A k \in Jobs : k # j => meta'[k] = meta[k]
    BY Zenon, <1>1, WriteOne
  <1>3. /\ worker' \in [Slots -> [Jobs -> Worker]] /\ worker'[s][j] = w
        /\ \A t \in Slots, k \in Jobs : t # s \/ k # j => worker'[t][k] = worker[t][k]
    BY Zenon, <1>1, PutOne
  <1>4. TypeOK'
    BY Zenon, <1>1, <1>2, <1>3 DEF TypeOK, OthersOK
  <1>5. AttemptsLeft' /\ StreamsOnly'
    BY <1>3 DEF IInv, AttemptsLeft, StreamsOnly, Follows
  <1>6. \A k \in Jobs : Tame(meta[k], meta'[k])
    BY Zenon, <1>2 DEF Tame
  <1>7. ASSUME NEW t \in Slots, NEW k \in Jobs
        PROVE  /\ worker'[t][k].pc \in PastClaim => worker[t][k].pc \in PastClaim
               /\ worker'[t][k].pc \in {"sched", "resume"} =>
                     \/ worker[t][k].pc = worker'[t][k].pc /\ Tame(worker[t][k].buf, worker'[t][k].buf)
                     \/ worker'[t][k].buf = meta[k] /\ meta[k].status # "none"
    BY Zenon, <1>3 DEF Follows, Tame
  <1> QED
    BY Zenon, <1>4, <1>5, <1>6, <1>7, QuietStep

\* Leaving the records or the workers alone is writing what was there.
LEMMA Same ==
    ASSUME TypeOK, NEW s \in Slots, NEW j \in Jobs
    PROVE  /\ UNCHANGED meta => Write(j, meta[j])
           /\ UNCHANGED worker => Put(s, j, worker[s][j])
           /\ meta[j] \in Meta /\ worker[s][j] \in Worker /\ Tame(meta[j], meta[j])
  BY Zenon DEF TypeOK, Write, Put, Tame

-----------------------------------------------------------------------------
(* The worker's own steps                                                  *)

LEMMA PublishStep ==
    ASSUME IInv, NEW s \in Slots, NEW j \in Jobs, NEW status \in {"completed", "failed"},
           NEW intent \in Events, NEW event \in Events, NEW pending,
           worker[s][j].pc \in PastClaim,
           Publish(s, j, status, intent, event, pending)
    PROVE  IInv'
  <1> DEFINE m == Fenced(meta[j], s, worker[s][j].fence, status)
             w == [worker[s][j] EXCEPT !.pc = IF Observed(s, j) THEN "deliver" ELSE "ending",
                                       !.ev = event]
  <1>1. TypeOK /\ meta[j] \in Meta /\ worker[s][j] \in Worker /\ worker[s][j].fence \in Nat
    BY Zenon, Same DEF IInv, Worker
  <1>2. m \in Meta /\ Tame(meta[j], m)
    BY Zenon, <1>1, Scripts DEF Statuses, States
  <1>3. Follows(s, j, w)
    BY Zenon, <1>1 DEF Follows, Worker, Pcs, PastClaim, RetryPcs
  <1>4. OthersOK'
    BY <1>1 DEF Publish, Intent, OthersOK, TypeOK, Slots
  <1>5. Write(j, m) /\ Put(s, j, w) /\ claims' = claims
    BY Zenon DEF Publish
  <1> HIDE DEF m, w
  <1> QED
    BY Zenon, <1>2, <1>3, <1>4, <1>5, OneStep

LEMMA WorkerSteps ==
    ASSUME IInv, NEW s \in Slots, NEW j \in Jobs,
           WorkerStep(s, j), ~Claim(s, j), ~ScheduleRetry(s, j), ~ResumeRetry(s, j)
    PROVE  IInv'
  <1> DEFINE v == worker[s][j]
  <1>0. /\ TypeOK /\ meta[j] \in Meta /\ v \in Worker /\ Tame(meta[j], meta[j])
        /\ v.fence \in Nat /\ v.attempt \in 0..MaxAttempts
        /\ MaxAttempts \in Nat
    BY Zenon, Same, JobConstants DEF IInv, Worker, JobConstants
  <1>1. CASE WorkSucceeds(s, j)
    BY Zenon, <1>1, PublishStep DEF WorkSucceeds, PastClaim, Pcs, Events
  <1>2. CASE WorkFails(s, j)
    BY Zenon, <1>2, PublishStep DEF WorkFails, PastClaim, Pcs, Events
  <1>3. CASE WorkSeesCancel(s, j)
    <2> DEFINE w == [v EXCEPT !.pc = "ending"]
    <2>1. Follows(s, j, w)
      BY Zenon, <1>0, <1>3 DEF WorkSeesCancel, Follows, Worker, Pcs, PastClaim, RetryPcs
    <2>2. Write(j, meta[j]) /\ Put(s, j, w) /\ claims' = claims /\ OthersOK'
      BY Zenon, <1>0, <1>3, Same DEF WorkSeesCancel, OthersOK, TypeOK
    <2> HIDE DEF w
    <2> QED
      BY Zenon, <1>0, <2>1, <2>2, OneStep
  <1>4. CASE RateLimited(s, j) /\ v.attempt >= MaxAttempts
    BY Zenon, <1>4, PublishStep DEF RateLimited, PastClaim, Pcs, Events
  <1>5. CASE RateLimited(s, j) /\ ~(v.attempt >= MaxAttempts)
    <2> DEFINE w == IF meta[j].status = "processing"
                      THEN [v EXCEPT !.pc = "sched", !.buf = meta[j]]
                      ELSE [v EXCEPT !.pc = "ending"]
    <2>1. v.attempt < MaxAttempts
      BY <1>0, <1>5
    <2>2. Follows(s, j, w)
      BY Zenon, <1>0, <1>5, <2>1 DEF RateLimited, Follows, Worker, Pcs, PastClaim, RetryPcs
    <2>3. Write(j, meta[j]) /\ Put(s, j, w) /\ claims' = claims /\ OthersOK'
      BY Zenon, <1>0, <1>5, Same DEF RateLimited, OthersOK, TypeOK
    <2> HIDE DEF w
    <2> QED
      BY <1>0, <2>2, <2>3, OneStep
  <1>6. CASE Delivered(s, j)
    <2> DEFINE w == [v EXCEPT !.pc = IF @ = "deliver" THEN "ending" ELSE "sleep", !.ev = "none"]
    <2>1. Follows(s, j, w)
      BY Zenon, <1>0, <1>6 DEF Delivered, Follows, Worker, Meta, Pcs, PastClaim, RetryPcs, IInv, AttemptsLeft
    <2>2. Write(j, meta[j]) /\ Put(s, j, w) /\ claims' = claims /\ OthersOK'
      BY Zenon, <1>0, <1>6, Same DEF Delivered, OthersOK, TypeOK
    <2> HIDE DEF w
    <2> QED
      BY <1>0, <2>1, <2>2, OneStep
  <1>7. CASE Wake(s, j)
    <2> DEFINE w == IF meta[j].status = "retry_scheduled"
                      THEN [v EXCEPT !.pc = "resume", !.buf = meta[j]]
                      ELSE [v EXCEPT !.pc = "ending"]
    <2>1. Follows(s, j, w)
      BY Zenon, <1>0, <1>7 DEF Wake, Follows, Worker, Meta, Pcs, PastClaim, RetryPcs, IInv, AttemptsLeft
    <2>2. Write(j, meta[j]) /\ Put(s, j, w) /\ claims' = claims /\ OthersOK'
      BY Zenon, <1>0, <1>7, Same DEF Wake, OthersOK, TypeOK
    <2> HIDE DEF w
    <2> QED
      BY <1>0, <2>1, <2>2, OneStep
  <1>8. CASE Ending(s, j)
    <2> DEFINE w == IF meta[j].status = "processing"
                      THEN [v EXCEPT !.pc = "marking"]
                      ELSE [v EXCEPT !.pc = "releasing", !.hb = "off"]
    <2>1. Follows(s, j, w)
      BY Zenon, <1>0, <1>8 DEF Ending, Follows, Worker, Meta, Pcs, PastClaim, RetryPcs
    <2>2. Write(j, meta[j]) /\ Put(s, j, w) /\ claims' = claims /\ OthersOK'
      BY Zenon, <1>0, <1>8, Same DEF Ending, OthersOK, TypeOK
    <2> HIDE DEF w
    <2> QED
      BY <1>0, <2>1, <2>2, OneStep
  <1>9. CASE Mark(s, j)
    <2> DEFINE w == [v EXCEPT !.pc = "releasing", !.hb = "off"]
               m == UnknownOwner(meta[j], s, v.fence)
    <2>1. Follows(s, j, w)
      BY Zenon, <1>0, <1>9 DEF Mark, Follows, Worker, Meta, Pcs, PastClaim, RetryPcs
    <2>2. m \in Meta /\ Tame(meta[j], m)
      BY Zenon, <1>0, Scripts DEF Statuses, States
    <2>3. Write(j, m) /\ Put(s, j, w) /\ claims' = claims /\ OthersOK'
      BY Zenon, <1>0, <1>9 DEF Mark, Intent, Events, OthersOK, TypeOK
    <2> HIDE DEF w, m
    <2> QED
      BY Zenon, <2>1, <2>2, <2>3, OneStep
  <1>10. CASE Release(s, j)
    <2> DEFINE w == Idle
               m == Released(meta[j], s, v.fence)
    <2>1. Follows(s, j, w)
      BY Zenon, <1>0, <1>10, Constants DEF Release, Follows, Worker, Meta, Pcs, PastClaim, RetryPcs, Idle
    <2>2. m \in Meta /\ Tame(meta[j], m)
      BY Zenon, <1>0, Scripts DEF Statuses, States
    <2>3. Write(j, m) /\ Put(s, j, w) /\ claims' = claims /\ OthersOK'
      BY Zenon, <1>0, <1>10 DEF Release, Intent, Events, OthersOK, TypeOK
    <2> HIDE DEF w, m
    <2> QED
      BY Zenon, <2>1, <2>2, <2>3, OneStep
  <1> QED
    BY Zenon, <1>1, <1>2, <1>3, <1>4, <1>5, <1>6, <1>7, <1>8, <1>9, <1>10 DEF WorkerStep
-----------------------------------------------------------------------------
(* Granting a claim, and writing back a buffered record                    *)

\* The record was queued, so that nobody was past the claim.
LEMMA ClaimStep ==
    ASSUME IInv, NEW s \in Slots, NEW j \in Jobs, NEW m \in Meta, NEW w \in Worker,
           CanClaim(meta[j]), m = Claimed(meta[j], s), Write(j, m),
           worker[s][j].pc # "none",
           Put(s, j, w), w.pc \in {"work", "none"}, w.pc = "work" => w.attempt = 1,
           claims' = [claims EXCEPT ![j] = @ + 1], OthersOK'
    PROVE  IInv'
  <1>1. /\ meta \in [Jobs -> Meta] /\ worker \in [Slots -> [Jobs -> Worker]]
        /\ claims \in [Jobs -> Nat]
    BY Zenon DEF IInv, TypeOK
  <1>2. /\ meta' \in [Jobs -> Meta] /\ meta'[j] = m
        /\ \A k \in Jobs : k # j => meta'[k] = meta[k]
    BY Zenon, <1>1, WriteOne
  <1>3. /\ worker' \in [Slots -> [Jobs -> Worker]] /\ worker'[s][j] = w
        /\ \A t \in Slots, k \in Jobs : t # s \/ k # j => worker'[t][k] = worker[t][k]
    BY Zenon, <1>1, PutOne
  <1>4. claims[j] = 0 /\ claims'[j] = 1 /\ \A k \in Jobs : k # j => claims'[k] = claims[k]
    BY <1>1 DEF IInv, ClaimedOnce, CanClaim
  <1>5. \A t \in Slots : worker[t][j].pc \notin PastClaim
    BY <1>4 DEF IInv, ClaimedOnce
  <1>6. m.status = "processing" /\ m.state = "running" /\ m.owner = s
    BY Zenon, <1>1 DEF Claimed, CanClaim, Meta
  <1>7. claims' \in [Jobs -> Nat]
    BY <1>1
  <1>8. TypeOK'
    BY Zenon, <1>2, <1>3, <1>7 DEF TypeOK, OthersOK
  <1>9. NeverReplayed'
    BY <1>3, <1>4, <1>5 DEF IInv, NeverReplayed
  <1>10. OwnerIsTheWorker'
    BY <1>2, <1>3, <1>5, <1>6 DEF IInv, OwnerIsTheWorker
  <1>11. ClaimedOnce'
    BY <1>2, <1>3, <1>4, <1>6 DEF IInv, ClaimedOnce
  <1>12. AttemptsLeft' /\ StreamsOnly'
    <2>1. w.pc \notin RetryPcs /\ (w.pc \in PastClaim => w.attempt >= 1)
      BY DEF RetryPcs, PastClaim
    <2>2. AttemptsLeft'
      BY Zenon, <1>3, <2>1 DEF IInv, AttemptsLeft
    <2>3. StreamsOnly'
      BY <1>3 DEF IInv, StreamsOnly
    <2> QED
      BY Zenon, <2>2, <2>3
  <1>13. BufferKept'
    BY <1>3 DEF IInv, BufferKept
  <1> QED
    BY Zenon, <1>8, <1>9, <1>10, <1>11, <1>12, <1>13 DEF IInv

\* schedule_retry and resume_retry: the worker that writes is the one past the
\* claim, so that the lease it puts back is nobody else's.
LEMMA WriteBackStep ==
    ASSUME IInv, NEW s \in Slots, NEW j \in Jobs, NEW m \in Meta, NEW w \in Worker,
           worker[s][j].pc \in {"sched", "resume"},
           Write(j, m), m.status # "none", m.state # "queued", m.owner \in {s, NoOwner},
           Put(s, j, w), w.pc \notin {"sched", "resume"},
           w.attempt >= worker[s][j].attempt,
           w.pc \in RetryPcs => w.attempt < MaxAttempts,
           claims' = claims, OthersOK'
    PROVE  IInv'
  <1>1. /\ meta \in [Jobs -> Meta] /\ worker \in [Slots -> [Jobs -> Worker]]
        /\ claims \in [Jobs -> Nat]
    BY Zenon DEF IInv, TypeOK
  <1>2. /\ meta' \in [Jobs -> Meta] /\ meta'[j] = m
        /\ \A k \in Jobs : k # j => meta'[k] = meta[k]
    BY Zenon, <1>1, WriteOne
  <1>3. /\ worker' \in [Slots -> [Jobs -> Worker]] /\ worker'[s][j] = w
        /\ \A t \in Slots, k \in Jobs : t # s \/ k # j => worker'[t][k] = worker[t][k]
    BY Zenon, <1>1, PutOne
  <1>4. worker[s][j].pc \in PastClaim
    BY Zenon DEF PastClaim, Pcs
  <1>5. claims[j] = 1 /\ \A t \in Slots : t # s => worker[t][j].pc \notin PastClaim
    BY Zenon, <1>4 DEF IInv, ClaimedOnce, NeverReplayed
  <1>6. TypeOK'
    BY Zenon, <1>1, <1>2, <1>3 DEF TypeOK, OthersOK
  <1>7. NeverReplayed'
    BY <1>3, <1>4, <1>5 DEF IInv, NeverReplayed
  <1>8. OwnerIsTheWorker'
    BY <1>2, <1>3, <1>5, Constants DEF IInv, OwnerIsTheWorker
  <1>9. ClaimedOnce'
    BY <1>2, <1>3, <1>5 DEF IInv, ClaimedOnce
  <1>10. AttemptsLeft'
    <2>1. /\ worker[s][j].attempt >= 1 /\ Observed(s, j)
          /\ w.attempt \in Int /\ worker[s][j].attempt \in Int
      BY <1>1, <1>4 DEF IInv, AttemptsLeft, RetryPcs, Worker
    <2>2. w.attempt >= 1
      BY <2>1
    <2> QED
      BY <1>3, <2>1, <2>2 DEF IInv, AttemptsLeft
  <1>11. BufferKept'
    BY <1>3 DEF IInv, BufferKept
  <1>12. StreamsOnly'
    BY <1>3 DEF IInv, StreamsOnly
  <1> QED
    BY Zenon, <1>6, <1>7, <1>8, <1>9, <1>10, <1>11, <1>12 DEF IInv

\* create_job: the job did not exist, so that nobody was past its claim.
LEMMA SubmitStep ==
    ASSUME IInv, NEW p \in Procs, NEW j \in Jobs, Submit(p, j)
    PROVE  IInv'
  <1> DEFINE s == IF j \in Streams THEN SseOf(p) ELSE TaskOf(p)
             w == [Idle EXCEPT !.pc = "claiming"]
             m == Queued
  <1>0. s \in Slots /\ w \in Worker /\ w.pc = "claiming" /\ m \in Meta
    BY Zenon, Constants DEF Slots, SseOf, TaskOf, Idle, Worker, Pcs
  <1>w. Write(j, m) /\ Put(s, j, w)
    BY Zenon DEF Submit
  <1>q. m.status = "processing" /\ m.state = "queued" /\ m.owner = NoOwner
    BY Zenon DEF Queued
  <1> HIDE DEF s, w, m
  <1>1. /\ meta \in [Jobs -> Meta] /\ worker \in [Slots -> [Jobs -> Worker]]
        /\ claims \in [Jobs -> Nat]
    BY Zenon DEF IInv, TypeOK
  <1>2. /\ meta' \in [Jobs -> Meta] /\ meta'[j] = m
        /\ \A k \in Jobs : k # j => meta'[k] = meta[k]
    BY Zenon, <1>0, <1>w, <1>1, WriteOne
  <1>3. /\ worker' \in [Slots -> [Jobs -> Worker]] /\ worker'[s][j] = w
        /\ \A t \in Slots, k \in Jobs : t # s \/ k # j => worker'[t][k] = worker[t][k]
    BY <1>0, <1>w, <1>1, PutOne
  <1>4. claims[j] = 0 /\ claims' = claims
    BY Zenon DEF Submit, IInv, ClaimedOnce
  <1>5. \A t \in Slots : worker[t][j].pc \notin PastClaim
    BY <1>4 DEF IInv, ClaimedOnce
  <1>6. w.pc \notin PastClaim \cup RetryPcs \cup {"sched", "resume"}
    BY Zenon, <1>0 DEF PastClaim, RetryPcs
  <1>7. TypeOK'
    BY Zenon, <1>1, <1>2, <1>3, <1>4 DEF TypeOK, Submit, IInv
  <1>8. NeverReplayed'
    BY <1>3, <1>4, <1>6 DEF IInv, NeverReplayed
  <1>9. OwnerIsTheWorker'
    BY Zenon, <1>q, <1>2, <1>3, <1>6, Constants DEF IInv, OwnerIsTheWorker
  <1>10. ClaimedOnce'
    BY <1>2, <1>3, <1>4, <1>5, <1>6 DEF IInv, ClaimedOnce
  <1>11. AttemptsLeft' /\ BufferKept'
    BY <1>3, <1>6 DEF IInv, AttemptsLeft, BufferKept
  <1>12. StreamsOnly'
    <2>1. s[2] = "sse" => j \in Streams
      BY Zenon DEF s, TaskOf
    <2> QED
      BY Zenon, <1>3, <2>1 DEF IInv, StreamsOnly
  <1> QED
    BY Zenon, <1>7, <1>8, <1>9, <1>10, <1>11, <1>12 DEF IInv
-----------------------------------------------------------------------------
(* One step per action                                                     *)

LEMMA ClaimPreserves ==
    ASSUME IInv, NEW s \in Slots, NEW j \in Jobs, Claim(s, j)
    PROVE  IInv'
  <1>0. TypeOK /\ meta[j] \in Meta /\ meta[j].fence + 1 \in Nat /\ Tame(meta[j], meta[j])
    BY Same DEF IInv, Meta
  <1>1. CASE CanClaim(meta[j])
    <2> DEFINE m == Claimed(meta[j], s)
               w == [Idle EXCEPT !.pc = "work", !.fence = meta[j].fence + 1,
                                 !.attempt = 1, !.hb = "on"]
    <2>1. 1 \in 0..MaxAttempts /\ Lease \in 0..Lease
      BY JobConstants DEF JobConstants
    <2>2. m \in Meta
      BY Zenon, <1>0, <2>1 DEF Claimed, Meta, States
    <2>3. w \in Worker /\ w.pc = "work" /\ w.attempt = 1
      BY Zenon, <1>0, <2>1, Constants DEF Idle, Worker, Pcs
    <2>4. Write(j, m) /\ Put(s, j, w) /\ claims' = [claims EXCEPT ![j] = @ + 1] /\ OthersOK'
      BY Zenon, <1>0, <1>1 DEF Claim, OthersOK, TypeOK
    <2>5. m = Claimed(meta[j], s) /\ worker[s][j].pc # "none"
      BY Zenon DEF Claim
    <2> HIDE DEF m, w
    <2> QED
      BY Zenon, <1>1, <2>2, <2>3, <2>4, <2>5, ClaimStep
  <1>2. CASE ~CanClaim(meta[j])
    <2>1. Follows(s, j, Idle)
      BY Zenon, Constants DEF Follows, Idle, PastClaim, RetryPcs
    <2>2. Write(j, meta[j]) /\ Put(s, j, Idle) /\ claims' = claims /\ OthersOK'
      BY Zenon, <1>0, <1>2, Same DEF Claim, OthersOK, TypeOK
    <2> QED
      BY Zenon, <1>0, <2>1, <2>2, OneStep
  <1> QED
    BY Zenon, <1>1, <1>2

LEMMA RetryPreserves ==
    ASSUME IInv, NEW s \in Slots, NEW j \in Jobs,
           ScheduleRetry(s, j) \/ ResumeRetry(s, j)
    PROVE  IInv'
  <1> DEFINE v == worker[s][j]
  <1>0. /\ TypeOK /\ v \in Worker /\ v.buf \in Meta
        /\ v.pc \in {"sched", "resume"}
    BY Zenon, Same DEF IInv, Worker, ScheduleRetry, ResumeRetry
  <1>1. /\ v.attempt < MaxAttempts /\ v.buf.state # "queued"
        /\ v.buf.owner \in {s, NoOwner} /\ v.attempt + 1 \in 0..MaxAttempts
    BY SMTT(20), <1>0, JobConstants DEF IInv, AttemptsLeft, BufferKept, RetryPcs, JobConstants, Worker
  <1>2. CASE ScheduleRetry(s, j)
    <2> DEFINE m == [v.buf EXCEPT !.status = "retry_scheduled"]
               w == [v EXCEPT !.pc = "deliver_retry", !.buf = NoMeta, !.ev = "retry_scheduled"]
    <2>1. m \in Meta /\ m.status # "none" /\ m.state # "queued" /\ m.owner \in {s, NoOwner}
      BY Zenon, <1>0, <1>1 DEF Meta, Statuses
    <2>2. /\ w \in Worker /\ w.pc \notin {"sched", "resume"}
          /\ w.attempt = v.attempt /\ w.attempt < MaxAttempts
      BY Zenon, <1>0, <1>1, Constants DEF Worker, Pcs, Events
    <2>3. Write(j, m) /\ Put(s, j, w) /\ claims' = claims
      BY Zenon, <1>2 DEF ScheduleRetry
    <2>4. OthersOK'
      BY <1>0, <1>2 DEF ScheduleRetry, Deliver, OthersOK, TypeOK, Slots, Events
    <2>5. w.attempt >= v.attempt
      BY <1>0, <2>2 DEF Worker
    <2> HIDE DEF m, w
    <2> QED
      BY Zenon, <1>0, <2>1, <2>2, <2>3, <2>4, <2>5, WriteBackStep
  <1>3. CASE ResumeRetry(s, j)
    <2> DEFINE m == [v.buf EXCEPT !.status = "processing"]
               w == [v EXCEPT !.pc = "work", !.buf = NoMeta, !.attempt = @ + 1]
    <2>1. m \in Meta /\ m.status # "none" /\ m.state # "queued" /\ m.owner \in {s, NoOwner}
      BY Zenon, <1>0, <1>1 DEF Meta, Statuses
    <2>2. /\ w \in Worker /\ w.pc \notin {"sched", "resume"} /\ w.pc \notin RetryPcs
          /\ w.attempt = v.attempt + 1
      BY Zenon, <1>0, <1>1, Constants DEF Worker, Pcs, RetryPcs
    <2>3. Write(j, m) /\ Put(s, j, w) /\ claims' = claims /\ OthersOK'
      BY Zenon, <1>0, <1>3 DEF ResumeRetry, OthersOK, TypeOK
    <2>4. w.attempt >= v.attempt
      BY <1>0, <2>2 DEF Worker
    <2> HIDE DEF m, w
    <2> QED
      BY Zenon, <1>0, <2>1, <2>2, <2>3, <2>4, WriteBackStep
  <1> QED
    BY Zenon, <1>2, <1>3

LEMMA HeartbeatPreserves ==
    ASSUME IInv, NEW s \in Slots, NEW j \in Jobs,
           Heartbeat(s, j) \/ HeartbeatDies(s, j)
    PROVE  IInv'
  <1> DEFINE v == worker[s][j]
             off == [v EXCEPT !.hb = "off"]
             m == [meta[j] EXCEPT !.lease = Lease]
  <1>1. /\ TypeOK /\ meta[j] \in Meta /\ v \in Worker /\ Tame(meta[j], meta[j])
        /\ claims' = claims /\ OthersOK'
    BY Zenon, Same DEF IInv, Heartbeat, HeartbeatDies, OthersOK, TypeOK
  <1>2. Lease \in 0..Lease
    BY JobConstants DEF JobConstants
  <1>3. m \in Meta /\ Tame(meta[j], m)
    BY Zenon, <1>1, <1>2 DEF Meta, Tame
  <1>4. Follows(s, j, off) /\ Follows(s, j, v)
    BY Zenon, <1>1 DEF Follows, Worker, IInv, AttemptsLeft
  <1>5. \/ Write(j, m) /\ Put(s, j, v)
        \/ Write(j, meta[j]) /\ Put(s, j, off)
    BY Zenon, <1>1, Same DEF Heartbeat, HeartbeatDies
  <1> HIDE DEF off, m
  <1> QED
    BY Zenon, <1>1, <1>3, <1>4, <1>5, OneStep
\* A worker may stay as it is, or be interrupted at an await.
LEMMA Interruption ==
    ASSUME IInv, NEW s \in Slots, NEW j \in Jobs
    PROVE  /\ Follows(s, j, worker[s][j])
           /\ worker[s][j].pc \in Interruptible \cup {"claiming", "work"} =>
                 Follows(s, j, Interrupted(s, j))
           /\ worker[s][j].pc \in {"work", "deliver", "deliver_retry"} =>
                 Follows(s, j, [worker[s][j] EXCEPT !.pc = "marking", !.ev = "none"])
           /\ worker[s][j].pc = "work" =>
                 Follows(s, j, [worker[s][j] EXCEPT !.pc = "ending"])
           /\ s[2] = "task" =>
                 Follows(s, j, [Idle EXCEPT !.pc = "claiming"])
  <1>1. worker[s][j] \in Worker
    BY Zenon, Same DEF IInv
  <1> USE <1>1, Constants DEF Follows, Worker, Pcs, PastClaim, RetryPcs
  <1>2. Follows(s, j, worker[s][j])
    BY Zenon DEF IInv, AttemptsLeft
  <1>3. ASSUME worker[s][j].pc \in Interruptible \cup {"claiming", "work"}
        PROVE  Follows(s, j, Interrupted(s, j))
    BY Zenon, <1>3 DEF Interrupted, Interruptible, Idle
  <1>4. ASSUME worker[s][j].pc \in {"work", "deliver", "deliver_retry"}
        PROVE  Follows(s, j, [worker[s][j] EXCEPT !.pc = "marking", !.ev = "none"])
    BY Zenon, <1>4
  <1>5. ASSUME worker[s][j].pc = "work"
        PROVE  Follows(s, j, [worker[s][j] EXCEPT !.pc = "ending"])
    BY Zenon, <1>5
  <1>6. ASSUME s[2] = "task"
        PROVE  Follows(s, j, [Idle EXCEPT !.pc = "claiming"])
    BY Zenon, <1>6 DEF Idle
  <1> QED
    BY Zenon, <1>2, <1>3, <1>4, <1>5, <1>6

LEMMA ClientPreserves ==
    ASSUME IInv, NEW p \in Procs, NEW j \in Jobs,
           Delete(p, j) \/ Disconnect(p, j)
    PROVE  IInv'
  <1> DEFINE m == CancelScript(meta[j])
  <1>1. TaskOf(p) \in Slots /\ SseOf(p) \in Slots
    BY Zenon DEF TaskOf, SseOf, Slots
  <1>2. TypeOK /\ meta[j] \in Meta /\ Tame(meta[j], meta[j])
    BY Zenon, <1>1, Same DEF IInv
  <1>3. m \in Meta /\ Tame(meta[j], m)
    BY <1>1, <1>2, Scripts DEF Statuses, States
  <1>4. claims' = claims /\ OthersOK'
    <2>1. /\ outbox \in [Jobs -> SUBSET Events] /\ bg \in [Procs -> SUBSET (Jobs \X Events)]
          /\ "completed" \in Events
      BY Zenon, <1>2 DEF TypeOK, Events
    <2>2. /\ claims' = claims /\ UNCHANGED <<scan, marks, proc, stops>>
      BY Zenon DEF Delete, Disconnect
    <2>3. outbox' \in [Jobs -> SUBSET Events]
      BY <2>1 DEF Delete, Disconnect, Intent
    <2>4. InterruptEvents(TaskOf(p), j) \subseteq {<<j, "completed">>}
      BY Zenon DEF InterruptEvents
    <2>5. \/ UNCHANGED bg
          \/ \E es \in SUBSET {<<j, "completed">>} : bg' = [bg EXCEPT ![p] = @ \cup es]
      BY Zenon, <2>4 DEF Delete, Disconnect, Deliver
    <2>6. bg' \in [Procs -> SUBSET (Jobs \X Events)]
      BY <2>1, <2>5
    <2> QED
      BY Zenon, <1>2, <2>2, <2>3, <2>6 DEF OthersOK, TypeOK
  <1> HIDE DEF m
  <1>5. CASE Delete(p, j)
    <2> DEFINE s == TaskOf(p)
    <2>1. Write(j, m)
      BY Zenon, <1>5 DEF Delete, m
    <2>2. \/ worker[s][j].pc \in Interruptible /\ Put(s, j, Interrupted(s, j))
          \/ Put(s, j, worker[s][j])
      BY Zenon, <1>1, <1>2, <1>5, Same DEF Delete
    <2> HIDE DEF s
    <2> QED
      BY Zenon, <1>1, <1>3, <1>4, <2>1, <2>2, OneStep, Interruption DEF s
  <1>6. CASE Disconnect(p, j)
    <2> DEFINE s == SseOf(p)
               w == [worker[s][j] EXCEPT !.pc = "ending"]
    <2>1. Write(j, m) \/ Write(j, meta[j])
      BY Zenon, <1>1, <1>2, <1>6, Same DEF Disconnect, m
    <2>2. Put(s, j, w) /\ Follows(s, j, w)
      BY Zenon, <1>1, <1>6, Interruption DEF Disconnect
    <2> HIDE DEF w
    <2> QED
      BY Zenon, <1>1, <1>2, <1>3, <1>4, <2>1, <2>2, OneStep
  <1> QED
    BY Zenon, <1>5, <1>6

LEMMA DeliveryPreserves ==
    ASSUME IInv, NEW p \in Procs, NEW j \in Jobs, NEW e \in Events,
           Enqueue(p, j, e) \/ EnqueueRaises(p, j, e)
    PROVE  IInv'
  <1> DEFINE s == TaskOf(p)
             w == [worker[s][j] EXCEPT !.pc = "marking", !.ev = "none"]
             fails == Publish(s, j, "failed", "failed", "failed_ok", {<<j, e>>})
             awaited == worker[s][j].pc \in {"deliver", "deliver_retry"}
  <1>1. s \in Slots
    BY Zenon DEF TaskOf, Slots
  <1>2. TypeOK /\ meta[j] \in Meta /\ Tame(meta[j], meta[j])
    BY Zenon, <1>1, Same DEF IInv
  <1>3. CASE awaited /\ fails
    <2>1. worker[s][j].pc \in PastClaim
      BY Zenon, <1>3 DEF PastClaim, Pcs
    <2> QED
      BY Zenon, <1>1, <1>3, <2>1, PublishStep DEF Events
  <1>4. CASE ~(awaited /\ fails)
    <2>1. UNCHANGED meta /\ claims' = claims /\ OthersOK'
      <3>1. UNCHANGED <<meta, scan, marks, proc, stops, claims>>
        BY <1>4, Zenon DEF Enqueue, EnqueueRaises
      <3>2. /\ UNCHANGED outbox \/ outbox' = [outbox EXCEPT ![j] = @ \cup {e}]
            /\ bg' = [bg EXCEPT ![p] = @ \ {<<j, e>>}]
        BY <1>4, Zenon DEF Enqueue, EnqueueRaises
      <3> QED
        BY <1>2, <3>1, <3>2 DEF OthersOK, TypeOK
    <2>2. UNCHANGED worker \/ (awaited /\ Put(s, j, w))
      BY Zenon, <1>4 DEF Enqueue, EnqueueRaises
    <2>3. /\ Write(j, meta[j])
          /\ \/ Put(s, j, worker[s][j]) /\ Follows(s, j, worker[s][j])
             \/ Put(s, j, w) /\ Follows(s, j, w)
      BY Zenon, <1>1, <1>2, <2>1, <2>2, Same, Interruption
    <2> HIDE DEF s, w
    <2> QED
      BY Zenon, <1>1, <1>2, <2>1, <2>3, OneStep
  <1> QED
    BY Zenon, <1>3, <1>4
LEMMA ScanPreserves ==
    ASSUME IInv, NEW p \in Procs, NEW j \in Jobs, NEW mode \in {"stale", "legacy"},
           ScanStep(p, j) \/ ScanMark(p, j, mode)
    PROVE  IInv'
  <1> DEFINE s == TaskOf(p)
             w == [Idle EXCEPT !.pc = "claiming"]
  <1>1. s \in Slots /\ s[2] = "task"
    BY Zenon DEF TaskOf, Slots
  <1>2. TypeOK /\ meta[j] \in Meta /\ Tame(meta[j], meta[j])
    BY Zenon, <1>1, Same DEF IInv
  <1>3. CASE ScanStep(p, j)
    <2>1. UNCHANGED <<meta, outbox, bg, proc, stops, claims>>
      BY Zenon, <1>3 DEF ScanStep
    <2>2. scan' \in [Procs -> [Jobs -> Meta]]
      BY Zenon, <1>2, <1>3, Constants DEF ScanStep, TypeOK
    <2>3. marks' \in [Procs -> SUBSET (Jobs \X {"stale", "legacy"})]
      <3>1. Marking(p, j) \subseteq Jobs \X {"stale", "legacy"}
        BY DEF Marking
      <3> QED
        BY Zenon, <1>2, <1>3, <3>1 DEF ScanStep, TypeOK
    <2>4. OthersOK'
      BY Zenon, <1>2, <2>1, <2>2, <2>3 DEF OthersOK, TypeOK
    <2>5. UNCHANGED worker \/ (worker[s][j].pc = "none" /\ Put(s, j, w))
      BY <1>3, Zenon DEF ScanStep, SubmitRecovered
    <2>6. /\ Write(j, meta[j])
          /\ \/ Put(s, j, worker[s][j]) /\ Follows(s, j, worker[s][j])
             \/ Put(s, j, w) /\ Follows(s, j, w)
      BY Zenon, <1>1, <1>2, <2>1, <2>5, Same, Interruption
    <2> HIDE DEF s, w
    <2> QED
      BY Zenon, <1>1, <1>2, <2>1, <2>4, <2>6, OneStep
  <1>4. CASE ScanMark(p, j, mode)
    <2> DEFINE m == IF mode = "stale" THEN UnknownStale(meta[j]) ELSE UnknownLegacy(meta[j])
    <2>1. m \in Meta /\ Tame(meta[j], m)
      <3>1. "failed" \in Statuses \ {"none"} /\ "failed" \in States /\ 0 \in Nat
        BY Zenon DEF Statuses, States
      <3> QED
        BY Zenon, <1>1, <1>2, <3>1, Scripts
    <2>2. Write(j, m) /\ claims' = claims /\ Put(s, j, worker[s][j])
      BY Zenon, <1>1, <1>2, <1>4, Same DEF ScanMark
    <2>3. OthersOK'
      BY Zenon, <1>2, <1>4 DEF ScanMark, Intent, OthersOK, TypeOK, Events
    <2> HIDE DEF s, m
    <2> QED
      BY Zenon, <1>1, <2>1, <2>2, <2>3, OneStep, Interruption
  <1> QED
    BY Zenon, <1>3, <1>4

\* A worker that is cancelled or whose stream is closed: nobody holds the
\* claim that its thread may still be granted.
LEMMA GoesOnPreserves ==
    ASSUME IInv, NEW s \in Slots, NEW j \in Jobs, worker[s][j].pc \in Interruptible,
           Put(s, j, Interrupted(s, j)), ClaimGoesOn(s, j), OthersOK'
    PROVE  IInv'
  <1> DEFINE m == Claimed(meta[j], s)
             w == Interrupted(s, j)
  <1>2. TypeOK /\ meta[j] \in Meta /\ Tame(meta[j], meta[j])
    BY Zenon, Same DEF IInv
  <1>3. Put(s, j, w) /\ Follows(s, j, w)
    BY Zenon, Interruption
  <1>5. CASE UNCHANGED <<meta, claims>>
    BY Zenon, <1>2, <1>3, <1>5, Same, OneStep
  <1>6. CASE /\ worker[s][j].pc = "claiming" /\ CanClaim(meta[j])
             /\ Write(j, m) /\ claims' = [claims EXCEPT ![j] = @ + 1]
    <2>1. m \in Meta
      <3>1. Lease \in 0..Lease /\ meta[j].fence + 1 \in Nat
        BY <1>2, JobConstants DEF JobConstants, Meta
      <3> QED
        BY Zenon, <1>2, <3>1 DEF Claimed, Meta, States
    <2>2. w \in Worker /\ w.pc = "none"
      BY Zenon, <1>6, Constants DEF Interrupted, Idle
    <2>3. m = Claimed(meta[j], s) /\ worker[s][j].pc # "none"
      BY Zenon, <1>6
    <2> HIDE DEF m, w
    <2> QED
      BY Zenon, <1>3, <1>6, <2>1, <2>2, <2>3, ClaimStep
  <1> QED
    BY Zenon, <1>5, <1>6 DEF ClaimGoesOn

LEMMA ClosingPreserves ==
    ASSUME IInv, NEW p \in Procs, NEW j \in Jobs,
           StreamClosed(p, j) \/ ShutdownWorker(p, j)
    PROVE  IInv'
  <1>1. TaskOf(p) \in Slots /\ SseOf(p) \in Slots /\ TypeOK
    BY Zenon DEF TaskOf, SseOf, Slots, IInv
  <1>2. OthersOK'
    <2>1. InterruptEvents(TaskOf(p), j) \subseteq Jobs \X Events
      BY DEF InterruptEvents, Events
    <2>2. \/ UNCHANGED bg
          \/ bg' = [bg EXCEPT ![p] = @ \cup InterruptEvents(TaskOf(p), j)]
      BY Zenon DEF StreamClosed, ShutdownWorker
    <2>3. bg' \in [Procs -> SUBSET (Jobs \X Events)]
      <3>1. bg \in [Procs -> SUBSET (Jobs \X Events)]
        BY Zenon, <1>1 DEF TypeOK
      <3>2. CASE bg' = [bg EXCEPT ![p] = @ \cup InterruptEvents(TaskOf(p), j)]
        BY Zenon, <2>1, <3>1, <3>2
      <3> QED
        BY Zenon, <2>2, <3>1, <3>2
    <2>4. UNCHANGED <<outbox, scan, marks, proc, stops>>
      BY Zenon DEF StreamClosed, ShutdownWorker
    <2> QED
      BY Zenon, <1>1, <2>3, <2>4 DEF OthersOK, TypeOK
  <1>3. \E s \in {TaskOf(p), SseOf(p)} :
           /\ worker[s][j].pc \in Interruptible
           /\ Put(s, j, Interrupted(s, j)) /\ ClaimGoesOn(s, j)
    BY Zenon DEF StreamClosed, ShutdownWorker, Interruptible
  <1> QED
    BY Zenon, <1>1, <1>2, <1>3, GoesOnPreserves

\* Loops that start or die, processes that stop and start, and stuttering: no
\* record changes, and workers only disappear.
LEMMA ProcessPreserves ==
    ASSUME IInv, NEW p \in Procs,
           \/ ScanStart(p) \/ RecoveryDies(p) \/ Shutdown(p) \/ Exit(p) \/ Crash(p)
           \/ Start(p) \/ UNCHANGED vars
    PROVE  IInv'
  <1>0. TypeOK
    BY Zenon DEF IInv
  <1>1. UNCHANGED <<meta, outbox, claims>>
    BY Zenon DEF ScanStart, RecoveryDies, Shutdown, Exit, Crash, Start, Gone, vars
  <1>2. \/ UNCHANGED worker
        \/ worker' = [s \in Slots |-> IF s[1] = p THEN [j \in Jobs |-> Idle] ELSE worker[s]]
    BY Zenon DEF ScanStart, RecoveryDies, Shutdown, Exit, Crash, Start, Gone, vars
  <1>3. \A s \in Slots, j \in Jobs :
           worker'[s][j] = worker[s][j] \/ worker'[s][j] = Idle
    BY Zenon, <1>2
  <1>4. worker' \in [Slots -> [Jobs -> Worker]]
    BY <1>0, <1>2, Constants DEF TypeOK
  <1>5. stops' \in Nat
    BY SMTT(20), <1>0 DEF TypeOK, ScanStart, RecoveryDies, Shutdown, Exit, Crash, Start, Gone, vars
  <1>6. /\ scan' \in [Procs -> [Jobs -> Meta]]
        /\ bg' \in [Procs -> SUBSET (Jobs \X Events)]
    <2> DEFINE listed == [j \in Jobs |-> IF Live(meta[j]) THEN meta[j] ELSE NoMeta]
               empty == [j \in Jobs |-> NoMeta]
    <2>1. listed \in [Jobs -> Meta] /\ empty \in [Jobs -> Meta]
      BY Zenon, <1>0, Constants DEF TypeOK
    <2>2. \/ UNCHANGED scan
          \/ scan' = [scan EXCEPT ![p] = listed]
          \/ scan' = [scan EXCEPT ![p] = empty]
      BY Zenon DEF ScanStart, RecoveryDies, Shutdown, Exit, Crash, Start, Gone, vars
    <2>3. UNCHANGED bg \/ bg' = [bg EXCEPT ![p] = {}]
      BY Zenon DEF ScanStart, RecoveryDies, Shutdown, Exit, Crash, Start, Gone, vars
    <2> HIDE DEF listed, empty
    <2> QED
      BY Zenon, <1>0, <2>1, <2>2, <2>3 DEF TypeOK
  <1>7. /\ marks' \in [Procs -> SUBSET (Jobs \X {"stale", "legacy"})]
        /\ proc' \in [Procs -> {"up", "norecovery", "stopping", "down"}]
    BY Zenon, <1>0 DEF TypeOK, ScanStart, RecoveryDies, Shutdown, Exit, Crash, Start, Gone, vars
  <1>8. TypeOK'
    BY Zenon, <1>0, <1>1, <1>4, <1>5, <1>6, <1>7 DEF TypeOK
  <1>9. AttemptsLeft' /\ StreamsOnly'
    BY SMTT(20), <1>3 DEF IInv, AttemptsLeft, StreamsOnly, Idle, RetryPcs, PastClaim
  <1>10. \A j \in Jobs : Tame(meta[j], meta'[j])
    BY Zenon, <1>1 DEF Tame
  <1>11. ASSUME NEW s \in Slots, NEW j \in Jobs
         PROVE  /\ worker'[s][j].pc \in PastClaim => worker[s][j].pc \in PastClaim
                /\ worker'[s][j].pc \in {"sched", "resume"} =>
                      worker[s][j].pc = worker'[s][j].pc /\ Tame(worker[s][j].buf, worker'[s][j].buf)
    <2>1. Idle.pc = "none" /\ "none" \notin PastClaim
      BY Zenon DEF Idle, PastClaim
    <2>2. worker'[s][j] = worker[s][j] \/ worker'[s][j] = Idle
      BY Zenon, <1>3
    <2> QED
      BY Zenon, <2>1, <2>2 DEF Tame
  <1> QED
    BY Zenon, <1>1, <1>8, <1>9, <1>10, <1>11, QuietStep
LEMMA TickPreserves ==
    ASSUME IInv, Tick
    PROVE  IInv'
  <1>0. TypeOK
    BY Zenon DEF IInv
  <1>1. ASSUME NEW m \in Meta
        PROVE  Aged(m) \in Meta /\ Tame(m, Aged(m))
    <2>1. CASE m.lease > 0
      <3>1. m.lease - 1 \in 0..Lease
        BY <2>1, JobConstants DEF JobConstants, Meta
      <3>2. Aged(m) = [m EXCEPT !.lease = @ - 1]
        BY Zenon, <2>1 DEF Aged
      <3> QED
        BY Zenon, <3>1, <3>2 DEF Meta, Tame
    <2>2. CASE ~(m.lease > 0)
      BY Zenon, <2>2 DEF Aged, Tame
    <2> QED
      BY Zenon, <2>1, <2>2
  <1>2. /\ meta' \in [Jobs -> Meta]
        /\ \A j \in Jobs : Tame(meta[j], meta'[j])
    BY Zenon, <1>0, <1>1 DEF Tick, TypeOK
  <1>3. scan' \in [Procs -> [Jobs -> Meta]]
    BY Zenon, <1>0, <1>1 DEF Tick, TypeOK
  <1> DEFINE Older(w) == [w EXCEPT !.buf = Aged(@)]
  <1>4. ASSUME NEW w \in Worker
        PROVE  /\ Older(w) \in Worker /\ Older(w).pc = w.pc /\ Older(w).attempt = w.attempt
               /\ Tame(w.buf, Older(w).buf)
    BY Zenon, <1>1 DEF Worker
  <1>5. /\ worker' \in [Slots -> [Jobs -> Worker]]
        /\ \A s \in Slots, j \in Jobs :
              /\ worker'[s][j].pc = worker[s][j].pc
              /\ worker'[s][j].attempt = worker[s][j].attempt
              /\ Tame(worker[s][j].buf, worker'[s][j].buf)
    <2>1. worker' = [s \in Slots |-> [j \in Jobs |-> Older(worker[s][j])]]
      BY Zenon DEF Tick
    <2>2. worker \in [Slots -> [Jobs -> Worker]]
      BY Zenon, <1>0 DEF TypeOK
    <2> HIDE DEF Older
    <2>3. \A s \in Slots, j \in Jobs :
             worker'[s][j] = Older(worker[s][j]) /\ worker[s][j] \in Worker
      BY Zenon, <2>1, <2>2
    <2>4. worker' \in [Slots -> [Jobs -> Worker]]
      BY Zenon, <1>4, <2>1, <2>2
    <2> QED
      BY Zenon, <1>4, <2>3, <2>4
  <1>6. TypeOK'
    BY Zenon, <1>0, <1>2, <1>3, <1>5 DEF Tick, TypeOK
  <1>7. AttemptsLeft' /\ StreamsOnly'
    BY Zenon, <1>5 DEF IInv, AttemptsLeft, StreamsOnly
  <1>8. claims' = claims
    BY Zenon DEF Tick
  <1> QED
    BY Zenon, <1>2, <1>5, <1>6, <1>7, <1>8, QuietStep

-----------------------------------------------------------------------------

LEMMA InitIInv == Init => IInv
  <1> SUFFICES ASSUME Init PROVE IInv
    BY Zenon
  <1>1. \A s \in Slots, j \in Jobs : worker[s][j] = Idle /\ Idle.pc = "none"
    BY Zenon DEF Init, Idle
  <1>2. \A j \in Jobs : claims[j] = 0 /\ meta[j].owner = NoOwner
    BY Zenon DEF Init, NoMeta
  <1>3. meta \in [Jobs -> Meta]
    <2>1. [NoMeta EXCEPT !.status = "processing"] \in Meta
      BY Zenon, Constants DEF Meta, Statuses
    <2> QED
      BY Zenon, <2>1, Constants DEF Init
  <1>4. TypeOK
    BY Zenon, <1>3, Constants DEF Init, TypeOK
  <1>5. NeverReplayed /\ AttemptsLeft /\ StreamsOnly /\ ClaimedOnce /\ BufferKept
    BY SMTT(20), <1>1, <1>2 DEF NeverReplayed, AttemptsLeft, StreamsOnly, ClaimedOnce, BufferKept, PastClaim, RetryPcs
  <1>6. OwnerIsTheWorker
    BY Zenon, <1>2, Constants DEF OwnerIsTheWorker
  <1> QED
    BY Zenon, <1>4, <1>5, <1>6 DEF IInv

LEMMA NextIInv == IInv /\ [Next]_vars => IInv'
  <1> SUFFICES ASSUME IInv, [Next]_vars PROVE IInv'
    BY Zenon
  <1>1. ASSUME NEW s \in Slots, NEW j \in Jobs,
               WorkerStep(s, j) \/ Heartbeat(s, j) \/ HeartbeatDies(s, j)
        PROVE  IInv'
    BY Zenon, <1>1, WorkerSteps, ClaimPreserves, RetryPreserves, HeartbeatPreserves
  <1>2. ASSUME NEW p \in Procs, NEW j \in Jobs,
               \/ Submit(p, j) \/ Delete(p, j) \/ Disconnect(p, j) \/ StreamClosed(p, j)
               \/ ScanStep(p, j) \/ ShutdownWorker(p, j)
               \/ \E e \in Events : Enqueue(p, j, e) \/ EnqueueRaises(p, j, e)
               \/ \E mode \in {"stale", "legacy"} : ScanMark(p, j, mode)
        PROVE  IInv'
    BY Zenon, <1>2, SubmitStep, ClientPreserves, DeliveryPreserves, ScanPreserves,
       ClosingPreserves
  <1>3. ASSUME NEW p \in Procs,
               \/ ScanStart(p) \/ RecoveryDies(p) \/ Shutdown(p) \/ Exit(p) \/ Crash(p)
               \/ Start(p)
        PROVE  IInv'
    BY Zenon, <1>3, ProcessPreserves
  <1>4. CASE Tick
    BY Zenon, <1>4, TickPreserves
  <1>5. CASE UNCHANGED vars
    BY Zenon, <1>5 DEF vars, IInv, TypeOK, NeverReplayed, OwnerIsTheWorker, AttemptsLeft,
                StreamsOnly, ClaimedOnce, BufferKept
  <1> QED
    BY Zenon, <1>1, <1>2, <1>3, <1>4, <1>5 DEF Next

\* The invariant holds in every reachable state of the protocol.
THEOREM JobsInductive == Spec => []IInv
  BY InitIInv, NextIInv, PTL DEF Spec

\* Records, workers and the scan keep their types; in particular no worker
\* starts more attempts than the retry policy allows.
THEOREM JobsTypeCorrect == Spec => []TypeOK
  <1>1. IInv => TypeOK
    BY Zenon DEF IInv
  <1> QED
    BY <1>1, JobsInductive, PTL

\* Claimed work is never replayed, for any number of jobs and processes, any
\* schedule of crashes, shutdowns, restarts and lease expiries, and with the
\* unfenced write-backs of the retry path.
THEOREM JobsNeverReplayed == Spec => []NeverReplayed
  <1>1. IInv => NeverReplayed
    BY Zenon DEF IInv
  <1> QED
    BY <1>1, JobsInductive, PTL

\* The lease of a record never belongs to anybody but the worker that runs the
\* job.
THEOREM JobsOwnerIsTheWorker == Spec => []OwnerIsTheWorker
  <1>1. IInv => OwnerIsTheWorker
    BY Zenon DEF IInv
  <1> QED
    BY <1>1, JobsInductive, PTL
-----------------------------------------------------------------------------
(* What a step may do to the records                                       *)

\* The events that announce a terminal status.
Told(status, events) ==
    /\ status = "completed" => "completed" \in events
    /\ status = "failed" => events \cap {"failed", "unknown"} # {}

\* Record j keeps what a client sees of it, and the outbox only grows.
Kept(j) ==
    /\ meta'[j].status = meta[j].status /\ meta'[j].state = meta[j].state
    /\ outbox[j] \subseteq outbox'[j]

\* The SET of schedule_retry or of resume_retry: a record read earlier is
\* written back without a fence.
RetryWrites(j) == \E s \in Slots : ScheduleRetry(s, j) \/ ResumeRetry(s, j)

\* Record m of job j turns into n: it is created, claimed, cancelled, resolved
\* together with its intent, or overwritten by a retry.
Turns(j, m, n) ==
    \/ n.status = m.status /\ n.state = m.state
    \/ m.status = "none" /\ n.status = "processing" /\ n.state = "queued"
    \/ CanClaim(m) /\ n.status = "processing" /\ n.state = "running"
    \/ Live(m) /\ n.status = "cancelled"
    \/ /\ Live(m) /\ m.state # "queued" /\ n.status \in {"completed", "failed"}
       /\ j \notin Streams => Told(n.status, outbox'[j])
    \/ Live(n) /\ n.state # "queued" /\ RetryWrites(j)

OneTurn(j) ==
    /\ Turns(j, meta[j], meta'[j]) /\ outbox[j] \subseteq outbox'[j]
    /\ \A k \in Jobs : k # j => Kept(k)

RecordStep == (\A k \in Jobs : Kept(k)) \/ \E j \in Jobs : OneTurn(j)

\* The scripts leave a record alone or move a live one to the status they are
\* named for; none of them fails a record that is still queued.
LEMMA ScriptMoves ==
    ASSUME NEW m \in Meta, NEW s \in Slots, NEW fence \in Nat,
           NEW status \in {"completed", "failed"}
    PROVE  /\ \/ Fenced(m, s, fence, status) = m
              \/ Live(m) /\ Fenced(m, s, fence, status).status = status
           /\ \/ CancelScript(m) = m
              \/ Live(m) /\ CancelScript(m).status = "cancelled"
           /\ \/ UnknownStale(m) = m
              \/ Live(m) /\ m.state # "queued" /\ UnknownStale(m).status = "failed"
           /\ \/ UnknownLegacy(m) = m
              \/ Live(m) /\ m.state # "queued" /\ UnknownLegacy(m).status = "failed"
           /\ \/ UnknownOwner(m, s, fence) = m
              \/ Live(m) /\ UnknownOwner(m, s, fence).status = "failed"
           /\ Released(m, s, fence).status = m.status
           /\ Released(m, s, fence).state = m.state
  <1> USE DEF Meta
  <1>1. \/ Fenced(m, s, fence, status) = m
        \/ Live(m) /\ Fenced(m, s, fence, status).status = status
    BY Zenon DEF Fenced
  <1>2. \/ CancelScript(m) = m
        \/ Live(m) /\ CancelScript(m).status = "cancelled"
    BY Zenon DEF CancelScript
  <1>3. ASSUME NEW may \in BOOLEAN
        PROVE  \/ Unknown(m, may) = m
               \/ Live(m) /\ may /\ Unknown(m, may).status = "failed"
    BY Zenon DEF Unknown
  <1>4. /\ Released(m, s, fence).status = m.status
        /\ Released(m, s, fence).state = m.state
    BY Zenon DEF Released
  <1> QED
    BY Zenon, <1>1, <1>2, <1>3, <1>4 DEF UnknownStale, UnknownLegacy, UnknownOwner

\* The shape of every step that writes a record.
LEMMA OwnerMoves ==
    ASSUME NEW m \in Meta, NEW s \in Slots, NEW fence \in Nat
    PROVE  /\ Released(m, s, fence) \in Meta
           /\ Released(m, s, fence).status = m.status
           /\ Released(m, s, fence).state = m.state
           /\ UnknownOwner(m, s, fence) \in Meta
           /\ \/ UnknownOwner(m, s, fence) = m
              \/ Live(m) /\ UnknownOwner(m, s, fence).status = "failed"
  BY Scripts, ScriptMoves DEF Statuses, States

LEMMA ClaimMoves ==
    ASSUME NEW m \in Meta, NEW s \in Slots
    PROVE  /\ Claimed(m, s) \in Meta /\ Claimed(m, s).status = m.status
           /\ Claimed(m, s).state = "running"
  <1>1. Lease \in 0..Lease /\ m.fence + 1 \in Nat
    BY JobConstants DEF JobConstants, Meta
  <1> QED
    BY Zenon, <1>1 DEF Claimed, Meta, States

LEMMA WriteTurns ==
    ASSUME TypeOK, NEW j \in Jobs, NEW m \in Meta, NEW events, Write(j, m),
           UNCHANGED outbox \/ Intent(j, m, events), Turns(j, meta[j], m)
    PROVE  RecordStep
  <1>1. meta'[j] = m /\ \A k \in Jobs : k # j => meta'[k] = meta[k]
    BY Zenon, WriteOne DEF TypeOK
  <1>2. \A k \in Jobs : outbox[k] \subseteq outbox'[k]
    BY Zenon DEF TypeOK, Intent
  <1> QED
    BY Zenon, <1>1, <1>2 DEF RecordStep, OneTurn, Kept

\* A script that moves the record stores its intent.
LEMMA IntentStored ==
    ASSUME TypeOK, NEW j \in Jobs, NEW m, NEW events, Intent(j, m, events), m # meta[j]
    PROVE  events \subseteq outbox'[j]
  BY Zenon DEF TypeOK, Intent

LEMMA KeepTurns ==
    ASSUME TypeOK, UNCHANGED meta,
           UNCHANGED outbox \/ \E j \in Jobs, e \in Events :
                                  outbox' = [outbox EXCEPT ![j] = @ \cup {e}]
    PROVE  RecordStep
  BY Zenon DEF TypeOK, RecordStep, Kept

\* complete_job and fail_job of a worker: its job was claimed, so that the
\* record is not queued, and only the worker of a stream passes no intent.
LEMMA PublishTurns ==
    ASSUME IInv, NEW s \in Slots, NEW j \in Jobs, NEW status \in {"completed", "failed"},
           NEW event, NEW pending, worker[s][j].pc \in PastClaim,
           Publish(s, j, status, status, event, pending)
    PROVE  RecordStep
  <1> DEFINE m == Fenced(meta[j], s, worker[s][j].fence, status)
             events == IF s[2] = "sse" THEN {} ELSE {status}
  <1>1. TypeOK /\ meta[j] \in Meta /\ worker[s][j].fence \in Nat
    BY Zenon, Same DEF IInv, Worker
  <1>2. m \in Meta
    BY Zenon, <1>1, Scripts DEF Statuses, States
  <1>3. m = meta[j] \/ (Live(meta[j]) /\ m.status = status)
    BY SMTT(20), <1>1, ScriptMoves
  <1>4. meta[j].state # "queued"
    BY DEF IInv, ClaimedOnce
  <1>5. j \notin Streams => s[2] # "sse"
    BY Zenon DEF IInv, StreamsOnly, PastClaim
  <1>6. Write(j, m) /\ Intent(j, m, events)
    BY Zenon DEF Publish
  <1> HIDE DEF m
  <1>7. m # meta[j] /\ j \notin Streams => Told(status, outbox'[j])
    BY Zenon, <1>1, <1>5, <1>6, IntentStored DEF Told
  <1>8. Turns(j, meta[j], m)
    BY Zenon, <1>3, <1>4, <1>7 DEF Turns
  <1> HIDE DEF events
  <1> QED
    BY Zenon, <1>1, <1>2, <1>6, <1>8, WriteTurns

LEMMA WorkerTurns ==
    ASSUME IInv, NEW s \in Slots, NEW j \in Jobs,
           WorkerStep(s, j) \/ Heartbeat(s, j) \/ HeartbeatDies(s, j)
    PROVE  RecordStep
  <1> DEFINE v == worker[s][j]
  <1>0. TypeOK /\ meta[j] \in Meta /\ v \in Worker /\ v.fence \in Nat /\ v.buf \in Meta
    BY Zenon, Same DEF IInv, Worker
  <1>1. CASE Claim(s, j)
    <2>1. CASE CanClaim(meta[j])
      <3> DEFINE m == Claimed(meta[j], s)
      <3>2. m \in Meta /\ m.status = "processing" /\ m.state = "running"
        BY Zenon, <1>0, <2>1, ClaimMoves DEF CanClaim
      <3>3. Write(j, m) /\ UNCHANGED outbox
        BY Zenon, <1>1, <2>1 DEF Claim
      <3> HIDE DEF m
      <3> QED
        BY Zenon, <1>0, <2>1, <3>2, <3>3, WriteTurns DEF Turns
    <2>2. CASE ~CanClaim(meta[j])
      BY Zenon, <1>0, <1>1, <2>2, KeepTurns DEF Claim
    <2> QED
      BY Zenon, <2>1, <2>2
  <1>2. CASE WorkSucceeds(s, j) \/ WorkFails(s, j)
    BY Zenon, <1>2, PublishTurns DEF WorkSucceeds, WorkFails, PastClaim, Pcs
  <1>3. CASE RateLimited(s, j) /\ v.attempt >= MaxAttempts
    BY Zenon, <1>3, PublishTurns DEF RateLimited, PastClaim, Pcs
  <1>4. CASE ScheduleRetry(s, j) \/ ResumeRetry(s, j)
    <2> DEFINE m(status) == [v.buf EXCEPT !.status = status]
    <2>1. ASSUME NEW status \in {"retry_scheduled", "processing"}
          PROVE  m(status) \in Meta /\ Live(m(status)) /\ m(status).state = v.buf.state
      BY Zenon, <1>0 DEF Meta, Statuses, Live
    <2>2. /\ v.pc \in {"sched", "resume"} /\ UNCHANGED outbox
          /\ \E status \in {"retry_scheduled", "processing"} : Write(j, m(status))
      BY Zenon, <1>4 DEF ScheduleRetry, ResumeRetry
    <2>3. v.buf.state # "queued" /\ RetryWrites(j)
      BY Zenon, <1>4, <2>2 DEF IInv, BufferKept, RetryWrites
    <2> HIDE DEF m
    <2>4. ASSUME NEW status \in {"retry_scheduled", "processing"}
          PROVE  Turns(j, meta[j], m(status))
      BY Zenon, <2>1, <2>3 DEF Turns
    <2> QED
      BY Zenon, <1>0, <2>1, <2>2, <2>4, WriteTurns
  <1>5. CASE Mark(s, j)
    <2> DEFINE m == UnknownOwner(meta[j], s, v.fence)
    <2>1. m \in Meta /\ (m = meta[j] \/ (Live(meta[j]) /\ m.status = "failed"))
      BY Zenon, <1>0, OwnerMoves
    <2>2. Write(j, m) /\ Intent(j, m, {"unknown"})
      BY Zenon, <1>5 DEF Mark
    <2>3. meta[j].state # "queued"
      BY <1>5 DEF Mark, IInv, ClaimedOnce, PastClaim, Pcs
    <2> HIDE DEF m
    <2>4. m # meta[j] => Told("failed", outbox'[j])
      BY Zenon, <1>0, <2>2, IntentStored DEF Told
    <2>5. Turns(j, meta[j], m)
      BY Zenon, <2>1, <2>3, <2>4 DEF Turns
    <2> QED
      BY Zenon, <1>0, <2>1, <2>2, <2>5, WriteTurns
  <1>6. CASE Release(s, j)
    <2> DEFINE m == Released(meta[j], s, v.fence)
    <2>1. m \in Meta /\ m.status = meta[j].status /\ m.state = meta[j].state
      BY Zenon, <1>0, OwnerMoves
    <2>2. Write(j, m) /\ UNCHANGED outbox
      BY Zenon, <1>6 DEF Release
    <2> HIDE DEF m
    <2>3. Turns(j, meta[j], m)
      BY Zenon, <2>1 DEF Turns
    <2> QED
      BY Zenon, <1>0, <2>1, <2>2, <2>3, WriteTurns
  <1>7. CASE Heartbeat(s, j)
    <2> DEFINE m == [meta[j] EXCEPT !.lease = Lease]
    <2>1. Lease \in 0..Lease
      BY JobConstants DEF JobConstants
    <2>2. m \in Meta /\ m.status = meta[j].status /\ m.state = meta[j].state
      BY Zenon, <1>0, <2>1 DEF Meta
    <2>3. (Write(j, m) \/ UNCHANGED meta) /\ UNCHANGED outbox
      BY Zenon, <1>7 DEF Heartbeat
    <2> HIDE DEF m
    <2> QED
      BY Zenon, <1>0, <2>2, <2>3, WriteTurns, KeepTurns DEF Turns
  <1>8. CASE \/ WorkSeesCancel(s, j) \/ (RateLimited(s, j) /\ ~(v.attempt >= MaxAttempts))
             \/ Delivered(s, j) \/ Wake(s, j) \/ Ending(s, j) \/ HeartbeatDies(s, j)
    <2>1. UNCHANGED meta /\ UNCHANGED outbox
      BY Zenon, <1>8 DEF WorkSeesCancel, RateLimited, Delivered, Wake, Ending, HeartbeatDies
    <2> QED
      BY Zenon, <1>0, <2>1, KeepTurns
  <1> QED
    BY Zenon, <1>1, <1>2, <1>3, <1>4, <1>5, <1>6, <1>7, <1>8 DEF WorkerStep

LEMMA RequestTurns ==
    ASSUME IInv, NEW p \in Procs, NEW j \in Jobs,
           \/ Submit(p, j) \/ Delete(p, j) \/ Disconnect(p, j) \/ StreamClosed(p, j)
           \/ ScanStep(p, j) \/ ShutdownWorker(p, j)
           \/ \E e \in Events : Enqueue(p, j, e) \/ EnqueueRaises(p, j, e)
           \/ \E mode \in {"stale", "legacy"} : ScanMark(p, j, mode)
    PROVE  RecordStep
  <1>0. TypeOK /\ meta[j] \in Meta /\ TaskOf(p) \in Slots
    BY Zenon DEF IInv, TypeOK, TaskOf, Slots
  <1>1. CASE Submit(p, j)
    BY Zenon, <1>0, <1>1, Constants, WriteTurns DEF Submit, Queued, Turns
  <1>2. CASE Delete(p, j) \/ Disconnect(p, j)
    <2> DEFINE m == CancelScript(meta[j])
    <2>1. m \in Meta /\ (m = meta[j] \/ (Live(meta[j]) /\ m.status = "cancelled"))
      BY Zenon, <1>0, Scripts, ScriptMoves DEF Statuses, States
    <2>2. \/ Write(j, m) /\ (UNCHANGED outbox \/ \E events : Intent(j, m, events))
          \/ UNCHANGED <<meta, outbox>>
      BY Zenon, <1>2 DEF Delete, Disconnect
    <2> HIDE DEF m
    <2>3. Turns(j, meta[j], m)
      BY Zenon, <2>1 DEF Turns
    <2> QED
      BY Zenon, <1>0, <2>1, <2>2, <2>3, WriteTurns, KeepTurns
  <1>3. CASE ScanStep(p, j)
    BY Zenon, <1>0, <1>3, KeepTurns DEF ScanStep
  <1>4. CASE StreamClosed(p, j) \/ ShutdownWorker(p, j)
    <2>1. PICK s \in Slots : ClaimGoesOn(s, j)
      BY Zenon, <1>0, <1>4 DEF StreamClosed, ShutdownWorker, SseOf, Slots
    <2> DEFINE m == Claimed(meta[j], s)
    <2>2. m \in Meta /\ m.status = meta[j].status /\ m.state = "running"
      BY Zenon, <1>0, ClaimMoves
    <2>3. UNCHANGED outbox /\ (UNCHANGED meta \/ (CanClaim(meta[j]) /\ Write(j, m)))
      BY Zenon, <1>4, <2>1 DEF StreamClosed, ShutdownWorker, ClaimGoesOn
    <2> HIDE DEF m
    <2>4. CASE UNCHANGED meta
      BY Zenon, <1>0, <2>3, <2>4, KeepTurns
    <2>5. CASE CanClaim(meta[j]) /\ Write(j, m)
      <3>1. Turns(j, meta[j], m)
        BY Zenon, <2>2, <2>5 DEF Turns, CanClaim
      <3> QED
        BY Zenon, <1>0, <2>2, <2>3, <2>5, <3>1, WriteTurns
    <2> QED
      BY Zenon, <2>3, <2>4, <2>5
  <1>5. ASSUME NEW e \in Events, Enqueue(p, j, e) PROVE RecordStep
    BY Zenon, <1>0, <1>5, KeepTurns DEF Enqueue
  <1>6. ASSUME NEW e \in Events, EnqueueRaises(p, j, e) PROVE RecordStep
    <2> DEFINE fails == Publish(TaskOf(p), j, "failed", "failed", "failed_ok", {<<j, e>>})
    <2>1. CASE worker[TaskOf(p)][j].pc \in {"deliver", "deliver_retry"} /\ fails
      <3>1. worker[TaskOf(p)][j].pc \in PastClaim
        BY Zenon, <2>1 DEF PastClaim, Pcs
      <3> QED
        BY Zenon, <1>0, <2>1, <3>1, PublishTurns
    <2>2. CASE ~(worker[TaskOf(p)][j].pc \in {"deliver", "deliver_retry"} /\ fails)
      <3>1. UNCHANGED meta /\ UNCHANGED outbox
        BY <1>6, <2>2, Zenon DEF EnqueueRaises
      <3> QED
        BY Zenon, <1>0, <3>1, KeepTurns
    <2> QED
      BY Zenon, <2>1, <2>2
  <1>7. ASSUME NEW mode \in {"stale", "legacy"}, ScanMark(p, j, mode) PROVE RecordStep
    <2> DEFINE m == IF mode = "stale" THEN UnknownStale(meta[j]) ELSE UnknownLegacy(meta[j])
    <2>1. /\ m \in Meta
          /\ \/ m = meta[j]
             \/ Live(meta[j]) /\ meta[j].state # "queued" /\ m.status = "failed"
      <3>1. /\ "failed" \in Statuses \ {"none"} /\ "failed" \in States /\ 0 \in Nat
            /\ "failed" \in {"completed", "failed"}
        BY Zenon DEF Statuses, States
      <3>2. UnknownStale(meta[j]) \in Meta /\ UnknownLegacy(meta[j]) \in Meta
        BY Zenon, <1>0, <3>1, Scripts
      <3>3. /\ \/ UnknownStale(meta[j]) = meta[j]
               \/ /\ Live(meta[j]) /\ meta[j].state # "queued"
                  /\ UnknownStale(meta[j]).status = "failed"
            /\ \/ UnknownLegacy(meta[j]) = meta[j]
               \/ /\ Live(meta[j]) /\ meta[j].state # "queued"
                  /\ UnknownLegacy(meta[j]).status = "failed"
        BY Zenon, <1>0, <3>1, ScriptMoves
      <3> QED
        BY ONLY Zenon, <3>2, <3>3
    <2>2. Write(j, m) /\ Intent(j, m, {"unknown"})
      BY Zenon, <1>7 DEF ScanMark
    <2> HIDE DEF m
    <2>3. m # meta[j] => Told("failed", outbox'[j])
      BY Zenon, <1>0, <2>2, IntentStored DEF Told
    <2>4. Turns(j, meta[j], m)
      BY Zenon, <2>1, <2>3 DEF Turns
    <2> QED
      BY Zenon, <1>0, <2>1, <2>2, <2>4, WriteTurns
  <1> QED
    BY Zenon, <1>1, <1>2, <1>3, <1>4, <1>5, <1>6, <1>7

\* Every step of the protocol is a step of at most one record, of one of the
\* kinds above.
LEMMA NextTurns == IInv /\ [Next]_vars => RecordStep
  <1> SUFFICES ASSUME IInv, [Next]_vars PROVE RecordStep
    BY Zenon
  <1>1. TypeOK
    BY Zenon DEF IInv
  <1>2. ASSUME NEW p \in Procs,
               \/ ScanStart(p) \/ RecoveryDies(p) \/ Shutdown(p) \/ Exit(p) \/ Crash(p)
               \/ Start(p)
        PROVE  RecordStep
    BY Zenon, <1>1, <1>2, KeepTurns DEF ScanStart, RecoveryDies, Shutdown, Exit, Crash, Start, Gone
  <1>3. CASE Tick
    <2>1. ASSUME NEW m \in Meta
          PROVE  Aged(m).status = m.status /\ Aged(m).state = m.state
      BY Zenon DEF Aged, Meta
    <2> QED
      BY Zenon, <1>1, <1>3, <2>1 DEF Tick, TypeOK, RecordStep, Kept
  <1>4. CASE UNCHANGED vars
    BY Zenon, <1>1, <1>4, KeepTurns DEF vars
  <1> QED
    BY Zenon, <1>2, <1>3, <1>4, WorkerTurns, RequestTurns DEF Next

-----------------------------------------------------------------------------
(* The intent stored with the terminal status                              *)

\* IntentRecorded for the jobs that are not streamed.
IntentsStored == \A j \in Jobs \ Streams : Told(meta[j].status, outbox[j])

\* In every reachable state a job outside Streams that is completed or failed
\* has the webhook intent of that status in its outbox, whatever crashed
\* between publication and delivery and whatever the retry path overwrote.
THEOREM JobsIntentsStored == Spec => []IntentsStored
  <1>1. Init => IntentsStored
    <2> SUFFICES ASSUME Init, NEW j \in Jobs
                 PROVE  meta[j].status \notin {"completed", "failed"}
      BY Zenon DEF IntentsStored, Told
    <2> QED
      BY Zenon DEF Init, NoMeta
  <1>2. IInv /\ IntentsStored /\ [Next]_vars => IntentsStored'
    <2> SUFFICES ASSUME IInv, IntentsStored, [Next]_vars, NEW j \in Jobs \ Streams
                 PROVE  Told(meta'[j].status, outbox'[j])
      BY Zenon DEF IntentsStored
    <2>1. ASSUME meta'[j].status = meta[j].status, outbox[j] \subseteq outbox'[j]
          PROVE  Told(meta'[j].status, outbox'[j])
      BY Zenon, <2>1 DEF IntentsStored, Told
    <2>2. RecordStep
      BY Zenon, NextTurns
    <2>3. CASE \A k \in Jobs : Kept(k)
      BY Zenon, <2>1, <2>3 DEF Kept
    <2>4. ASSUME NEW k \in Jobs, OneTurn(k)
          PROVE  Told(meta'[j].status, outbox'[j])
      <3>1. CASE k # j
        BY Zenon, <2>1, <2>4, <3>1 DEF OneTurn, Kept
      <3>2. CASE k = j
        BY Zenon, <2>1, <2>4, <3>2 DEF OneTurn, Turns, Told, Live
      <3> QED
        BY Zenon, <3>1, <3>2
    <2> QED
      BY Zenon, <2>2, <2>3, <2>4 DEF RecordStep
  <1> QED
    BY <1>1, <1>2, JobsInductive, PTL DEF Spec

\* Where no crawl is answered by an inline stream, every terminal status has
\* its intent: complete_job, fail_job and mark_outcome_unknown write both in
\* one script.
THEOREM JobsIntentRecorded ==
    ASSUME Streams = {}
    PROVE  Spec => []IntentRecorded
  <1>1. IntentsStored => IntentRecorded
    BY Zenon DEF IntentsStored, IntentRecorded, Told
  <1> QED
    BY <1>1, JobsIntentsStored, PTL

-----------------------------------------------------------------------------
(* The lifecycle                                                           *)

\* No job can be retried: the policy allows one attempt, or only crawls run.
NoRetries == MaxAttempts = 1 \/ Jobs \subseteq Crawls

\* The steps of JobLifecycle, and standing still, as moves of one phase.
Along(a, b) ==
    \/ b = a
    \/ a = "absent" /\ b = "accepted"
    \/ a = "accepted" /\ b = "executing"
    \/ a = "executing" /\ b \in {"completed", "failed", "cancelled"}
    \/ a = "accepted" /\ b = "cancelled"

\* A record moves along the lifecycle unless a retry overwrites it.
LEMMA PhaseMoves ==
    ASSUME NEW j, NEW m \in Meta, NEW n \in Meta, Turns(j, m, n)
    PROVE  \/ Along(PhaseOf(m), PhaseOf(n))
           \/ RetryWrites(j) /\ PhaseOf(n) = "executing"
  <1>1. CASE n.status = m.status /\ n.state = m.state
    BY Zenon, <1>1 DEF PhaseOf, Live, Along
  <1>2. CASE m.status = "none" /\ n.status = "processing" /\ n.state = "queued"
    BY Zenon, <1>2 DEF PhaseOf, Live, Along
  <1>3. CASE CanClaim(m) /\ n.status = "processing" /\ n.state = "running"
    BY Zenon, <1>3 DEF PhaseOf, Live, CanClaim, Along
  <1>4. CASE Live(m) /\ n.status = "cancelled"
    BY Zenon, <1>4 DEF PhaseOf, Live, Along
  <1>5. CASE Live(m) /\ m.state # "queued" /\ n.status \in {"completed", "failed"}
    BY Zenon, <1>5 DEF PhaseOf, Live, Along
  <1>6. CASE Live(n) /\ n.state # "queued" /\ RetryWrites(j)
    BY Zenon, <1>6 DEF PhaseOf, Live
  <1> QED
    BY Zenon, <1>1, <1>2, <1>3, <1>4, <1>5, <1>6 DEF Turns

\* One step of the protocol moves the phase of every job along the lifecycle,
\* or puts it back to executing by the unfenced SET of its own retry.
LEMMA StepMoves ==
    ASSUME IInv, [Next]_vars, NEW j \in Jobs
    PROVE  \/ Along(PhaseOf(meta[j]), PhaseOf(meta'[j]))
           \/ RetryWrites(j) /\ PhaseOf(meta'[j]) = "executing"
  <1>1. meta[j] \in Meta /\ meta'[j] \in Meta /\ RecordStep
    BY Zenon, NextIInv, NextTurns DEF IInv, TypeOK
  <1>2. ASSUME Kept(j) PROVE PhaseOf(meta'[j]) = PhaseOf(meta[j])
    BY Zenon, <1>2 DEF Kept, PhaseOf, Live
  <1>3. Kept(j) \/ Turns(j, meta[j], meta'[j])
    BY Zenon, <1>1 DEF RecordStep, OneTurn
  <1> QED
    BY Zenon, <1>1, <1>2, <1>3, PhaseMoves DEF Along

\* With any number of retries: no worker, scan, DELETE or late publication ever
\* takes a job back in its lifecycle or out of a terminal status, except the
\* two SETs of its own retry path, and those never make it dispatchable again.
THEOREM JobsOnlyRetriesReopen ==
    Spec => [][\A j \in Jobs :
                  \/ Along(PhaseOf(meta[j]), PhaseOf(meta'[j]))
                  \/ RetryWrites(j) /\ PhaseOf(meta'[j]) = "executing"]_vars
  <1>1. IInv /\ [Next]_vars =>
          \A j \in Jobs :
             \/ Along(PhaseOf(meta[j]), PhaseOf(meta'[j]))
             \/ RetryWrites(j) /\ PhaseOf(meta'[j]) = "executing"
    BY Zenon, StepMoves
  <1> QED
    BY <1>1, JobsInductive, PTL DEF Spec

-----------------------------------------------------------------------------
(* What the recovery scan can do about a live record                       *)

\* The copy of a retry is kept, or is taken from a live record past the claim.
BufferStep(s, j) ==
    worker'[s][j].pc \in {"sched", "resume"} =>
       \/ /\ worker[s][j].pc \in {"sched", "resume"}
          /\ worker'[s][j].buf.state = worker[s][j].buf.state
       \/ /\ worker[s][j].pc \in PastClaim
          /\ Live(meta[j]) /\ worker'[s][j].buf = meta[j]

LEMMA PutBuffer ==
    ASSUME TypeOK, NEW s \in Slots, NEW j \in Jobs, NEW w, Put(s, j, w),
           \/ w.pc \notin {"sched", "resume"}
           \/ w.pc = worker[s][j].pc /\ w.buf = worker[s][j].buf
           \/ worker[s][j].pc \in PastClaim /\ Live(meta[j]) /\ w.buf = meta[j]
    PROVE  \A t \in Slots, k \in Jobs : BufferStep(t, k)
  <1> SUFFICES ASSUME NEW t \in Slots, NEW k \in Jobs PROVE BufferStep(t, k)
    BY Zenon
  <1>1. worker'[s][j] = w
    BY Zenon DEF TypeOK, Put
  <1>2. ASSUME t # s \/ k # j PROVE worker'[t][k] = worker[t][k]
    BY Zenon, <1>2 DEF TypeOK, Put
  <1>3. CASE t = s /\ k = j
    BY Zenon, <1>1, <1>3 DEF BufferStep
  <1>4. CASE t # s \/ k # j
    BY Zenon, <1>2, <1>4 DEF BufferStep
  <1> QED
    BY Zenon, <1>3, <1>4

LEMMA WorkerBuffers ==
    ASSUME IInv, NEW s \in Slots, NEW j \in Jobs,
           WorkerStep(s, j) \/ Heartbeat(s, j) \/ HeartbeatDies(s, j)
    PROVE  \A t \in Slots, k \in Jobs : BufferStep(t, k)
  <1> DEFINE v == worker[s][j]
             Safe(w) == \/ w.pc \notin {"sched", "resume"}
                        \/ w.pc = v.pc /\ w.buf = v.buf
                        \/ v.pc \in PastClaim /\ Live(meta[j]) /\ w.buf = meta[j]
  <1>1. TypeOK /\ v \in Worker
    BY Zenon DEF IInv, TypeOK
  <1>2. ASSUME NEW w, Safe(w), Put(s, j, w) PROVE \A t \in Slots, k \in Jobs : BufferStep(t, k)
    BY Zenon, <1>1, <1>2, PutBuffer
  <1>3. ASSUME UNCHANGED worker PROVE \A t \in Slots, k \in Jobs : BufferStep(t, k)
    BY Zenon, <1>3 DEF BufferStep
  <1>4. \A ev, hb, attempt : \A pc \in Pcs \ {"sched", "resume"} :
          /\ Safe([v EXCEPT !.pc = pc])
          /\ Safe([v EXCEPT !.pc = pc, !.ev = ev])
          /\ Safe([v EXCEPT !.pc = pc, !.hb = hb])
          /\ Safe([v EXCEPT !.pc = pc, !.buf = NoMeta, !.ev = ev])
          /\ Safe([v EXCEPT !.pc = pc, !.buf = NoMeta, !.attempt = attempt])
    BY <1>1 DEF Worker
  <1>5. /\ Safe(Idle) /\ Safe([v EXCEPT !.hb = "off"])
        /\ \A fence, attempt, hb :
              Safe([Idle EXCEPT !.pc = "work", !.fence = fence, !.attempt = attempt, !.hb = hb])
    BY Zenon, <1>1 DEF Worker, Idle
  <1>6. ASSUME v.pc \in PastClaim, Live(meta[j])
        PROVE  \A pc : Safe([v EXCEPT !.pc = pc, !.buf = meta[j]])
    BY Zenon, <1>1, <1>6 DEF Worker
  <1>7. {"deliver", "ending", "deliver_retry", "sleep", "work", "marking", "releasing"}
           \subseteq Pcs \ {"sched", "resume"}
    BY Zenon DEF Pcs
  <1> HIDE DEF Safe
  <1>8. ASSUME NEW status, NEW intent, NEW event, NEW pending,
               Publish(s, j, status, intent, event, pending)
        PROVE  \A t \in Slots, k \in Jobs : BufferStep(t, k)
    <2>1. \E pc \in {"deliver", "ending"} : Put(s, j, [v EXCEPT !.pc = pc, !.ev = event])
      BY Zenon, <1>8 DEF Publish
    <2> QED
      BY Zenon, <1>2, <1>4, <1>7, <2>1
  <1>9. CASE Claim(s, j) \/ Release(s, j) \/ Heartbeat(s, j) \/ HeartbeatDies(s, j)
    <2>1. \/ UNCHANGED worker \/ Put(s, j, Idle) \/ Put(s, j, [v EXCEPT !.hb = "off"])
          \/ Put(s, j, [Idle EXCEPT !.pc = "work", !.fence = meta[j].fence + 1,
                                    !.attempt = 1, !.hb = "on"])
      BY Zenon, <1>9 DEF Claim, Release, Heartbeat, HeartbeatDies
    <2>2. Safe([Idle EXCEPT !.pc = "work", !.fence = meta[j].fence + 1, !.attempt = 1, !.hb = "on"])
      BY Zenon, <1>5
    <2>3. Safe(Idle) /\ Safe([v EXCEPT !.hb = "off"])
      BY Zenon, <1>5
    <2> QED
      BY Zenon, <1>2, <1>3, <2>1, <2>2, <2>3
  <1>10. CASE WorkSucceeds(s, j) \/ WorkFails(s, j)
    BY Zenon, <1>8, <1>10 DEF WorkSucceeds, WorkFails
  <1>11. CASE WorkSeesCancel(s, j) \/ ScheduleRetry(s, j) \/ ResumeRetry(s, j) \/ Mark(s, j)
    BY Zenon, <1>2, <1>4, <1>7, <1>11 DEF WorkSeesCancel, ScheduleRetry, ResumeRetry, Mark
  <1>12. CASE Delivered(s, j)
    <2>1. \E pc \in {"ending", "sleep"} : Put(s, j, [v EXCEPT !.pc = pc, !.ev = "none"])
      BY Zenon, <1>12 DEF Delivered
    <2> QED
      BY Zenon, <1>2, <1>4, <1>7, <2>1
  <1>13. CASE Ending(s, j)
    BY Zenon, <1>2, <1>4, <1>7, <1>13 DEF Ending
  <1>14. CASE RateLimited(s, j)
    <2>1. v.pc \in PastClaim
      BY Zenon, <1>14 DEF RateLimited, PastClaim, Pcs
    <2>2. meta[j].status = "processing" => Live(meta[j])
      BY Zenon DEF Live
    <2>3. \/ Publish(s, j, "failed", "failed", "failed", {})
          \/ Put(s, j, IF meta[j].status = "processing"
                         THEN [v EXCEPT !.pc = "sched", !.buf = meta[j]]
                         ELSE [v EXCEPT !.pc = "ending"])
      BY Zenon, <1>14 DEF RateLimited
    <2> QED
      BY Zenon, <1>2, <1>4, <1>6, <1>7, <1>8, <2>1, <2>2, <2>3
  <1>15. CASE Wake(s, j)
    <2>1. v.pc \in PastClaim
      BY Zenon, <1>15 DEF Wake, PastClaim, Pcs
    <2>2. meta[j].status = "retry_scheduled" => Live(meta[j])
      BY Zenon DEF Live
    <2> QED
      BY Zenon, <1>2, <1>4, <1>6, <1>7, <1>15, <2>1, <2>2 DEF Wake
  <1> QED
    BY Zenon, <1>9, <1>10, <1>11, <1>12, <1>13, <1>14, <1>15 DEF WorkerStep

LEMMA RequestBuffers ==
    ASSUME IInv, NEW p \in Procs, NEW j \in Jobs,
           \/ Submit(p, j) \/ Delete(p, j) \/ Disconnect(p, j) \/ StreamClosed(p, j)
           \/ ScanStep(p, j) \/ ShutdownWorker(p, j)
           \/ \E e \in Events : Enqueue(p, j, e) \/ EnqueueRaises(p, j, e)
           \/ \E mode \in {"stale", "legacy"} : ScanMark(p, j, mode)
    PROVE  \A t \in Slots, k \in Jobs : BufferStep(t, k)
  <1>1. TypeOK /\ TaskOf(p) \in Slots /\ SseOf(p) \in Slots
    BY Zenon DEF IInv, TaskOf, SseOf, Slots
  <1>2. \A s \in Slots : worker[s][j] \in Worker
    BY Zenon, <1>1 DEF TypeOK
  <1>3. ASSUME UNCHANGED worker PROVE \A t \in Slots, k \in Jobs : BufferStep(t, k)
    BY Zenon, <1>3 DEF BufferStep
  <1>4. ASSUME NEW s \in Slots, NEW w, Put(s, j, w), w.pc \notin {"sched", "resume"}
        PROVE  \A t \in Slots, k \in Jobs : BufferStep(t, k)
    BY Zenon, <1>1, <1>4, PutBuffer
  <1>5. /\ [Idle EXCEPT !.pc = "claiming"].pc \notin {"sched", "resume"}
        /\ \A s \in Slots : Interrupted(s, j).pc \notin {"sched", "resume"}
        /\ \A ev : \A s \in Slots, pc \in {"deliver", "ending", "marking"} :
              /\ [worker[s][j] EXCEPT !.pc = pc].pc \notin {"sched", "resume"}
              /\ [worker[s][j] EXCEPT !.pc = pc, !.ev = ev].pc \notin {"sched", "resume"}
    BY Zenon, <1>2 DEF Idle, Interrupted, Worker
  <1>6. CASE Submit(p, j)
    BY Zenon, <1>1, <1>4, <1>5, <1>6 DEF Submit
  <1>7. CASE Delete(p, j) \/ StreamClosed(p, j) \/ ShutdownWorker(p, j)
    BY Zenon, <1>1, <1>3, <1>4, <1>5, <1>7 DEF Delete, StreamClosed, ShutdownWorker
  <1>8. CASE Disconnect(p, j)
    BY Zenon, <1>1, <1>4, <1>5, <1>8 DEF Disconnect
  <1>9. CASE ScanStep(p, j)
    BY Zenon, <1>1, <1>3, <1>4, <1>5, <1>9 DEF ScanStep, SubmitRecovered
  <1>10. ASSUME NEW e \in Events, EnqueueRaises(p, j, e)
         PROVE  \A t \in Slots, k \in Jobs : BufferStep(t, k)
    <2> DEFINE s == TaskOf(p)
    <2>1. \/ UNCHANGED worker
          \/ Put(s, j, [worker[s][j] EXCEPT !.pc = "marking", !.ev = "none"])
          \/ \E pc \in {"deliver", "ending"} :
                Put(s, j, [worker[s][j] EXCEPT !.pc = pc, !.ev = "failed_ok"])
      BY Zenon, <1>10 DEF EnqueueRaises, Publish
    <2> QED
      BY Zenon, <1>1, <1>3, <1>4, <1>5, <2>1
  <1>11. CASE \/ \E e \in Events : Enqueue(p, j, e)
              \/ \E mode \in {"stale", "legacy"} : ScanMark(p, j, mode)
    BY Zenon, <1>3, <1>11 DEF Enqueue, ScanMark
  <1> QED
    BY Zenon, <1>6, <1>7, <1>8, <1>9, <1>10, <1>11

LEMMA NextBuffers ==
    ASSUME IInv, [Next]_vars
    PROVE  \A t \in Slots, k \in Jobs : BufferStep(t, k)
  <1>1. ASSUME UNCHANGED worker PROVE \A t \in Slots, k \in Jobs : BufferStep(t, k)
    BY Zenon, <1>1 DEF BufferStep
  <1>2. ASSUME NEW p \in Procs,
               \/ ScanStart(p) \/ RecoveryDies(p) \/ Shutdown(p) \/ Start(p)
        PROVE  UNCHANGED worker
    BY Zenon, <1>2 DEF ScanStart, RecoveryDies, Shutdown, Start
  <1>3. ASSUME NEW p \in Procs, Exit(p) \/ Crash(p)
        PROVE  \A t \in Slots, k \in Jobs : BufferStep(t, k)
    <2> SUFFICES ASSUME NEW t \in Slots, NEW k \in Jobs PROVE BufferStep(t, k)
      BY Zenon
    <2>1. worker'[t][k] \in {Idle, worker[t][k]}
      BY SMTT(20), <1>3 DEF Exit, Crash, Gone
    <2>2. Idle.pc = "none"
      BY Zenon DEF Idle
    <2> QED
      BY Zenon, <2>1, <2>2 DEF BufferStep
  <1>4. ASSUME Tick PROVE \A t \in Slots, k \in Jobs : BufferStep(t, k)
    <2> SUFFICES ASSUME NEW t \in Slots, NEW k \in Jobs PROVE BufferStep(t, k)
      BY Zenon
    <2> DEFINE w == worker[t][k]
    <2>1. w \in Worker /\ worker'[t][k] = [w EXCEPT !.buf = Aged(w.buf)]
      BY Zenon, <1>4 DEF Tick, IInv, TypeOK
    <2>2. w.buf \in Meta
      BY Zenon, <2>1 DEF Worker
    <2>3. Aged(w.buf).state = w.buf.state
      BY Zenon, <2>2 DEF Aged, Meta
    <2>4. worker'[t][k].pc = w.pc /\ worker'[t][k].buf = Aged(w.buf)
      BY Zenon, <2>1 DEF Worker
    <2> QED
      BY Zenon, <2>3, <2>4 DEF BufferStep
  <1>5. ASSUME UNCHANGED vars PROVE UNCHANGED worker
    BY Zenon, <1>5 DEF vars
  <1> QED
    BY Zenon, <1>1, <1>2, <1>3, <1>4, <1>5, WorkerBuffers, RequestBuffers DEF Next

\* A live record is in one of the states that recover_queued_jobs looks for,
\* and so is the copy a retry writes back.
Scannable(m) ==
    Live(m) => \/ m.state \in {"none", "running"}
               \/ m.state = "queued" /\ m.status = "processing"

RecordsScannable ==
    /\ \A j \in Jobs : Scannable(meta[j])
    /\ \A s \in Slots, j \in Jobs :
          worker[s][j].pc \in {"sched", "resume"} => worker[s][j].buf.state \in {"none", "running"}

LEMMA NextScannable == IInv /\ RecordsScannable /\ [Next]_vars => RecordsScannable'
  <1> SUFFICES ASSUME IInv, RecordsScannable, [Next]_vars PROVE RecordsScannable'
    BY Zenon
  <1>1. ASSUME NEW j \in Jobs PROVE Scannable(meta'[j])
    <2>1. Scannable(meta[j])
      BY Zenon DEF RecordsScannable
    <2>2. Kept(j) \/ Turns(j, meta[j], meta'[j])
      BY Zenon, NextTurns DEF RecordStep, OneTurn
    <2>3. ASSUME RetryWrites(j) PROVE meta'[j].state \in {"none", "running"}
      <3>1. PICK s \in Slots : ScheduleRetry(s, j) \/ ResumeRetry(s, j)
        BY Zenon, <2>3 DEF RetryWrites
      <3>2. worker[s][j].buf \in Meta /\ worker[s][j].buf.state \in {"none", "running"}
        BY <3>1 DEF ScheduleRetry, ResumeRetry, RecordsScannable, IInv, TypeOK, Worker
      <3>3. \E status : meta'[j] = [worker[s][j].buf EXCEPT !.status = status]
        BY Zenon, <3>1 DEF ScheduleRetry, ResumeRetry, Write, IInv, TypeOK
      <3> QED
        BY Zenon, <3>2, <3>3 DEF Meta
    <2>4. ASSUME Turns(j, meta[j], meta'[j]) PROVE Scannable(meta'[j])
      BY Zenon, <2>1, <2>3, <2>4 DEF Turns, Scannable, Live
    <2>5. ASSUME Kept(j) PROVE Scannable(meta'[j])
      BY Zenon, <2>1, <2>5 DEF Kept, Scannable, Live
    <2> QED
      BY Zenon, <2>2, <2>4, <2>5
  <1>2. ASSUME NEW s \in Slots, NEW j \in Jobs, worker'[s][j].pc \in {"sched", "resume"}
        PROVE  worker'[s][j].buf.state \in {"none", "running"}
    <2>1. BufferStep(s, j)
      BY Zenon, NextBuffers
    <2>2. CASE /\ worker[s][j].pc \in {"sched", "resume"}
               /\ worker'[s][j].buf.state = worker[s][j].buf.state
      BY Zenon, <2>2 DEF RecordsScannable
    <2>3. CASE /\ worker[s][j].pc \in PastClaim
               /\ Live(meta[j]) /\ worker'[s][j].buf = meta[j]
      <3>1. claims[j] = 1 /\ (meta[j].state = "queued" => claims[j] = 0)
        BY Zenon, <2>3 DEF IInv, ClaimedOnce
      <3> QED
        BY SMTT(20), <2>3, <3>1 DEF RecordsScannable, Scannable
    <2> QED
      BY Zenon, <1>2, <2>1, <2>2, <2>3 DEF BufferStep
  <1> QED
    BY Zenon, <1>1, <1>2 DEF RecordsScannable

\* The scan can settle record m: its claim is still open, or its mark of the
\* mode it chooses takes effect, for a leased record once the lease has run out.
ScanResolves(m) ==
    \/ CanClaim(m)
    \/ m.state = "none" /\ ~Live(UnknownLegacy(m))
    \/ m.state = "running" /\ (m.lease = 0 => ~Live(UnknownStale(m)))

NoneForgotten == \A j \in Jobs : Live(meta[j]) => ScanResolves(meta[j])

\* No live record falls between the cases of recover_queued_jobs: whichever
\* process died, whatever lease ran out and whatever record a retry wrote back,
\* a job that is not terminal can still be claimed (and is dispatched, if its
\* record can be rebuilt), or its record is failed by the next mark, at the
\* latest when the lease it names has expired.
THEOREM JobsNoneForgotten == Spec => []NoneForgotten
  <1>1. Init => RecordsScannable
    <2> SUFFICES ASSUME Init PROVE RecordsScannable
      OBVIOUS
    <2>1. \A j \in Jobs : meta[j].state = "none"
      BY Zenon DEF Init, NoMeta
    <2>2. \A s \in Slots, j \in Jobs : worker[s][j].pc = "none"
      BY Zenon DEF Init, Idle
    <2> QED
      BY Zenon, <2>1, <2>2 DEF RecordsScannable, Scannable
  <1>2. IInv /\ RecordsScannable => NoneForgotten
    <2> SUFFICES ASSUME IInv, RecordsScannable, NEW j \in Jobs, Live(meta[j])
                 PROVE  ScanResolves(meta[j])
      BY Zenon DEF NoneForgotten
    <2>1. meta[j] \in Meta /\ Scannable(meta[j])
      BY Zenon DEF IInv, TypeOK, RecordsScannable
    <2> QED
      BY Zenon, <2>1 DEF Scannable, ScanResolves, CanClaim, UnknownLegacy, UnknownStale, Unknown, Live, Meta
  <1> QED
    BY <1>1, <1>2, NextScannable, JobsInductive, PTL DEF Spec

-----------------------------------------------------------------------------
\* The detailed protocol implements JobLifecycle wherever no retry is possible:
\* a job is accepted once, dispatched at most once and resolved at most once,
\* and late writes of workers, scans and clients leave a terminal record alone.
\* (schedule_retry and resume_retry SET a record they read earlier without a
\* fence, and break it.)
THEOREM JobsImplementLifecycle ==
    ASSUME NoRetries
    PROVE  Spec => ImplementsLifecycle
  <1>1. Init => Lifecycle!Init
    <2> SUFFICES ASSUME Init, NEW j \in Jobs
                 PROVE  PhaseOf(meta[j]) \in {"absent", "executing"}
      BY Zenon DEF Lifecycle!Init, Phases
    <2>1. meta[j] \in {NoMeta, [NoMeta EXCEPT !.status = "processing"]}
      BY Zenon DEF Init
    <2> QED
      BY <2>1 DEF NoMeta, PhaseOf, Live
  <1>2. IInv /\ [Next]_vars => TypeOK' /\ RecordStep
    BY Zenon, NextIInv, NextTurns DEF IInv
  <1>3. IInv => \A s \in Slots, j \in Jobs : worker[s][j].pc \notin {"sched", "resume"}
    <2> SUFFICES ASSUME IInv, NEW s \in Slots, NEW j \in Jobs,
                        worker[s][j].pc \in {"sched", "resume"}
                 PROVE  FALSE
      BY Zenon
    <2>1. worker[s][j].pc \in PastClaim /\ worker[s][j].pc \in RetryPcs
      BY Zenon DEF PastClaim, Pcs, RetryPcs
    <2>2. worker[s][j].attempt \in Int /\ MaxAttempts \in Int
      BY JobConstants DEF IInv, TypeOK, Worker, JobConstants
    <2>3. /\ worker[s][j].attempt >= 1 /\ worker[s][j].attempt < MaxAttempts
          /\ j \notin Crawls
      BY Zenon, <2>1 DEF IInv, AttemptsLeft, Observed
    <2> QED
      BY <2>2, <2>3 DEF NoRetries
  <1>4. IInv /\ [Next]_vars => [Lifecycle!Next]_Phases
    <2> SUFFICES ASSUME IInv, [Next]_vars PROVE Lifecycle!Next \/ Phases' = Phases
      BY Zenon
    <2>1. /\ meta \in [Jobs -> Meta] /\ meta' \in [Jobs -> Meta]
          /\ RecordStep
      BY Zenon, <1>2 DEF IInv, TypeOK
    <2>2. /\ Phases = [j \in Jobs |-> PhaseOf(meta[j])]
          /\ Phases' = [j \in Jobs |-> PhaseOf(meta'[j])]
      BY Zenon DEF Phases
    <2>3. ASSUME NEW k \in Jobs, Kept(k) PROVE PhaseOf(meta'[k]) = PhaseOf(meta[k])
      BY Zenon, <2>3 DEF Kept, PhaseOf, Live
    <2>4. CASE \A k \in Jobs : Kept(k)
      BY Zenon, <2>2, <2>3, <2>4
    <2>5. ASSUME NEW j \in Jobs, OneTurn(j)
          PROVE  Lifecycle!Next \/ Phases' = Phases
      <3>1. Phases' = [Phases EXCEPT ![j] = PhaseOf(meta'[j])]
        BY Zenon, <2>2, <2>3, <2>5 DEF OneTurn
      <3>2. Phases[j] = PhaseOf(meta[j])
        BY Zenon, <2>2
      <3>3. \/ PhaseOf(meta'[j]) = PhaseOf(meta[j])
            \/ PhaseOf(meta[j]) = "absent" /\ PhaseOf(meta'[j]) = "accepted"
            \/ PhaseOf(meta[j]) = "accepted" /\ PhaseOf(meta'[j]) = "executing"
            \/ /\ PhaseOf(meta[j]) = "executing"
               /\ PhaseOf(meta'[j]) \in {"completed", "failed", "cancelled"}
            \/ PhaseOf(meta[j]) = "accepted" /\ PhaseOf(meta'[j]) = "cancelled"
        <4>1. ~RetryWrites(j)
          BY Zenon, <1>3 DEF RetryWrites, ScheduleRetry, ResumeRetry
        <4> QED
          BY Zenon, <4>1, StepMoves DEF Along
      <3>4. CASE PhaseOf(meta'[j]) = PhaseOf(meta[j])
        BY Zenon, <2>2, <3>1, <3>2, <3>4
      <3>5. CASE PhaseOf(meta'[j]) # PhaseOf(meta[j])
        BY Zenon, <3>1, <3>2, <3>3, <3>5
        DEF Lifecycle!Next, Lifecycle!Accept, Lifecycle!Dispatch, Lifecycle!Resolve,
            Lifecycle!Outcomes
      <3> QED
        BY Zenon, <3>4, <3>5
    <2> QED
      BY Zenon, <2>1, <2>4, <2>5 DEF RecordStep
  <1> QED
    BY <1>1, <1>4, JobsInductive, PTL DEF Spec, ImplementsLifecycle, Lifecycle!Spec
=============================================================================
