---------------------------- MODULE LiveResearch ----------------------------
(***************************************************************************)
(* One live durable research run served by several API processes:          *)
(* agent/routes/experimental_research.py, agent/experimental/live_runner.py*)
(* and agent/experimental/research_notifications.py.                       *)
(*                                                                         *)
(* The Valkey ledger holds the run, its lease and the receipts of its paid *)
(* operations; PostgreSQL holds the committed artifact root and an         *)
(* advisory lock.  Every process keeps a local record of the run, at most  *)
(* one worker task, and answers one request about the run at a time.  A    *)
(* stretch of code with no await is one action; every await is a boundary. *)
(***************************************************************************)
EXTENDS ResearchLedger, FiniteSets

CONSTANTS Procs,       \* API processes
          Clients,     \* processes that requests about the run reach
          Senders,     \* processes whose notification loop reaches the run
          ErrorAt,     \* worker phases whose storage call may raise
          MaxFaults    \* bound on storage errors, lost live leases and locks, crashes

ASSUME ResearchConstants ==
  /\ Clients \subseteq Procs /\ Senders \subseteq Procs
  /\ ErrorAt \subseteq {"enter", "claim", "find", "publish", "heartbeat"}
  /\ MaxFaults \in Nat

VARIABLES ledger,      \* the Valkey record
          root,        \* the PostgreSQL row: none, committed, deleted
          lock,        \* holder of the advisory execution lock
          run,         \* run[p]: the process-local _RunRecord
          rlock,       \* rlock[p]: holder of record.lock
          worker,      \* worker[p]: the _execute_run task
          handler,     \* handler[p]: the request being answered
          sender,      \* sender[p]: the notification loop
          dispatched,  \* history: external calls made per operation
          sent,        \* history: callbacks sent
          lost,        \* history: PostgreSQL dropped the lock of a live holder
          faults

local   == <<run, rlock, worker, handler, sender>>
history == <<dispatched, sent, lost, faults>>
vars    == <<ledger, root, lock, local, history>>

Free       == <<"free", "free">>
ByWorker(p)  == <<"worker", p>>
ByHandler(p) == <<"handler", p>>

Live == {"accepted", "running"}

NoRecord == [state |-> "none", deleted |-> FALSE, gen |-> 0]
NoTask   == [pc |-> "idle", op |-> 1, gen |-> 0, error |-> "none"]
NoSend   == [pc |-> "idle", owner |-> 0, outcome |-> "none"]
NoCall   == [kind |-> "none", pc |-> "idle"]

Init ==
  /\ ledger = NoRun
  /\ root = "none"
  /\ lock = Free
  /\ run = [p \in Procs |-> NoRecord]
  /\ rlock = [p \in Procs |-> "free"]
  /\ worker = [p \in Procs |-> NoTask]
  /\ handler = [p \in Procs |-> NoCall]
  /\ sender = [p \in Procs |-> NoSend]
  /\ dispatched = [o \in Ops |-> 0]
  /\ sent = 0
  /\ lost = FALSE
  /\ faults = 0

(***************************************************************************)
(* The process-local record: _restore_durable_record, the synchronisation  *)
(* of _check_retained_ledger, and the two together in _find_run.           *)
(***************************************************************************)
Restored(L) ==
  [state   |-> CASE L.state = "admitted" -> "accepted"
                 [] L.state = "deleted"  -> "cancelled"
                 [] OTHER                -> L.state,
   deleted |-> L.state = "deleted",
   gen     |-> 0]

Known(p, L) == IF run[p].state = "none" THEN Restored(L) ELSE run[p]

Synced(r) ==
  IF ledger.state = "deleted" THEN [r EXCEPT !.deleted = TRUE]
  ELSE IF ledger.state \in Outcomes /\ r.state \in Live
  THEN [r EXCEPT !.state = ledger.state]
  ELSE r

(***************************************************************************)
(* Tasks.  A handler in its synchronous stretch blocks the event loop, so  *)
(* no other task of its process runs until it is done.                     *)
(***************************************************************************)
Runs(p) == handler[p].pc # "project"

At(p, pc) == Runs(p) /\ worker[p].pc = pc

Goto(p, pc) == worker' = [worker EXCEPT ![p].pc = pc]

Started(p) == IF worker[p].pc = "idle"
              THEN [worker EXCEPT ![p] = [NoTask EXCEPT !.pc = "start"]]
              ELSE worker

WorkerUnlocks(p) ==
  /\ lock' = IF lock = ByWorker(p) THEN Free ELSE lock
  /\ rlock' = IF rlock[p] = "worker" THEN [rlock EXCEPT ![p] = "free"] ELSE rlock

EndWorker(p) ==
  /\ worker' = [worker EXCEPT ![p] = NoTask]
  /\ WorkerUnlocks(p)

Raises(p, error) ==
  /\ worker' = [worker EXCEPT ![p].pc = "failing", ![p].error = error]
  /\ WorkerUnlocks(p)

\* The end of a critical section: COMMIT raises if PostgreSQL ended the session.
Leaves(p) ==
  IF lock = ByWorker(p) THEN EndWorker(p) ELSE Raises(p, "research_run_failed")

Fault == faults < MaxFaults /\ faults' = faults + 1

EndHandler(p) ==
  /\ handler' = [handler EXCEPT ![p] = NoCall]
  /\ lock' = IF lock = ByHandler(p) THEN Free ELSE lock
  /\ rlock' = IF rlock[p] = "handler" THEN [rlock EXCEPT ![p] = "free"] ELSE rlock

(***************************************************************************)
(* _execute_run, first critical section: record.lock, the execution lock,  *)
(* the tests of the local record, the claim, the search for a root that is *)
(* already committed.                                                      *)
(***************************************************************************)
TakeRecordLock(p) ==
  /\ \E pc \in {<<"start", "enter">>, <<"finish", "publish">>} :
       At(p, pc[1]) /\ Goto(p, pc[2])
  /\ rlock[p] = "free"
  /\ rlock' = [rlock EXCEPT ![p] = "worker"]
  /\ UNCHANGED <<ledger, root, lock, run, handler, sender, history>>

Enter(p) ==
  /\ At(p, "enter")
  /\ lock = Free
  /\ IF run[p].deleted \/ run[p].state \notin Live
     THEN /\ run' = IF run[p].deleted THEN [run EXCEPT ![p].state = "cancelled"]
                                      ELSE run
          /\ EndWorker(p)
     ELSE /\ lock' = ByWorker(p)
          /\ Goto(p, "claim")
          /\ UNCHANGED <<run, rlock>>
  /\ UNCHANGED <<ledger, root, handler, sender, history>>

Claim(p) ==
  /\ At(p, "claim")
  /\ IF Claimable(ledger)
     THEN /\ ledger' = Claimed(ledger)
          /\ run' = [run EXCEPT ![p].gen = ledger.gen + 1]
          /\ Goto(p, "find")
          /\ UNCHANGED <<lock, rlock>>
     ELSE Leaves(p) /\ UNCHANGED <<ledger, run>>
  /\ UNCHANGED <<root, handler, sender, history>>

(***************************************************************************)
(* _project_retained_owned: checkpoint and commit_result under one fence.  *)
(***************************************************************************)
Projected(p) ==
  /\ ledger' = Committed(ledger)
  /\ run' = [run EXCEPT ![p].state = "completed"]

FindRoot(p) ==
  /\ At(p, "find")
  /\ IF root = "committed"
     THEN IF Owns(ledger, run[p].gen) THEN Projected(p) /\ Leaves(p)
                                      ELSE EndWorker(p) /\ UNCHANGED <<ledger, run>>
     ELSE /\ worker' = [worker EXCEPT
               ![p].pc = IF lock = ByWorker(p) THEN "begin" ELSE "failing",
               ![p].error = IF lock = ByWorker(p) THEN @ ELSE "research_run_failed",
               ![p].gen = run[p].gen]
          /\ WorkerUnlocks(p)
          /\ run' = [run EXCEPT ![p].state = "running"]
          /\ UNCHANGED ledger
  /\ UNCHANGED <<root, handler, sender, history>>

(***************************************************************************)
(* live_runner.effect: intent, external call, receipt, in order.           *)
(***************************************************************************)
NextOp(p) ==
  IF worker[p].op + 1 \in Ops
  THEN worker' = [worker EXCEPT ![p].pc = "begin", ![p].op = @ + 1]
  ELSE Goto(p, "finish")

BeginOp(p) ==
  /\ At(p, "begin")
  /\ LET o == worker[p].op IN
       IF ~Owns(ledger, run[p].gen)
       THEN EndWorker(p) /\ UNCHANGED ledger
       ELSE CASE Begin(ledger, o) = "dispatch" ->
                   /\ ledger' = Intended(ledger, o)
                   /\ Goto(p, "dispatch")
                   /\ UNCHANGED <<lock, rlock>>
              [] Begin(ledger, o) = "unknown" ->
                   Raises(p, "outcome_unknown") /\ UNCHANGED ledger
              [] Begin(ledger, o) = "replay" ->
                   NextOp(p) /\ UNCHANGED <<ledger, lock, rlock>>
  /\ UNCHANGED <<root, run, handler, sender, history>>

Dispatch(p) ==
  /\ At(p, "dispatch")
  /\ dispatched' = [dispatched EXCEPT ![worker[p].op] = @ + 1]
  /\ Goto(p, "calling")
  /\ UNCHANGED <<ledger, root, lock, run, rlock, handler, sender, sent, lost, faults>>

\* The external call answers or fails.
CallReturns(p) ==
  /\ At(p, "calling")
  /\ Goto(p, "complete")
  /\ UNCHANGED <<ledger, root, lock, run, rlock, handler, sender, history>>

CallRaises(p) ==
  /\ At(p, "calling")
  /\ Raises(p, "outcome_unknown")
  /\ UNCHANGED <<ledger, root, run, handler, sender, history>>

\* The receipt; a received model failure is retained and then raised.
CompleteOp(p) ==
  /\ At(p, "complete")
  /\ IF Owns(ledger, run[p].gen)
     THEN /\ ledger' = Received(ledger, worker[p].op)
          /\ \/ NextOp(p) /\ UNCHANGED <<lock, rlock>>
             \/ Raises(p, "research_run_failed")
     ELSE EndWorker(p) /\ UNCHANGED ledger
  /\ UNCHANGED <<root, run, handler, sender, history>>

\* The run's execution deadline; whatever it cuts, the exception is a timeout.
Deadline(p) ==
  /\ Runs(p)
  /\ worker[p].pc \in {"begin", "dispatch", "calling", "complete"}
  /\ Raises(p, "research_run_failed")
  /\ UNCHANGED <<ledger, root, run, handler, sender, history>>

(***************************************************************************)
(* _execute_run, second critical section, and _publish_run: ownership is   *)
(* checked in Valkey, the root is committed in PostgreSQL, the ledger      *)
(* follows.                                                                *)
(***************************************************************************)
Publish(p) ==
  /\ At(p, "publish")
  /\ lock = Free
  /\ IF run[p].deleted \/ run[p].state = "cancelled"
     THEN /\ run' = [run EXCEPT ![p].state = "cancelled"]
          /\ EndWorker(p)
     ELSE /\ lock' = ByWorker(p)
          /\ Goto(p, "heartbeat")
          /\ UNCHANGED <<run, rlock>>
  /\ UNCHANGED <<ledger, root, handler, sender, history>>

\* Mutant: publication does not ask Valkey whether it still owns the run.
HeartbeatSkipped(p) ==
  /\ At(p, "heartbeat")
  /\ Goto(p, "commit")
  /\ UNCHANGED <<ledger, root, lock, run, rlock, handler, sender, history>>

Heartbeat(p) ==
  /\ At(p, "heartbeat")
  /\ IF Owns(ledger, run[p].gen)
     THEN Goto(p, "commit") /\ UNCHANGED <<lock, rlock>>
     ELSE EndWorker(p)
  /\ UNCHANGED <<ledger, root, run, handler, sender, history>>

\* ArtifactAuthority.commit: a deleted root refuses; an equal replay is kept.
CommitRoot(p) ==
  /\ At(p, "commit")
  /\ IF root = "deleted"
     THEN Raises(p, "research_run_failed") /\ UNCHANGED root
     ELSE root' = "committed" /\ Goto(p, "project") /\ UNCHANGED <<lock, rlock>>
  /\ UNCHANGED <<ledger, run, handler, sender, history>>

\* The commit raises, before or after it took effect.
CommitRaises(p) ==
  /\ At(p, "commit")
  /\ root # "deleted"
  /\ Fault
  /\ root' \in {root, "committed"}
  /\ Raises(p, "research_run_failed")
  /\ UNCHANGED <<ledger, run, handler, sender, dispatched, sent, lost>>

Project(p) ==
  /\ At(p, "project")
  /\ IF Owns(ledger, run[p].gen) THEN Projected(p) /\ Leaves(p)
                                 ELSE EndWorker(p) /\ UNCHANGED <<ledger, run>>
  /\ UNCHANGED <<root, handler, sender, history>>

(***************************************************************************)
(* _execute_run, the exception handler: ask PostgreSQL whether the root is *)
(* committed, then record the failure under the lease.                     *)
(***************************************************************************)
\* A storage call raises: at enter and publish also a wait for the execution lock
\* that exceeds lock_timeout.  A claim may have taken effect.
StorageRaises(p) ==
  /\ Runs(p)
  /\ worker[p].pc \in ErrorAt
  /\ Fault
  /\ Raises(p, "research_run_failed")
  /\ \/ UNCHANGED ledger
     \/ worker[p].pc = "claim" /\ Claimable(ledger) /\ ledger' = Claimed(ledger)
  /\ UNCHANGED <<root, run, handler, sender, dispatched, sent, lost>>

\* Mutant: the failure is recorded without asking whether the root committed.
SettleBlindly(p) ==
  /\ At(p, "failing")
  /\ Goto(p, "fail")
  /\ UNCHANGED <<ledger, root, lock, run, rlock, handler, sender, history>>

Settle(p) ==
  /\ At(p, "failing")
  /\ IF root = "committed" THEN EndWorker(p)
                           ELSE Goto(p, "fail") /\ UNCHANGED <<lock, rlock>>
  /\ UNCHANGED <<ledger, root, run, handler, sender, history>>

SettleRaises(p) ==
  /\ At(p, "failing")
  /\ Fault
  /\ EndWorker(p)
  /\ UNCHANGED <<ledger, root, run, handler, sender, dispatched, sent, lost>>

FailLock(p) ==
  /\ At(p, "fail")
  /\ rlock[p] = "free"
  /\ IF run[p].deleted \/ run[p].state \in {"completed", "cancelled"}
     THEN EndWorker(p)
     ELSE /\ worker' = [worker EXCEPT
               ![p].pc = "record",
               ![p].error = IF HasPendingDispatch(ledger) THEN "outcome_unknown" ELSE @]
          /\ rlock' = [rlock EXCEPT ![p] = "worker"]
          /\ UNCHANGED lock
  /\ UNCHANGED <<ledger, root, run, handler, sender, history>>

RecordFailure(p) ==
  /\ At(p, "record")
  /\ IF run[p].gen = 0
     THEN run' = [run EXCEPT ![p].state = "failed"] /\ UNCHANGED ledger
     ELSE IF Owns(ledger, run[p].gen)
     THEN /\ ledger' = Failed(ledger, worker[p].error)
          /\ run' = [run EXCEPT ![p].state = "failed"]
     ELSE UNCHANGED <<ledger, run>>
  /\ EndWorker(p)
  /\ UNCHANGED <<root, handler, sender, history>>

\* _renew_owner: a rejected heartbeat cancels the worker wherever it waits.
Renewal(p) ==
  /\ Runs(p)
  /\ worker[p].gen # 0
  /\ ~Owns(ledger, worker[p].gen)
  /\ EndWorker(p)
  /\ UNCHANGED <<ledger, root, run, handler, sender, history>>

(***************************************************************************)
(* Requests.  admit_research_run: the ledger decides, then ensure_scope is *)
(* awaited, then a worker starts unless the run already has one.           *)
(***************************************************************************)
Idle(p) == p \in Clients /\ handler[p].kind = "none"

Answer(p, kind, pc) == handler' = [handler EXCEPT ![p] = [kind |-> kind, pc |-> pc]]

Admit(p) ==
  /\ Idle(p)
  /\ ledger' = Admitted(ledger)
  /\ run' = [run EXCEPT ![p] = Known(p, Admitted(ledger))]
  /\ Answer(p, "admit", "start")
  /\ UNCHANGED <<root, lock, rlock, worker, sender, history>>

AdmitStart(p) ==
  /\ handler[p].kind = "admit"
  /\ worker' = Started(p)
  /\ EndHandler(p)
  /\ UNCHANGED <<ledger, root, run, sender, history>>

\* _find_run, and the 410 answer for a deleted run.
Open(p, kind, pc) ==
  /\ Idle(p)
  /\ ledger.state # "none"
  /\ LET r == Synced(Known(p, ledger)) IN
       /\ run' = [run EXCEPT ![p] = r]
       /\ IF r.deleted THEN UNCHANGED handler ELSE Answer(p, kind, pc)
  /\ UNCHANGED <<ledger, root, lock, rlock, worker, sender, history>>

(***************************************************************************)
(* The status and event routes: _reconcile_authority under the lock.       *)
(***************************************************************************)
Status(p) == Open(p, "status", "lock")

StatusLock(p) ==
  /\ handler[p] = [kind |-> "status", pc |-> "lock"]
  /\ lock = Free
  /\ lock' = ByHandler(p)
  /\ Answer(p, "status", "reconcile")
  /\ UNCHANGED <<ledger, root, run, rlock, worker, sender, history>>

Reconcile(p) ==
  /\ handler[p].pc = "reconcile"
  /\ IF run[p].state \notin Live
     THEN EndHandler(p) /\ UNCHANGED <<ledger, run, worker>>
     ELSE IF root # "committed"
     THEN EndHandler(p) /\ worker' = Started(p) /\ UNCHANGED <<ledger, run>>
     ELSE IF ~Claimable(ledger)
     THEN EndHandler(p) /\ UNCHANGED <<ledger, run, worker>>
     ELSE /\ ledger' = Claimed(ledger)
          /\ run' = [run EXCEPT ![p].gen = ledger.gen + 1]
          /\ handler' = [handler EXCEPT ![p].pc = "project"]
          /\ UNCHANGED <<lock, rlock, worker>>
  /\ UNCHANGED <<root, sender, history>>

ReconcileProject(p) ==
  /\ handler[p].pc = "project"
  /\ IF Owns(ledger, run[p].gen) THEN Projected(p) ELSE UNCHANGED <<ledger, run>>
  /\ EndHandler(p)
  /\ UNCHANGED <<root, worker, sender, history>>

\* The request's wait for the execution lock exceeds lock_timeout.
LockTimesOut(p) ==
  /\ handler[p].pc = "lock"
  /\ lock # Free
  /\ Fault
  /\ EndHandler(p)
  /\ UNCHANGED <<ledger, root, run, worker, sender, dispatched, sent, lost>>

(***************************************************************************)
(* cancel_experimental_research_run.                                       *)
(***************************************************************************)
Cancel(p) == Open(p, "cancel", "record")

CancelRecordLock(p) ==
  /\ handler[p] = [kind |-> "cancel", pc |-> "record"]
  /\ rlock[p] = "free"
  /\ rlock' = [rlock EXCEPT ![p] = "handler"]
  /\ Answer(p, "cancel", "lock")
  /\ UNCHANGED <<ledger, root, lock, run, worker, sender, history>>

\* Mutant: cancellation does not wait for the execution lock.
CancelUnlocked(p) ==
  /\ handler[p] = [kind |-> "cancel", pc |-> "lock"]
  /\ IF run[p].state \in Outcomes
     THEN EndHandler(p)
     ELSE Answer(p, "cancel", "decide") /\ UNCHANGED <<lock, rlock>>
  /\ UNCHANGED <<ledger, root, run, worker, sender, history>>

CancelLock(p) ==
  /\ handler[p] = [kind |-> "cancel", pc |-> "lock"]
  /\ lock = Free
  /\ IF run[p].state \in Outcomes
     THEN EndHandler(p)
     ELSE /\ lock' = ByHandler(p)
          /\ Answer(p, "cancel", "decide")
          /\ UNCHANGED rlock
  /\ UNCHANGED <<ledger, root, run, worker, sender, history>>

CancelDecide(p) ==
  /\ handler[p] = [kind |-> "cancel", pc |-> "decide"]
  /\ IF root = "committed"
     THEN /\ Answer(p, "cancel", "reconcile")
          /\ UNCHANGED <<ledger, lock, run, rlock, worker>>
     ELSE /\ ledger' = Cancelled(ledger)
          /\ run' = [run EXCEPT ![p].state = Restored(Cancelled(ledger)).state]
          /\ worker' = IF ledger'.state = "cancelled"
                       THEN [worker EXCEPT ![p] = NoTask] ELSE worker
          /\ EndHandler(p)
  /\ UNCHANGED <<root, sender, history>>

(***************************************************************************)
(* delete_experimental_research: the root's tombstone under the execution  *)
(* lock, then the ledger's tombstone, outside it.                          *)
(***************************************************************************)
Delete(p) ==
  /\ Idle(p)
  /\ ledger.state # "none"
  /\ lock = Free
  /\ root' = "deleted"
  /\ Answer(p, "delete", "ledger")
  /\ UNCHANGED <<ledger, lock, run, rlock, worker, sender, history>>

DeleteLedger(p) ==
  /\ handler[p].kind = "delete"
  /\ ledger' = Deleted(ledger)
  /\ run' = IF run[p].state = "none" THEN run ELSE [run EXCEPT ![p].deleted = TRUE]
  /\ EndHandler(p)
  /\ UNCHANGED <<root, worker, sender, history>>

(***************************************************************************)
(* recover_research_runs.                                                  *)
(***************************************************************************)
\* Mutant: only runs this process has never seen are recovered.
RecoverUnseen(p) ==
  /\ Runs(p)
  /\ Reclaimable(ledger)
  /\ worker[p].pc = "idle"
  /\ run[p].state = "none"
  /\ run' = [run EXCEPT ![p] = Known(p, ledger)]
  /\ worker' = Started(p)
  /\ UNCHANGED <<ledger, root, lock, rlock, handler, sender, history>>

Recover(p) ==
  /\ Runs(p)
  /\ Reclaimable(ledger)
  /\ worker[p].pc = "idle"
  /\ run' = [run EXCEPT ![p] = Known(p, ledger)]
  /\ worker' = Started(p)
  /\ UNCHANGED <<ledger, root, lock, rlock, handler, sender, history>>

(***************************************************************************)
(* deliver_notifications.                                                  *)
(***************************************************************************)
ClaimNote(p) ==
  /\ p \in Senders
  /\ Runs(p)
  /\ sender[p].pc = "idle"
  /\ ledger.listed
  /\ ledger.state = "deleted" \/ NoteReady(ledger)
  /\ ledger' = NoteClaimed(ledger)
  /\ sender' = IF ledger.state = "deleted" \/ NoteExhausted(ledger) THEN sender
               ELSE [sender EXCEPT ![p].pc = "send", ![p].owner = ledger'.note.owner]
  /\ UNCHANGED <<root, lock, run, rlock, worker, handler, history>>

SendNote(p) ==
  /\ Runs(p)
  /\ sender[p].pc = "send"
  /\ sent' = sent + 1
  /\ \E outcome \in {"delivered", "rejected", "retry"} :
       sender' = [sender EXCEPT ![p].pc = "finish", ![p].outcome = outcome]
  /\ UNCHANGED <<ledger, root, lock, run, rlock, worker, handler, dispatched, lost, faults>>

FinishNote(p) ==
  /\ Runs(p)
  /\ sender[p].pc = "finish"
  /\ ledger' = NoteFinished(ledger, sender[p].owner, sender[p].outcome)
  /\ sender' = [sender EXCEPT ![p] = NoSend]
  /\ UNCHANGED <<root, lock, run, rlock, worker, handler, history>>

(***************************************************************************)
(* Time and process loss.  A lease or a notification's claim lapses when   *)
(* its owner is gone, and, as a fault, under an owner that is paused.      *)
(***************************************************************************)
Renewed ==
  \E p \in Procs :
    \/ worker[p].gen = ledger.lease
    \/ run[p].gen = ledger.lease /\ (worker[p].pc = "find" \/ handler[p].pc = "project")

LeaseLapses ==
  /\ ledger.lease # 0
  /\ IF Renewed THEN Fault ELSE UNCHANGED faults
  /\ ledger' = [ledger EXCEPT !.lease = 0]
  /\ UNCHANGED <<root, lock, local, dispatched, sent, lost>>

\* The connection that holds the lock is idle while the holder works through
\* others: idle_in_transaction_session_timeout ends it, and the holder goes on.
LockLost ==
  /\ lock # Free
  /\ Fault
  /\ lock' = Free
  /\ lost' = TRUE
  /\ UNCHANGED <<ledger, root, local, dispatched, sent>>

WindowCloses ==
  /\ ledger.state \in {"admitted", "running"}
  /\ ledger.open
  /\ ledger' = [ledger EXCEPT !.open = FALSE]
  /\ UNCHANGED <<root, lock, local, history>>

InHand == \E p \in Procs : sender[p].owner # 0 /\ sender[p].owner = ledger.note.owner

NoteComesDue ==
  /\ ~ledger.note.due
  /\ IF InHand THEN Fault ELSE UNCHANGED faults
  /\ ledger' = [ledger EXCEPT !.note = [@ EXCEPT !.due = TRUE]]
  /\ UNCHANGED <<root, lock, local, dispatched, sent, lost>>

\* The process is lost and restarted, or stop_research_runs cancels its tasks.
Crash(p) ==
  /\ Fault
  /\ run' = [run EXCEPT ![p] = NoRecord]
  /\ rlock' = [rlock EXCEPT ![p] = "free"]
  /\ worker' = [worker EXCEPT ![p] = NoTask]
  /\ handler' = [handler EXCEPT ![p] = NoCall]
  /\ sender' = [sender EXCEPT ![p] = NoSend]
  /\ lock' = IF lock \in {ByWorker(p), ByHandler(p)} THEN Free ELSE lock
  /\ UNCHANGED <<ledger, root, dispatched, sent, lost>>

Execute(p) ==
  \/ TakeRecordLock(p) \/ Enter(p) \/ Claim(p) \/ FindRoot(p)
  \/ BeginOp(p) \/ Dispatch(p) \/ CallReturns(p) \/ CallRaises(p) \/ CompleteOp(p)
  \/ Publish(p) \/ Heartbeat(p) \/ CommitRoot(p) \/ Project(p)
  \/ Settle(p) \/ FailLock(p) \/ RecordFailure(p) \/ Renewal(p)

WorkerFault(p) == Deadline(p) \/ CommitRaises(p) \/ StorageRaises(p) \/ SettleRaises(p)

Respond(p) ==
  \/ AdmitStart(p) \/ StatusLock(p) \/ Reconcile(p) \/ ReconcileProject(p)
  \/ CancelRecordLock(p) \/ CancelLock(p) \/ CancelDecide(p) \/ DeleteLedger(p)

Request(p) == Admit(p) \/ Status(p) \/ Cancel(p) \/ Delete(p)

Notify(p) == ClaimNote(p) \/ SendNote(p) \/ FinishNote(p)

Next ==
  \/ \E p \in Procs : \/ Execute(p) \/ WorkerFault(p) \/ Respond(p)
                      \/ Request(p) \/ Recover(p) \/ Notify(p) \/ Crash(p)
                      \/ LockTimesOut(p)
  \/ LeaseLapses \/ LockLost \/ WindowCloses \/ NoteComesDue

Spec == Init /\ [][Next]_vars

(***************************************************************************)
(* Tasks that can run do run.  Both locks queue their waiters (asyncio.Lock*)
(* and pg_advisory_xact_lock), so a waiter that can take one again and     *)
(* again does; one that waited for longer than lock_timeout raised, which  *)
(* is a fault.  The recovery and notification loops poll every half second,*)
(* and an unrenewed lease lapses.                                          *)
(***************************************************************************)
Fairness ==
  /\ \A p \in Procs :
       /\ WF_vars(Execute(p)) /\ WF_vars(Respond(p))
       /\ SF_vars(TakeRecordLock(p) \/ FailLock(p)) /\ SF_vars(Enter(p) \/ Publish(p))
       /\ SF_vars(CancelRecordLock(p)) /\ SF_vars(StatusLock(p) \/ CancelLock(p))
       /\ WF_vars(Recover(p)) /\ WF_vars(Notify(p))
  /\ WF_vars(~Renewed /\ LeaseLapses)
  /\ WF_vars(~InHand /\ NoteComesDue)

FairSpec == Spec /\ Fairness

-----------------------------------------------------------------------------
\* Type correctness.  The notification keeps to its attempts (MaxNoteTries), and
\* the bound on faults is kept.
TypeOK ==
  /\ ledger \in Ledger
  /\ root \in {"none", "committed", "deleted"}
  /\ lock \in {Free} \cup {ByWorker(p) : p \in Procs} \cup {ByHandler(p) : p \in Procs}
  /\ run \in [Procs -> [state : {"none"} \cup Live \cup Outcomes, deleted : BOOLEAN, gen : Nat]]
  /\ rlock \in [Procs -> {"free", "worker", "handler"}]
  /\ worker \in [Procs -> [pc : {"idle", "start", "enter", "claim", "find", "begin",
                                 "dispatch", "calling", "complete", "finish", "publish",
                                 "heartbeat", "commit", "project", "failing", "fail",
                                 "record"},
                           op : Ops, gen : Nat,
                           error : {"none", "outcome_unknown", "research_run_failed"}]]
  /\ handler \in [Procs -> [kind : {"none", "admit", "status", "cancel", "delete"},
                            pc : {"idle", "start", "lock", "record", "reconcile",
                                  "project", "decide", "ledger"}]]
  /\ sender \in [Procs -> [pc : {"idle", "send", "finish"}, owner : 0..MaxNoteTries,
                           outcome : {"none", "delivered", "rejected", "retry"}]]
  /\ dispatched \in [Ops -> Nat]
  /\ sent \in Nat /\ lost \in BOOLEAN /\ faults \in 0..MaxFaults

(***************************************************************************)
(* No paid operation is dispatched twice, whatever crashes, lost leases    *)
(* and recoveries come between its intent and its receipt.                 *)
(***************************************************************************)
DispatchedOnce == \A o \in Ops : dispatched[o] <= 1

(***************************************************************************)
(* A committed root wins: as long as PostgreSQL has kept the execution lock*)
(* for its holders, a run whose report it holds is never cancelled or      *)
(* failed in the ledger.  (Once it dropped the lock of a live publisher, a *)
(* cancellation that found no root and the publication may both succeed.)  *)
(* Whatever was lost, the ledger calls completed only a run whose root was *)
(* committed.                                                              *)
(***************************************************************************)
CommittedWins ==
  /\ ~lost /\ root = "committed" => ledger.state \in {"running", "completed", "deleted"}
  /\ ledger.state = "completed" => root # "none"

(***************************************************************************)
(* A run that fails with an external call made and no receipt kept says so:*)
(* its error is outcome_unknown, never an ordinary failure.                *)
(***************************************************************************)
AmbiguityReported ==
  /\ ledger.state = "failed"
  /\ \E o \in Ops : dispatched[o] > 0 /\ ledger.ops[o] = "intent"
  => ledger.error = "outcome_unknown"

(***************************************************************************)
(* At most MaxNoteTries callbacks are sent, and all of them carry the      *)
(* outcome the ledger keeps; the records of the ledger, the processes and  *)
(* the callback are well formed.                                           *)
(***************************************************************************)
CallbacksFaithful ==
  /\ TypeOK
  /\ sent <= MaxNoteTries
  /\ ledger.note.event # "none" /\ ledger.state # "deleted" =>
       ledger.note.event = ledger.state

(***************************************************************************)
(* An outcome in the ledger is final but for deletion, and deletion is     *)
(* final: nothing is begun, published or announced afterwards.             *)
(***************************************************************************)
OutcomeIsFinal ==
  [][/\ ledger.state \in Outcomes => ledger'.state \in {ledger.state, "deleted"}
     /\ ledger.state = "deleted" =>
          /\ ledger'.state = "deleted"
          /\ ledger'.ops = ledger.ops
          /\ ledger'.note.attempts = ledger.note.attempts
          /\ root' = root]_vars

(***************************************************************************)
(* Every admitted run reaches an outcome, unless its recovery window ends  *)
(* first, or every process has marked its own record failed after a        *)
(* storage error that came before its claim: their recovered workers then  *)
(* return at once, and only a restart or another process takes the run up. *)
(***************************************************************************)
RunsSettle ==
  ledger.state \in {"admitted", "running"} ~>
    \/ ledger.state \in Terminal \/ ~ledger.open
    \/ \A p \in Procs : run[p].state = "failed"

(***************************************************************************)
(* Every outcome is announced, refused, or given up as unconfirmed, unless *)
(* the run is deleted.                                                     *)
(***************************************************************************)
CallbacksSettle ==
  ledger.state \in Outcomes ~> (ledger.note.state \in NoteFinal \/ ledger.state = "deleted")

(***************************************************************************)
(* ADR 0070: terminal failures and cancellation survive process loss, and  *)
(* process-local status is synchronised from the durable ledger: a process *)
(* never reports a failure that the ledger does not hold.                  *)
(***************************************************************************)
LocalFailureIsDurable ==
  \A p \in Procs : run[p].state = "failed" => ledger.state \in {"failed", "deleted"}
=============================================================================
