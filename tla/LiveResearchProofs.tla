------------------------- MODULE LiveResearchProofs -------------------------
(***************************************************************************)
(* Proofs about LiveResearch, for every set of processes, every number of  *)
(* operations, attempts and faults.                                        *)
(*                                                                         *)
(* The safety properties hang on two things the code never writes down in  *)
(* one place: which process may be in which critical section (the advisory *)
(* lock in PostgreSQL), and which generation the lease in Valkey names.    *)
(* IInv states both, and what follows from them for a publisher between    *)
(* its heartbeat and its commit, for a worker that is about to fail the    *)
(* run, and for a callback that is claimed and not yet sent.               *)
(*                                                                         *)
(* The proof goes in three layers: what each Valkey script does to the     *)
(* fields of the ledger; every action of a process as one of sixteen turns *)
(* (Turns), by what it changes outside the process; and each conjunct of   *)
(* IInv, turn by turn.  What rests on the advisory lock is claimed only    *)
(* while PostgreSQL has not taken the lock from a holder (lost).           *)
(***************************************************************************)
EXTENDS LiveResearch, TLAPS

\* The execution lock is held through the critical sections of workers and
\* handlers, unless PostgreSQL took it from one of them.
WorkerHolds == {"claim", "find", "heartbeat", "commit", "project"}
HandlerHolds == {"reconcile", "project", "decide"}
LocksHeld ==
  ~lost => \A p \in Procs :
    /\ worker[p].pc \in WorkerHolds => lock = ByWorker(p)
    /\ handler[p].pc \in HandlerHolds => lock = ByHandler(p)

\* A process that works on the run, or answers a request about it, knows it;
\* only status and cancellation requests take the lock.
RunKnown ==
  \A p \in Procs :
    /\ worker[p].pc # "idle" \/ handler[p].kind \in {"admit", "status", "cancel"} =>
         run[p].state # "none"
    /\ handler[p].pc \in HandlerHolds => handler[p].kind \in {"status", "cancel"}

\* No two processes hold the same generation, and a later claim has a new one.
Generations ==
  /\ ledger.lease <= ledger.gen
  /\ \A p \in Procs : run[p].gen <= ledger.gen
  /\ \A p, q \in Procs : run[p].gen = run[q].gen /\ run[p].gen # 0 => p = q

\* The worker that is about to call has recorded its intent and is alone in it.
CallsPending ==
  /\ \A o \in Ops : dispatched[o] <= 1
  /\ \A o \in Ops : ledger.ops[o] = "none" => dispatched[o] = 0
  /\ \A p \in Procs : worker[p].pc = "dispatch" =>
        ledger.ops[worker[p].op] # "none" /\ dispatched[worker[p].op] = 0
  /\ \A p, q \in Procs :
        worker[p].pc = "dispatch" /\ worker[q].pc = "dispatch" /\ worker[p].op = worker[q].op
        => p = q

\* The owner of the lease, if its event loop is not held by a handler.
Fails(p) ==
  worker[p].pc \in {"fail", "record"} /\ Owns(ledger, run[p].gen) /\ handler[p].pc # "project"

\* Between its heartbeat and its commit a publisher can lose the lease but
\* not to anybody; what projects has a root; who still fails the run has none.
\* The first and the third need the lock.
RootGuarded ==
  /\ \A p \in Procs : ~lost /\ worker[p].pc = "commit" =>
        ledger.state \in {"running", "deleted"} /\ ledger.lease \in {0, run[p].gen}
  /\ \A p \in Procs : worker[p].pc = "project" \/ handler[p].pc = "project" => root # "none"
  /\ ~lost /\ root = "committed" => \A p \in Procs : ~Fails(p)
  /\ ledger.state = "deleted" \/ (\E p \in Procs : handler[p].kind = "delete") => root = "deleted"

\* A failure recorded under the lease was decided when the intents were those
\* of now.
PendingReported ==
  HasPendingDispatch(ledger) =>
    /\ ledger.state = "failed" => ledger.error = "outcome_unknown"
    /\ \A p \in Procs : worker[p].pc = "record" /\ Fails(p) => worker[p].error = "outcome_unknown"

\* Every callback that was or will be sent was counted when it was claimed, and
\* is about an outcome.
Sending == {p \in Procs : sender[p].pc = "send"}
CallbacksCounted ==
  /\ IsFiniteSet(Sending)
  /\ sent + Cardinality(Sending) <= ledger.note.attempts
  /\ ledger.note.event # "none" => ledger.state \in {ledger.note.event, "deleted"}
  /\ ledger.note.event # "none" => ledger.state \in Terminal

IInv ==
  /\ TypeOK /\ LocksHeld /\ RunKnown /\ Generations /\ CallsPending
  /\ CommittedWins /\ RootGuarded /\ PendingReported /\ CallbacksCounted

-----------------------------------------------------------------------------
(* The scripts                                                             *)

Notes == [state    : {"none", "pending", "sending"} \cup NoteFinal,
          event    : {"none"} \cup Outcomes,
          attempts : 0..MaxNoteTries,
          owner    : 0..MaxNoteTries,
          due      : BOOLEAN]

\* What the scripts leave alone, and what they write.
LEMMA ClaimScript ==
    ASSUME NEW L \in Ledger, Claimable(L)
    PROVE  /\ Claimed(L) \in Ledger /\ Claimed(L).state = "running"
           /\ Claimed(L).gen = L.gen + 1 /\ Claimed(L).lease = L.gen + 1
           /\ Claimed(L).ops = L.ops /\ Claimed(L).note = L.note /\ Claimed(L).error = L.error
  <1>1. L.gen + 1 \in Nat
    BY DEF Ledger
  <1> QED
    BY Zenon, <1>1 DEF Ledger, Claimed

LEMMA EndScripts ==
    ASSUME NEW L \in Ledger, NEW state \in Terminal
    PROVE  /\ Ended(L, state) \in Ledger
           /\ Ended(L, state).state = state /\ Ended(L, state).lease = 0
           /\ Ended(L, state).gen = L.gen /\ Ended(L, state).ops = L.ops
           /\ Ended(L, state).note = L.note /\ Ended(L, state).error = L.error
  BY Zenon DEF Ledger, Ended

LEMMA FailScript ==
    ASSUME NEW L \in Ledger, NEW error \in {"none", "outcome_unknown", "research_run_failed"}
    PROVE  /\ Failed(L, error) \in Ledger
           /\ Failed(L, error).state = "failed" /\ Failed(L, error).lease = 0
           /\ Failed(L, error).gen = L.gen /\ Failed(L, error).ops = L.ops
           /\ Failed(L, error).note = L.note /\ Failed(L, error).error = error
  <1>1. Ended(L, "failed") \in Ledger
    BY Zenon, EndScripts DEF Terminal, Outcomes
  <1> QED
    BY <1>1, EndScripts DEF Failed, Ledger, Terminal, Outcomes

LEMMA AdmitScript ==
    ASSUME NEW L \in Ledger
    PROVE  /\ Admitted(L) \in Ledger
           /\ Admitted(L).state = IF L.state = "none" THEN "admitted" ELSE L.state
           /\ Admitted(L).lease = L.lease
           /\ Admitted(L).gen = L.gen /\ Admitted(L).ops = L.ops
           /\ Admitted(L).note = L.note /\ Admitted(L).error = L.error
  BY ZenonT(30) DEF Admitted, Ledger

LEMMA StepScripts ==
    ASSUME NEW L \in Ledger, NEW o \in Ops, NEW M, NEW v \in {"intent", "receipt"},
           M = [L EXCEPT !.ops[o] = v]
    PROVE  /\ M \in Ledger /\ M.ops = [L.ops EXCEPT ![o] = v]
           /\ M.state = L.state /\ M.lease = L.lease
           /\ M.gen = L.gen /\ M.note = L.note /\ M.error = L.error
  BY Zenon DEF Ledger

\* A script about the notification writes its record and its place in the set.
NoteOnly(L, M) ==
    /\ M \in Ledger /\ M.ops = L.ops /\ M.state = L.state /\ M.lease = L.lease
    /\ M.gen = L.gen /\ M.error = L.error
LEMMA NoteWrites ==
    ASSUME NEW L \in Ledger, NEW n \in Notes, NEW M,
           M = [L EXCEPT !.note = n] \/ M = [L EXCEPT !.note = n, !.listed = FALSE]
    PROVE  NoteOnly(L, M) /\ M.note = n
  <1>1. CASE M = [L EXCEPT !.note = n]
    BY Zenon, <1>1 DEF Ledger, Notes, NoteOnly
  <1>2. CASE M = [L EXCEPT !.note = n, !.listed = FALSE]
    BY Zenon, <1>2 DEF Ledger, Notes, NoteOnly
  <1> QED
    BY Zenon, <1>1, <1>2

LEMMA NoteClaimScript ==
    ASSUME NEW L \in Ledger, L.state = "deleted" \/ NoteReady(L)
    PROVE  /\ NoteOnly(L, NoteClaimed(L))
           /\ L.state = "deleted" \/ NoteExhausted(L) =>
                /\ NoteClaimed(L).note.event = L.note.event
                /\ NoteClaimed(L).note.attempts = L.note.attempts
           /\ ~(L.state = "deleted" \/ NoteExhausted(L)) =>
                /\ NoteClaimed(L).note.event =
                        IF L.note.event = "none" THEN L.state ELSE L.note.event
                /\ NoteClaimed(L).note.attempts = L.note.attempts + 1
                /\ NoteClaimed(L).note.owner \in 0..MaxNoteTries
                /\ L.state \in Outcomes
  <1>1. L.note \in Notes /\ 0 \in 0..MaxNoteTries
    BY LedgerConstants DEF Ledger, Notes
  <1>2. CASE L.state = "deleted"
    <2>1. NoteClaimed(L) = [L EXCEPT !.listed = FALSE]
      BY Zenon, <1>2 DEF NoteClaimed
    <2> QED
      BY Zenon, <1>1, <1>2, <2>1 DEF NoteOnly, Ledger
  <1>3. CASE L.state # "deleted" /\ NoteExhausted(L)
    <2> DEFINE n == [L.note EXCEPT !.state = "unconfirmed", !.owner = 0]
    <2>1. n \in Notes /\ n.event = L.note.event /\ n.attempts = L.note.attempts
      BY Zenon, <1>1 DEF Notes, NoteFinal
    <2>2. NoteClaimed(L) = [L EXCEPT !.note = n, !.listed = FALSE]
      BY <1>3, Zenon DEF NoteClaimed
    <2> HIDE DEF n
    <2>3. NoteOnly(L, NoteClaimed(L)) /\ NoteClaimed(L).note = n
      BY ZenonT(30), <2>1, <2>2, NoteWrites
    <2> QED
      BY Zenon, <1>3, <2>1, <2>3
  <1>4. CASE L.state # "deleted" /\ ~NoteExhausted(L)
    <2> DEFINE n == [state    |-> "sending",
                     event    |-> IF L.note.event = "none" THEN L.state ELSE L.note.event,
                     attempts |-> L.note.attempts + 1,
                     owner    |-> L.note.attempts + 1,
                     due      |-> FALSE]
    <2>1. L.note.attempts + 1 \in 0..MaxNoteTries
      BY <1>1, <1>4, LedgerConstants DEF NoteExhausted, Notes
    <2>2. L.state \in Outcomes
      BY Zenon, <1>4 DEF NoteReady
    <2>3. n \in Notes
      BY Zenon, <1>1, <2>1, <2>2 DEF Notes
    <2>4. NoteClaimed(L) = [L EXCEPT !.note = n]
      BY <1>4, Zenon DEF NoteClaimed
    <2>5. NoteOnly(L, NoteClaimed(L)) /\ NoteClaimed(L).note = n
      <3> HIDE DEF n
      <3> QED
        BY Zenon, <2>3, <2>4, NoteWrites
    <2> QED
      BY <1>4, <2>1, <2>2, <2>5
  <1> QED
    BY Zenon, <1>2, <1>3, <1>4

LEMMA NoteFinishScript ==
    ASSUME NEW L \in Ledger, NEW owner, NEW outcome \in {"none", "delivered", "rejected", "retry"}
    PROVE  /\ NoteOnly(L, NoteFinished(L, owner, outcome))
           /\ NoteFinished(L, owner, outcome).note.event = L.note.event
           /\ NoteFinished(L, owner, outcome).note.attempts = L.note.attempts
  <1>1. L.note \in Notes /\ 0 \in 0..MaxNoteTries
    BY LedgerConstants DEF Ledger, Notes
  <1> DEFINE state == IF outcome = "retry" THEN "unconfirmed" ELSE outcome
             n == [L.note EXCEPT !.state = "pending", !.owner = 0, !.due = FALSE]
             m == [L.note EXCEPT !.state = state, !.owner = 0, !.due = TRUE]
             M == NoteFinished(L, owner, outcome)
  <1>2. n \in Notes /\ n.event = L.note.event /\ n.attempts = L.note.attempts
    BY Zenon, <1>1 DEF Notes
  <1>3. m \in Notes /\ m.event = L.note.event /\ m.attempts = L.note.attempts
    BY Zenon, <1>1 DEF Notes, NoteFinal
  <1>4. \/ M = L \/ M = [L EXCEPT !.listed = FALSE]
        \/ M = [L EXCEPT !.note = n] \/ M = [L EXCEPT !.note = m, !.listed = FALSE]
    BY Zenon DEF NoteFinished
  <1> SUFFICES NoteOnly(L, M) /\ M.note.event = L.note.event /\ M.note.attempts = L.note.attempts
    BY Zenon
  <1> HIDE DEF n, m, M
  <1>5. CASE M = L \/ M = [L EXCEPT !.listed = FALSE]
    BY ZenonT(30), <1>5 DEF NoteOnly, Ledger
  <1>6. CASE M = [L EXCEPT !.note = n]
    <2>1. NoteOnly(L, M) /\ M.note = n
      BY Zenon, <1>2, <1>6, NoteWrites
    <2> QED
      BY Zenon, <1>2, <2>1
  <1>7. CASE M = [L EXCEPT !.note = m, !.listed = FALSE]
    <2>1. NoteOnly(L, M) /\ M.note = m
      BY Zenon, <1>3, <1>7, NoteWrites
    <2> QED
      BY <1>3, <2>1
  <1> QED
    BY Zenon, <1>4, <1>5, <1>6, <1>7

-----------------------------------------------------------------------------
(* Types                                                                   *)

Tasks == [pc : {"idle", "start", "enter", "claim", "find", "begin", "dispatch", "calling",
                "complete", "finish", "publish", "heartbeat", "commit", "project",
                "failing", "fail", "record"},
          op : Ops, gen : Nat,
          error : {"none", "outcome_unknown", "research_run_failed"}]
Records == [state : {"none"} \cup Live \cup Outcomes, deleted : BOOLEAN, gen : Nat]
Locks == {Free} \cup {ByWorker(p) : p \in Procs} \cup {ByHandler(p) : p \in Procs}

Calls == [kind : {"none", "admit", "status", "cancel", "delete"},
          pc : {"idle", "start", "lock", "record", "reconcile", "project", "decide", "ledger"}]
Sends == [pc : {"idle", "send", "finish"}, owner : 0..MaxNoteTries,
          outcome : {"none", "delivered", "rejected", "retry"}]
Holders == {"free", "worker", "handler"}

LEMMA Types ==
    TypeOK <=>
      /\ ledger \in Ledger
      /\ root \in {"none", "committed", "deleted"}
      /\ lock \in Locks
      /\ run \in [Procs -> Records]
      /\ rlock \in [Procs -> Holders]
      /\ worker \in [Procs -> Tasks]
      /\ handler \in [Procs -> Calls]
      /\ sender \in [Procs -> Sends]
      /\ dispatched \in [Ops -> Nat]
      /\ sent \in Nat /\ lost \in BOOLEAN /\ faults \in 0..MaxFaults
  BY Zenon DEF TypeOK, Tasks, Records, Locks, Calls, Sends, Holders

\* Starting, ending and failing a worker keep the types of what they write.
LEMMA TaskTypes ==
    ASSUME TypeOK, NEW p \in Procs
    PROVE  /\ NoTask \in Tasks /\ [NoTask EXCEPT !.pc = "start"] \in Tasks
           /\ [worker EXCEPT ![p] = NoTask] \in [Procs -> Tasks]
           /\ Started(p) \in [Procs -> Tasks]
  <1>1. NoTask \in Tasks /\ [NoTask EXCEPT !.pc = "start"] \in Tasks
    BY LedgerConstants DEF NoTask, Tasks, Ops
  <1> QED
    BY Zenon, <1>1, Types DEF Started

LEMMA UnlockTypes ==
    ASSUME TypeOK, NEW p \in Procs
    PROVE  /\ WorkerUnlocks(p) => lock' \in Locks /\ rlock' \in [Procs -> Holders]
           /\ EndHandler(p) => /\ lock' \in Locks /\ rlock' \in [Procs -> Holders]
                               /\ handler' \in [Procs -> Calls]
  <1>1. Free \in Locks /\ lock \in Locks
    BY Zenon, Types DEF Locks
  <1>2. [rlock EXCEPT ![p] = "free"] \in [Procs -> Holders] /\ rlock \in [Procs -> Holders]
    BY Zenon, Types DEF Holders
  <1>3. NoCall \in Calls
    BY Zenon DEF NoCall, Calls
  <1>4. [handler EXCEPT ![p] = NoCall] \in [Procs -> Calls]
    BY Zenon, <1>3, Types
  <1> QED
    BY Zenon, <1>1, <1>2, <1>4 DEF WorkerUnlocks, EndHandler

LEMMA EndTypes ==
    ASSUME TypeOK, NEW p \in Procs, EndWorker(p)
    PROVE  lock' \in Locks /\ rlock' \in [Procs -> Holders] /\ worker' \in [Procs -> Tasks]
  BY Zenon, UnlockTypes, TaskTypes DEF EndWorker

LEMMA RaiseTypes ==
    ASSUME TypeOK, NEW p \in Procs, NEW e \in {"none", "outcome_unknown", "research_run_failed"},
           Raises(p, e)
    PROVE  lock' \in Locks /\ rlock' \in [Procs -> Holders] /\ worker' \in [Procs -> Tasks]
  <1> DEFINE t == [worker[p] EXCEPT !.pc = "failing", !.error = e]
  <1>1. worker \in [Procs -> Tasks] /\ worker[p] \in Tasks
    BY Zenon, Types
  <1>2. t \in Tasks
    BY Zenon, <1>1 DEF Tasks
  <1>3. worker' = [worker EXCEPT ![p] = t]
    BY Zenon, <1>1 DEF Raises, Tasks
  <1> HIDE DEF t
  <1>4. worker' \in [Procs -> Tasks]
    BY Zenon, <1>1, <1>2, <1>3
  <1> QED
    BY Zenon, <1>4, UnlockTypes DEF Raises

\* A worker's task changes its place, its operation and its error.
LEMMA MoveTypes ==
    ASSUME TypeOK, NEW p \in Procs
    PROVE  /\ Goto(p, "enter") \/ Goto(p, "claim") \/ Goto(p, "find") \/ Goto(p, "dispatch")
                \/ Goto(p, "calling") \/ Goto(p, "complete") \/ Goto(p, "publish")
                \/ Goto(p, "heartbeat") \/ Goto(p, "commit") \/ Goto(p, "project")
                \/ Goto(p, "fail") => worker' \in [Procs -> Tasks]
           /\ NextOp(p) => worker' \in [Procs -> Tasks]
  <1>1. worker \in [Procs -> Tasks]
    BY Zenon, Types
  <1>2. ASSUME NextOp(p) PROVE worker' \in [Procs -> Tasks]
    <2>1. CASE worker[p].op + 1 \in Ops
      BY <1>1, <1>2, <2>1 DEF NextOp, Tasks
    <2>2. CASE worker[p].op + 1 \notin Ops
      BY <1>1, <1>2, <2>2 DEF NextOp, Goto, Tasks
    <2> QED
      BY Zenon, <2>1, <2>2
  <1> QED
    BY <1>1, <1>2 DEF Goto, Tasks

LEMMA RecordTypes ==
    ASSUME TypeOK, NEW p \in Procs
    PROVE  /\ \A state \in Live \cup Outcomes :
                [run EXCEPT ![p].state = state] \in [Procs -> Records]
           /\ [run EXCEPT ![p].deleted = TRUE] \in [Procs -> Records]
           /\ [run EXCEPT ![p].gen = ledger.gen + 1] \in [Procs -> Records]
           /\ \A L \in Ledger : [run EXCEPT ![p] = Known(p, L)] \in [Procs -> Records]
           /\ [run EXCEPT ![p] = Synced(Known(p, ledger))] \in [Procs -> Records]
           /\ \A L \in Ledger : L.state # "none" =>
                 Restored(L).state \in Live \cup Outcomes
  <1>1. run \in [Procs -> Records] /\ ledger \in Ledger
    BY Zenon, Types
  <1>2. ASSUME NEW L \in Ledger PROVE Restored(L) \in Records
    BY Zenon DEF Restored, Records, Ledger, Live, Terminal, Outcomes
  <1>3. ASSUME NEW L \in Ledger PROVE Known(p, L) \in Records
    BY Zenon, <1>1, <1>2 DEF Known
  <1>4. ASSUME NEW r \in Records PROVE Synced(r) \in Records
    BY Zenon, <1>1 DEF Synced, Records
  <1>5. ledger.gen + 1 \in Nat
    BY <1>1 DEF Ledger
  <1>6. Synced(Known(p, ledger)) \in Records
    BY Zenon, <1>1, <1>3, <1>4
  <1>7. ASSUME NEW L \in Ledger, L.state # "none"
        PROVE  Restored(L).state \in Live \cup Outcomes
    BY Zenon, <1>7 DEF Restored, Ledger, Live, Terminal, Outcomes
  <1>8. \A state \in Live \cup Outcomes : [run EXCEPT ![p].state = state] \in [Procs -> Records]
    BY Zenon, <1>1 DEF Records
  <1>9. /\ [run EXCEPT ![p].deleted = TRUE] \in [Procs -> Records]
        /\ [run EXCEPT ![p].gen = ledger.gen + 1] \in [Procs -> Records]
    BY Zenon, <1>1, <1>5 DEF Records
  <1> QED
    BY Zenon, <1>1, <1>3, <1>6, <1>7, <1>8, <1>9

LEMMA DueScript ==
    ASSUME NEW L \in Ledger, NEW M, M = [L EXCEPT !.note = [@ EXCEPT !.due = TRUE]]
    PROVE  NoteOnly(L, M) /\ M.note.event = L.note.event /\ M.note.attempts = L.note.attempts
  <1> DEFINE n == [L.note EXCEPT !.due = TRUE]
  <1>1. n \in Notes /\ n.event = L.note.event /\ n.attempts = L.note.attempts
    BY Zenon DEF Ledger, Notes
  <1>2. M = [L EXCEPT !.note = n]
    BY Zenon
  <1>3. NoteOnly(L, M) /\ M.note = n
    <2> HIDE DEF n
    <2> QED
      BY ONLY Zenon, L \in Ledger, <1>1, <1>2, NoteWrites
  <1> QED
    BY Zenon, <1>1, <1>3

LEMMA LapseScripts ==
    ASSUME NEW L \in Ledger, NEW M, M = [L EXCEPT !.lease = 0] \/ M = [L EXCEPT !.open = FALSE]
    PROVE  /\ M \in Ledger /\ M.ops = L.ops /\ M.state = L.state
           /\ M.lease \in {0, L.lease} /\ M.gen = L.gen /\ M.error = L.error /\ M.note = L.note
  <1>1. CASE M = [L EXCEPT !.lease = 0]
    BY Zenon, <1>1 DEF Ledger
  <1>2. CASE M = [L EXCEPT !.open = FALSE]
    BY Zenon, <1>2 DEF Ledger
  <1> QED
    BY Zenon, <1>1, <1>2

LEMMA TypesNext ==
    ASSUME ledger' \in Ledger, root' \in {"none", "committed", "deleted"},
           lock' \in Locks, run' \in [Procs -> Records], rlock' \in [Procs -> Holders],
           worker' \in [Procs -> Tasks], handler' \in [Procs -> Calls],
           sender' \in [Procs -> Sends], dispatched' \in [Ops -> Nat],
           sent' \in Nat, lost' \in BOOLEAN, faults' \in 0..MaxFaults
    PROVE  TypeOK'
  BY Zenon DEF TypeOK, Tasks, Records, Locks, Calls, Sends, Holders

LEMMA LeaveTypes ==
    ASSUME TypeOK, NEW p \in Procs, Leaves(p)
    PROVE  lock' \in Locks /\ rlock' \in [Procs -> Holders] /\ worker' \in [Procs -> Tasks]
  BY Zenon, EndTypes, RaiseTypes DEF Leaves

LEMMA BeginTypes ==
    ASSUME worker \in [Procs -> Tasks], NEW p \in Procs, NEW g \in Nat,
           NEW pc \in {"begin", "failing"},
           NEW e \in {"none", "outcome_unknown", "research_run_failed"}
    PROVE  [worker EXCEPT ![p].pc = pc, ![p].error = e, ![p].gen = g] \in [Procs -> Tasks]
  <1> DEFINE t == [worker[p] EXCEPT !.pc = pc, !.error = e, !.gen = g]
  <1>1. t \in Tasks
    BY Zenon DEF Tasks
  <1>2. [worker EXCEPT ![p].pc = pc, ![p].error = e, ![p].gen = g] = [worker EXCEPT ![p] = t]
    BY Zenon DEF Tasks
  <1> HIDE DEF t
  <1> QED
    BY Zenon, <1>1, <1>2

LEMMA TypeWorker ==
    ASSUME TypeOK, NEW p \in Procs, Execute(p) \/ WorkerFault(p)
    PROVE  TypeOK'
  <1> USE Types
  <1>0. ByWorker(p) \in Locks /\ ByHandler(p) \in Locks /\ Free \in Locks
    BY Zenon DEF Locks
  <1>p. ASSUME Projected(p)
        PROVE  ledger' \in Ledger /\ run' \in [Procs -> Records]
    BY Zenon, <1>p, EndScripts, RecordTypes DEF Projected, Committed, Terminal, Outcomes
  <1>f. ASSUME Fault PROVE faults' \in 0..MaxFaults
    BY <1>f, ResearchConstants DEF Fault
  <1>1. CASE TakeRecordLock(p)
    BY <1>1, MoveTypes, TypesNext DEF TakeRecordLock, history, Holders
  <1>2. CASE Enter(p)
    <2>1. run' \in [Procs -> Records]
      BY <1>2 DEF Enter, Records, Outcomes
    <2> QED
      BY Zenon, <1>2, <1>0, <2>1, MoveTypes, EndTypes, TypesNext DEF Enter, history
  <1>3. CASE Claim(p)
    BY ZenonT(30), <1>3, MoveTypes, RecordTypes, LeaveTypes, ClaimScript, TypesNext DEF Claim, history
  <1>4. CASE FindRoot(p)
    <2>1. worker' \in [Procs -> Tasks]
      <3>1. CASE root = "committed"
        BY Zenon, <1>4, <3>1, EndTypes, LeaveTypes DEF FindRoot
      <3>2. CASE root # "committed"
        <4> DEFINE g == run[p].gen
                   pc == IF lock = ByWorker(p) THEN "begin" ELSE "failing"
                   e == IF lock = ByWorker(p) THEN worker[p].error ELSE "research_run_failed"
        <4>1. /\ g \in Nat /\ pc \in {"begin", "failing"}
              /\ e \in {"none", "outcome_unknown", "research_run_failed"}
          BY Zenon DEF Records, Tasks
        <4>2. worker' = [worker EXCEPT ![p].pc = pc, ![p].error = e, ![p].gen = g]
          BY <1>4, <3>2, Zenon DEF FindRoot, Tasks
        <4>3. worker \in [Procs -> Tasks]
          BY Zenon
        <4> HIDE DEF g, pc, e
        <4> QED
          BY Zenon, <4>1, <4>2, <4>3, BeginTypes
      <3> QED
        BY Zenon, <3>1, <3>2
    <2>2. lock' \in Locks /\ rlock' \in [Procs -> Holders]
      BY Zenon, <1>4, EndTypes, LeaveTypes, UnlockTypes DEF FindRoot
    <2>3. ledger' \in Ledger /\ run' \in [Procs -> Records]
      <3>1. CASE root = "committed"
        BY Zenon, <1>4, <3>1, <1>p DEF FindRoot
      <3>2. CASE root # "committed"
        BY <1>4, <3>2 DEF FindRoot, Live, Records
      <3> QED
        BY Zenon, <3>1, <3>2
    <2> QED
      BY Zenon, <1>4, <2>1, <2>2, <2>3, TypesNext DEF FindRoot, history
  <1>5. CASE BeginOp(p)
    <2>1. worker[p].op \in Ops
      BY Zenon DEF Tasks
    <2>2. Intended(ledger, worker[p].op) \in Ledger
      BY Zenon, <2>1, StepScripts DEF Intended
    <2>3. Begin(ledger, worker[p].op) \in {"dispatch", "unknown", "replay"}
      BY Zenon, <2>1 DEF Begin, Ledger
    <2> QED
      BY Zenon, <1>5, <2>2, <2>3, MoveTypes, EndTypes, RaiseTypes, TypesNext DEF BeginOp, history
  <1>6. CASE Dispatch(p)
    <2>1. worker[p].op \in Ops
      BY DEF Tasks
    <2>2. dispatched' \in [Ops -> Nat]
      BY <1>6, <2>1 DEF Dispatch
    <2> QED
      BY Zenon, <1>6, <2>2, MoveTypes, TypesNext DEF Dispatch
  <1>7. CASE CallReturns(p)
    BY Zenon, <1>7, MoveTypes, TypesNext DEF CallReturns, history
  <1>8. CASE CallRaises(p)
    BY Zenon, <1>8, RaiseTypes, TypesNext DEF CallRaises, history
  <1>9. CASE CompleteOp(p)
    <2>1. worker[p].op \in Ops
      BY DEF Tasks
    <2>2. Received(ledger, worker[p].op) \in Ledger
      BY Zenon, <2>1, StepScripts DEF Received
    <2> QED
      BY Zenon, <1>9, <2>2, MoveTypes, EndTypes, RaiseTypes, TypesNext DEF CompleteOp, history
  <1>10. CASE Publish(p)
    <2>1. run' \in [Procs -> Records]
      BY <1>10 DEF Publish, Records, Outcomes
    <2> QED
      BY Zenon, <1>10, <1>0, <2>1, MoveTypes, EndTypes, TypesNext DEF Publish, history
  <1>11. CASE Heartbeat(p)
    BY Zenon, <1>11, MoveTypes, EndTypes, TypesNext DEF Heartbeat, history
  <1>12. CASE CommitRoot(p)
    BY Zenon, <1>12, MoveTypes, RaiseTypes, TypesNext DEF CommitRoot, history
  <1>13. CASE Project(p)
    BY Zenon, <1>13, <1>p, EndTypes, LeaveTypes, TypesNext DEF Project, history
  <1>14. CASE Settle(p)
    BY Zenon, <1>14, MoveTypes, EndTypes, TypesNext DEF Settle, history
  <1>15. CASE FailLock(p)
    <2>1. worker' \in [Procs -> Tasks]
      BY <1>15, EndTypes DEF FailLock, Tasks
    <2> QED
      BY Zenon, <1>15, <2>1, EndTypes, TypesNext DEF FailLock, history, Holders
  <1>16. CASE RecordFailure(p)
    <2>1. Failed(ledger, worker[p].error) \in Ledger
      BY FailScript DEF Tasks
    <2> QED
      <3>1. run' \in [Procs -> Records]
        <4>1. run' = run \/ run' = [run EXCEPT ![p].state = "failed"]
          BY <1>16, Zenon DEF RecordFailure
        <4> QED
          BY <4>1 DEF Records, Outcomes
      <3> QED
        BY Zenon, <1>16, <2>1, <3>1, EndTypes, TypesNext DEF RecordFailure, history
  <1>17. CASE Renewal(p)
    BY Zenon, <1>17, EndTypes, TypesNext DEF Renewal, history
  <1>18. CASE Deadline(p)
    BY Zenon, <1>18, RaiseTypes, TypesNext DEF Deadline, history
  <1>19. CASE CommitRaises(p)
    BY Zenon, <1>19, <1>f, RaiseTypes, TypesNext DEF CommitRaises
  <1>20. CASE StorageRaises(p)
    BY Zenon, <1>20, <1>f, RaiseTypes, ClaimScript, TypesNext DEF StorageRaises
  <1>21. CASE SettleRaises(p)
    BY Zenon, <1>21, <1>f, EndTypes, TypesNext DEF SettleRaises
  <1> QED
    BY Zenon, <1>1, <1>2, <1>3, <1>4, <1>5, <1>6, <1>7, <1>8, <1>9, <1>10, <1>11, <1>12, <1>13,
       <1>14, <1>15, <1>16, <1>17, <1>18, <1>19, <1>20, <1>21
    DEF Execute, WorkerFault

LEMMA TypeRequests ==
    ASSUME TypeOK, NEW p \in Procs,
           \/ Respond(p) \/ Request(p) \/ Recover(p) \/ Notify(p) \/ Crash(p)
           \/ LockTimesOut(p)
    PROVE  TypeOK'
  <1> USE Types
  <1>0. /\ ByWorker(p) \in Locks /\ ByHandler(p) \in Locks /\ Free \in Locks
        /\ 0 \in 0..MaxNoteTries
    BY LedgerConstants DEF Locks
  <1>p. ASSUME Projected(p)
        PROVE  ledger' \in Ledger /\ run' \in [Procs -> Records]
    BY Zenon, <1>p, EndScripts, RecordTypes DEF Projected, Committed, Terminal, Outcomes
  <1>f. ASSUME Fault PROVE faults' \in 0..MaxFaults
    BY <1>f, ResearchConstants DEF Fault
  <1>a. ASSUME NEW kind \in {"admit", "status", "cancel", "delete"},
               NEW pc \in {"start", "lock", "record", "reconcile", "decide", "ledger"},
               Answer(p, kind, pc)
        PROVE  handler' \in [Procs -> Calls]
    BY Zenon, <1>a DEF Answer, Calls
  <1>1. CASE AdmitStart(p)
    BY Zenon, <1>1, TaskTypes, UnlockTypes, TypesNext DEF AdmitStart, history
  <1>2. CASE StatusLock(p)
    BY Zenon, <1>2, <1>0, <1>a, TypesNext DEF StatusLock, history
  <1>3. CASE Reconcile(p)
    <2>1. run' \in [Procs -> Records]
      <3>1. ledger.gen + 1 \in Nat
        BY DEF Ledger
      <3> QED
        BY <1>3, <3>1 DEF Reconcile, Records
    <2>2. handler' \in [Procs -> Calls] /\ lock' \in Locks /\ rlock' \in [Procs -> Holders]
      <3>1. CASE EndHandler(p)
        BY Zenon, <3>1, UnlockTypes
      <3>2. CASE /\ handler' = [handler EXCEPT ![p].pc = "project"]
                 /\ UNCHANGED <<lock, rlock>>
        BY Zenon, <3>2 DEF Calls
      <3> QED
        BY Zenon, <1>3, <3>1, <3>2 DEF Reconcile
    <2>3. ledger' \in Ledger /\ worker' \in [Procs -> Tasks]
      BY Zenon, <1>3, ClaimScript, TaskTypes DEF Reconcile
    <2> QED
      BY Zenon, <1>3, <2>1, <2>2, <2>3, TypesNext DEF Reconcile, history
  <1>4. CASE ReconcileProject(p)
    BY Zenon, <1>4, <1>p, UnlockTypes, TypesNext DEF ReconcileProject, history
  <1>5. CASE CancelRecordLock(p)
    BY Zenon, <1>5, <1>a, TypesNext DEF CancelRecordLock, history, Holders
  <1>6. CASE CancelLock(p)
    BY Zenon, <1>6, <1>0, <1>a, UnlockTypes, TypesNext DEF CancelLock, history
  <1>7. CASE CancelDecide(p)
    <2>1. CASE root = "committed"
      BY Zenon, <1>7, <2>1, <1>a, TypesNext DEF CancelDecide, history
    <2>2. CASE root # "committed"
      <3>1. /\ Cancelled(ledger) \in Ledger
            /\ Cancelled(ledger).state # "none"
        BY Zenon, EndScripts DEF Cancelled, Terminal, Outcomes
      <3>2. run' \in [Procs -> Records]
        <4>1. Restored(Cancelled(ledger)).state \in Live \cup Outcomes
          BY Zenon, <3>1, RecordTypes
        <4> QED
          BY <1>7, <2>2, <4>1 DEF CancelDecide, Records
      <3>3. worker' \in [Procs -> Tasks]
        BY Zenon, <1>7, <2>2, TaskTypes DEF CancelDecide
      <3> QED
        BY Zenon, <1>7, <2>2, <3>1, <3>2, <3>3, UnlockTypes, TypesNext DEF CancelDecide, history
    <2> QED
      BY Zenon, <2>1, <2>2
  <1>8. CASE DeleteLedger(p)
    <2>1. Deleted(ledger) \in Ledger
      BY Zenon, EndScripts DEF Deleted, Terminal
    <2>2. run' \in [Procs -> Records]
      BY Zenon, <1>8 DEF DeleteLedger, Records
    <2> QED
      BY Zenon, <1>8, <2>1, <2>2, UnlockTypes, TypesNext DEF DeleteLedger, history
  <1>9. CASE Admit(p)
    <2>1. Admitted(ledger) \in Ledger
      BY Zenon, AdmitScript
    <2>2. run' \in [Procs -> Records]
      BY Zenon, <1>9, <2>1, RecordTypes DEF Admit
    <2> QED
      BY Zenon, <1>9, <2>1, <2>2, <1>a, TypesNext DEF Admit, history
  <1>10. ASSUME NEW kind \in {"status", "cancel"}, NEW pc \in {"lock", "record"},
                Open(p, kind, pc)
         PROVE  TypeOK'
    <2>1. run' \in [Procs -> Records]
      BY Zenon, <1>10, RecordTypes DEF Open
    <2>2. handler' \in [Procs -> Calls]
      BY Zenon, <1>10, <1>a DEF Open
    <2> QED
      BY Zenon, <1>10, <2>1, <2>2, TypesNext DEF Open, history
  <1>11. CASE Status(p) \/ Cancel(p)
    BY Zenon, <1>10, <1>11 DEF Status, Cancel
  <1>12. CASE Delete(p)
    BY Zenon, <1>12, <1>a, TypesNext DEF Delete, history
  <1>13. CASE Recover(p)
    BY Zenon, <1>13, RecordTypes, TaskTypes, TypesNext DEF Recover, history
  <1>14. CASE ClaimNote(p)
    <2>1. NoteClaimed(ledger) \in Ledger
      BY Zenon, <1>14, NoteClaimScript DEF ClaimNote, NoteOnly
    <2>2. ledger'.note.owner \in 0..MaxNoteTries
      BY Zenon, <1>14, <2>1 DEF ClaimNote, Ledger
    <2>3. sender' \in [Procs -> Sends]
      <3>1. \/ sender' = sender
            \/ sender' = [sender EXCEPT ![p].pc = "send", ![p].owner = ledger'.note.owner]
        BY Zenon, <1>14 DEF ClaimNote
      <3>2. [sender[p] EXCEPT !.pc = "send", !.owner = ledger'.note.owner] \in Sends
        BY ZenonT(30), <2>2 DEF Sends
      <3> QED
        BY ZenonT(30), <3>1, <3>2
    <2> QED
      BY Zenon, <1>14, <2>1, <2>3, TypesNext DEF ClaimNote, history
  <1>15. CASE SendNote(p)
    <2>1. sender' \in [Procs -> Sends]
      <3>1. PICK outcome \in {"delivered", "rejected", "retry"} :
              sender' = [sender EXCEPT ![p].pc = "finish", ![p].outcome = outcome]
        BY <1>15, Zenon DEF SendNote
      <3> QED
        BY ZenonT(30), <3>1 DEF Sends
    <2> QED
      BY <1>15, <2>1, TypesNext DEF SendNote
  <1>16. CASE FinishNote(p)
    <2>1. NoSend \in Sends
      BY Zenon, <1>0 DEF NoSend, Sends
    <2>2. NoteFinished(ledger, sender[p].owner, sender[p].outcome) \in Ledger
      <3>1. sender[p].outcome \in {"none", "delivered", "rejected", "retry"}
        BY Zenon DEF Sends
      <3> QED
        BY Zenon, <3>1, NoteFinishScript DEF NoteOnly
    <2> QED
      BY Zenon, <1>16, <2>1, <2>2, TypesNext DEF FinishNote, history
  <1>17. CASE Crash(p)
    <2>1. NoSend \in Sends /\ NoRecord \in Records /\ NoCall \in Calls /\ "free" \in Holders
      BY Zenon, <1>0 DEF NoSend, Sends, NoRecord, Records, NoCall, Calls, Holders
    <2> QED
      BY Zenon, <1>17, <1>0, <1>f, <2>1, TaskTypes, TypesNext DEF Crash
  <1>18. CASE LockTimesOut(p)
    BY Zenon, <1>18, <1>f, UnlockTypes, TypesNext DEF LockTimesOut
  <1> QED
    BY Zenon, <1>1, <1>2, <1>3, <1>4, <1>5, <1>6, <1>7, <1>8, <1>9, <1>11, <1>12, <1>13, <1>14,
       <1>15, <1>16, <1>17, <1>18
    DEF Respond, Request, Notify

LEMMA TypeTime ==
    ASSUME TypeOK, LeaseLapses \/ WindowCloses \/ NoteComesDue \/ LockLost
    PROVE  TypeOK'
  <1> USE Types
  <1>f. ASSUME Fault \/ UNCHANGED faults PROVE faults' \in 0..MaxFaults
    BY <1>f, ResearchConstants DEF Fault
  <1>1. CASE LeaseLapses
    BY Zenon, <1>1, <1>f, LapseScripts, TypesNext DEF LeaseLapses, local
  <1>2. CASE WindowCloses
    BY Zenon, <1>2, LapseScripts, TypesNext DEF WindowCloses, local, history
  <1>3. CASE NoteComesDue
    BY Zenon, <1>3, <1>f, DueScript, TypesNext DEF NoteComesDue, local, NoteOnly
  <1>4. CASE LockLost
    BY Zenon, <1>4, <1>f, TypesNext DEF LockLost, local, Locks
  <1> QED
    BY Zenon, <1>1, <1>2, <1>3, <1>4

-----------------------------------------------------------------------------
(* What the parts of an action do to the task, the request and the lock    *)

Keeps(f, g, p) == \A q \in Procs \ {p} : g[q] = f[q]

LEMMA TaskMoves ==
    ASSUME TypeOK, NEW p \in Procs
    PROVE  /\ \A pc : Goto(p, pc) =>
                 /\ worker'[p].pc = pc /\ worker'[p].op = worker[p].op
                 /\ worker'[p].gen = worker[p].gen /\ worker'[p].error = worker[p].error
                 /\ Keeps(worker, worker', p)
           /\ NextOp(p) =>
                 /\ worker'[p].pc \in {"begin", "finish"} /\ Keeps(worker, worker', p)
           /\ \A e : Raises(p, e) => worker'[p].pc = "failing" /\ Keeps(worker, worker', p)
           /\ EndWorker(p) => worker'[p].pc = "idle" /\ Keeps(worker, worker', p)
           /\ Leaves(p) => worker'[p].pc \in {"idle", "failing"} /\ Keeps(worker, worker', p)
           /\ worker' = Started(p) =>
                 /\ worker'[p] = worker[p] \/ worker'[p].pc = "start"
                 /\ Keeps(worker, worker', p)
  <1>1. worker \in [Procs -> Tasks]
    BY Types
  <1> USE <1>1 DEF Keeps, Tasks
  <1>2. ASSUME NEW pc, Goto(p, pc)
        PROVE  /\ worker'[p].pc = pc /\ worker'[p].op = worker[p].op
               /\ worker'[p].gen = worker[p].gen /\ worker'[p].error = worker[p].error
               /\ Keeps(worker, worker', p)
    BY Zenon, <1>2 DEF Goto
  <1>3. ASSUME NextOp(p)
        PROVE  worker'[p].pc \in {"begin", "finish"} /\ Keeps(worker, worker', p)
    BY <1>2, <1>3 DEF NextOp
  <1>4. ASSUME NEW e, Raises(p, e)
        PROVE  worker'[p].pc = "failing" /\ Keeps(worker, worker', p)
    BY Zenon, <1>4 DEF Raises
  <1>5. ASSUME EndWorker(p) PROVE worker'[p].pc = "idle" /\ Keeps(worker, worker', p)
    BY Zenon, <1>5 DEF EndWorker, NoTask
  <1>6. ASSUME worker' = Started(p)
        PROVE  /\ worker'[p] = worker[p] \/ worker'[p].pc = "start"
               /\ Keeps(worker, worker', p)
    BY Zenon, <1>6 DEF Started, NoTask
  <1>7. ASSUME Leaves(p) PROVE worker'[p].pc \in {"idle", "failing"} /\ Keeps(worker, worker', p)
    BY Zenon, <1>4, <1>5, <1>7 DEF Leaves
  <1> QED
    BY Zenon, <1>2, <1>3, <1>4, <1>5, <1>6, <1>7

LEMMA CallMoves ==
    ASSUME TypeOK, NEW p \in Procs
    PROVE  /\ \A kind, pc : Answer(p, kind, pc) =>
                 handler'[p].kind = kind /\ handler'[p].pc = pc /\ Keeps(handler, handler', p)
           /\ EndHandler(p) =>
                 handler'[p].kind = "none" /\ handler'[p].pc = "idle" /\ Keeps(handler, handler', p)
  BY Types DEF Keeps, Answer, EndHandler, NoCall

\* The execution lock as a process p that acts leaves it: what another process
\* holds is not touched.
LEMMA LockMoves ==
    ASSUME NEW p, NEW q, p # q
    PROVE  /\ ByWorker(p) # ByWorker(q) /\ ByHandler(p) # ByHandler(q)
           /\ ByWorker(p) # ByHandler(q) /\ ByWorker(p) # ByHandler(p)
           /\ ByWorker(q) # ByHandler(p)
           /\ Free # ByWorker(q) /\ Free # ByHandler(q)
  BY Zenon DEF ByWorker, ByHandler, Free

-----------------------------------------------------------------------------
(* Locks and local records                                                 *)

\* A worker's action, as the lock and the records of the processes see it.
WorkerActs(p) ==
    /\ handler' = handler /\ Keeps(worker, worker', p) /\ Keeps(run, run', p)
    /\ lock' = lock \/ lock \in {Free, ByWorker(p)}
    /\ lost' = lost
    /\ ~lost /\ worker'[p].pc \in WorkerHolds => lock' = ByWorker(p)
    /\ run'[p].state # "none" \/ (run'[p] = run[p] /\ worker'[p].pc = "idle")

LEMMA RunWrites ==
    ASSUME TypeOK, NEW p \in Procs
    PROVE  /\ \A x : run' = [run EXCEPT ![p].state = x] =>
                 run'[p].state = x /\ run'[p].gen = run[p].gen /\ Keeps(run, run', p)
           /\ \A x : run' = [run EXCEPT ![p].gen = x] =>
                 run'[p].gen = x /\ run'[p].state = run[p].state /\ Keeps(run, run', p)
           /\ run' = [run EXCEPT ![p].deleted = TRUE] =>
                 run'[p].gen = run[p].gen /\ run'[p].state = run[p].state /\ Keeps(run, run', p)
  BY Types DEF Keeps, Records

LEMMA FindMoves ==
    ASSUME TypeOK, NEW p \in Procs, FindRoot(p)
    PROVE  worker'[p].pc \in {"idle", "begin", "failing"} /\ Keeps(worker, worker', p)
  <1>1. CASE EndWorker(p) \/ Leaves(p)
    BY Zenon, <1>1, TaskMoves
  <1>2. CASE worker' = [worker EXCEPT
               ![p].pc = IF lock = ByWorker(p) THEN "begin" ELSE "failing",
               ![p].error = IF lock = ByWorker(p) THEN @ ELSE "research_run_failed",
               ![p].gen = run[p].gen]
    BY ONLY Zenon, TypeOK, p \in Procs, <1>2, Types DEF Keeps, Tasks
  <1> QED
    BY ONLY Zenon, FindRoot(p), <1>1, <1>2 DEF FindRoot

LEMMA WorkerLocks ==
    ASSUME TypeOK, LocksHeld, RunKnown, NEW p \in Procs, Execute(p) \/ WorkerFault(p)
    PROVE  WorkerActs(p)
  <1>a. worker[p].pc # "idle" => run[p].state # "none"
    BY Zenon DEF RunKnown
  <1>b. ~lost /\ worker[p].pc \in WorkerHolds => lock = ByWorker(p)
    BY Zenon DEF LocksHeld
  <1>c. UNCHANGED run => Keeps(run, run', p)
    BY Zenon DEF Keeps
  <1> USE <1>a, <1>b, <1>c, TaskMoves DEF WorkerActs, WorkerHolds, At, WorkerUnlocks, history
  <1>1. CASE TakeRecordLock(p)
    BY <1>1 DEF TakeRecordLock
  <1>2. CASE Enter(p)
    <2>1. worker[p].pc # "idle"
      BY ONLY Zenon, <1>2 DEF Enter, At
    <2>2. run' = run \/ run' = [run EXCEPT ![p].state = "cancelled"]
      BY ONLY Zenon, <1>2 DEF Enter
    <2>3. Keeps(run, run', p) /\ run'[p].state # "none"
      BY ONLY TypeOK, p \in Procs, <1>a, <2>1, <2>2, Types DEF Keeps, Records
    <2> QED
      BY Zenon, <1>2, <2>3 DEF Enter, EndWorker
  <1>3. CASE Claim(p)
    <2>1. worker[p].pc # "idle"
      BY ONLY Zenon, <1>3 DEF Claim, At
    <2>2. run' = run \/ run' = [run EXCEPT ![p].gen = ledger.gen + 1]
      BY ONLY Zenon, <1>3 DEF Claim
    <2>3. Keeps(run, run', p) /\ run'[p].state # "none"
      BY ONLY TypeOK, p \in Procs, <1>a, <2>1, <2>2, Types DEF Keeps, Records
    <2> QED
      BY Zenon, <1>3, <2>3 DEF Claim, Leaves, EndWorker, Raises
  <1>4. CASE FindRoot(p)
    <2>1. worker[p].pc # "idle"
      BY ONLY Zenon, <1>4 DEF FindRoot, At
    <2>2. run' = run \/ run' = [run EXCEPT ![p].state = "completed"]
            \/ run' = [run EXCEPT ![p].state = "running"]
      BY ONLY Zenon, <1>4 DEF FindRoot, Projected
    <2>3. Keeps(run, run', p) /\ run'[p].state # "none"
      BY ONLY TypeOK, p \in Procs, <1>a, <2>1, <2>2, Types DEF Keeps, Records
    <2>4. worker'[p].pc \in {"idle", "begin", "failing"} /\ Keeps(worker, worker', p)
      BY Zenon, <1>4, FindMoves
    <2> QED
      BY Zenon, <1>4, <2>3, <2>4 DEF FindRoot, Leaves, EndWorker, Raises
  <1>5. CASE BeginOp(p)
    <2>1. worker[p].op \in Ops
      BY ONLY Zenon, TypeOK, p \in Procs, Types DEF Tasks
    <2>2. Begin(ledger, worker[p].op) \in {"dispatch", "unknown", "replay"}
      BY ONLY Zenon, TypeOK, <2>1, Types DEF Begin, Ledger
    <2>3. \/ EndWorker(p) \/ Raises(p, "outcome_unknown")
          \/ (Goto(p, "dispatch") /\ UNCHANGED lock) \/ (NextOp(p) /\ UNCHANGED lock)
      BY ONLY Zenon, <1>5, <2>2 DEF BeginOp
    <2> QED
      BY <1>5, <2>3 DEF BeginOp, EndWorker, Raises
  <1>6. CASE Dispatch(p)
    BY <1>6 DEF Dispatch
  <1>7. CASE CallReturns(p)
    BY <1>7 DEF CallReturns
  <1>8. CASE CallRaises(p)
    BY Zenon, <1>8 DEF CallRaises, Raises
  <1>9. CASE CompleteOp(p)
    BY <1>9 DEF CompleteOp, EndWorker, Raises
  <1>10. CASE Publish(p)
    <2>1. worker[p].pc # "idle"
      BY ONLY Zenon, <1>10 DEF Publish, At
    <2>2. run' = run \/ run' = [run EXCEPT ![p].state = "cancelled"]
      BY ONLY Zenon, <1>10 DEF Publish
    <2>3. Keeps(run, run', p) /\ run'[p].state # "none"
      BY ONLY TypeOK, p \in Procs, <1>a, <2>1, <2>2, Types DEF Keeps, Records
    <2> QED
      BY Zenon, <1>10, <2>3 DEF Publish, EndWorker
  <1>11. CASE Heartbeat(p)
    BY Zenon, <1>11 DEF Heartbeat, EndWorker
  <1>12. CASE CommitRoot(p)
    BY <1>12 DEF CommitRoot, Raises
  <1>13. CASE Project(p)
    <2>1. worker[p].pc # "idle"
      BY ONLY Zenon, <1>13 DEF Project, At
    <2>2. run' = run \/ run' = [run EXCEPT ![p].state = "completed"]
      BY ONLY Zenon, <1>13 DEF Project, Projected
    <2>3. Keeps(run, run', p) /\ run'[p].state # "none"
      BY ONLY TypeOK, p \in Procs, <1>a, <2>1, <2>2, Types DEF Keeps, Records
    <2> QED
      BY Zenon, <1>13, <2>3 DEF Project, Leaves, EndWorker, Raises
  <1>14. CASE Settle(p)
    BY <1>14 DEF Settle, EndWorker
  <1>15. CASE FailLock(p)
    <2>1. worker'[p].pc \in {"idle", "record"} /\ Keeps(worker, worker', p)
      <3>1. CASE EndWorker(p)
        BY Zenon, <3>1
      <3>2. CASE worker' = [worker EXCEPT
                   ![p].pc = "record",
                   ![p].error = IF HasPendingDispatch(ledger) THEN "outcome_unknown" ELSE @]
        BY ONLY Zenon, TypeOK, p \in Procs, <3>2, Types DEF Keeps, Tasks
      <3> QED
        BY ONLY Zenon, <1>15, <3>1, <3>2 DEF FailLock
    <2> QED
      BY Zenon, <1>15, <2>1 DEF FailLock, EndWorker
  <1>16. CASE RecordFailure(p)
    <2>1. worker[p].pc # "idle"
      BY ONLY Zenon, <1>16 DEF RecordFailure, At
    <2>2. run' = run \/ run' = [run EXCEPT ![p].state = "failed"]
      BY ONLY Zenon, <1>16 DEF RecordFailure
    <2>3. Keeps(run, run', p) /\ run'[p].state # "none"
      BY ONLY TypeOK, p \in Procs, <1>a, <2>1, <2>2, Types DEF Keeps, Records
    <2> QED
      BY Zenon, <1>16, <2>3 DEF RecordFailure, EndWorker
  <1>17. CASE Renewal(p)
    BY Zenon, <1>17 DEF Renewal, EndWorker
  <1>18. CASE Deadline(p)
    BY Zenon, <1>18 DEF Deadline, Raises
  <1>19. CASE CommitRaises(p)
    BY Zenon, <1>19 DEF CommitRaises, Raises
  <1>20. CASE StorageRaises(p)
    BY Zenon, <1>20, ResearchConstants DEF StorageRaises, Raises
  <1>21. CASE SettleRaises(p)
    BY Zenon, <1>21 DEF SettleRaises, EndWorker
  <1> QED
    BY Zenon, <1>1, <1>2, <1>3, <1>4, <1>5, <1>6, <1>7, <1>8, <1>9, <1>10, <1>11, <1>12, <1>13, <1>14, <1>15, <1>16, <1>17, <1>18, <1>19, <1>20, <1>21
    DEF Execute, WorkerFault

-----------------------------------------------------------------------------
(* Every step of a process as one of sixteen turns, by what it changes     *)

\* No publisher is between its heartbeat and its commit, if the lock can tell.
NoCommit == ~lost => \A q \in Procs : worker[q].pc # "commit"

Frame(p) == /\ lost' = lost
            /\ Keeps(worker, worker', p) /\ Keeps(run, run', p) /\ Keeps(handler, handler', p)

SameGen(p) == run'[p].gen = run[p].gen

\* A worker moves on or gives up; nothing outside its process changes.
Walks(p) ==
    /\ UNCHANGED <<ledger, root, dispatched, handler>> /\ SameGen(p)
    /\ worker'[p].pc \notin {"dispatch", "commit", "project", "fail", "record"}

Claims(p) ==
    /\ NoCommit /\ UNCHANGED <<root, dispatched>>
    /\ Claimable(ledger) /\ ledger' = Claimed(ledger) /\ run'[p].gen = ledger.gen + 1
    /\ \/ worker'[p].pc = "find" /\ UNCHANGED handler
       \/ /\ root = "committed" /\ UNCHANGED worker
          /\ handler'[p].pc = "project" /\ handler'[p].kind = handler[p].kind

\* A claim takes effect and its answer is lost: the process holds no generation.
Mislays(p) ==
    /\ NoCommit /\ UNCHANGED <<root, dispatched, handler>> /\ SameGen(p)
    /\ Claimable(ledger) /\ ledger' = Claimed(ledger) /\ worker'[p].pc = "failing"

Intends(p) ==
    /\ UNCHANGED <<root, dispatched, handler>> /\ SameGen(p)
    /\ Owns(ledger, run[p].gen) /\ ledger.ops[worker[p].op] = "none"
    /\ ledger' = Intended(ledger, worker[p].op)
    /\ worker'[p].pc = "dispatch" /\ worker'[p].op = worker[p].op

Dispatches(p) ==
    /\ UNCHANGED <<ledger, root, handler>> /\ SameGen(p)
    /\ worker[p].pc = "dispatch" /\ worker'[p].pc = "calling"
    /\ dispatched' = [dispatched EXCEPT ![worker[p].op] = @ + 1]

Receives(p) ==
    /\ UNCHANGED <<root, dispatched, handler>> /\ SameGen(p)
    /\ Owns(ledger, run[p].gen) /\ ledger' = Received(ledger, worker[p].op)
    /\ worker'[p].pc \in {"begin", "finish", "failing"}

Beats(p) ==
    /\ UNCHANGED <<ledger, root, dispatched, handler>> /\ SameGen(p)
    /\ Owns(ledger, run[p].gen) /\ worker'[p].pc = "commit"

\* The root is committed, and the worker may or may not learn it.
Roots(p) ==
    /\ UNCHANGED <<ledger, dispatched, handler>> /\ SameGen(p)
    /\ worker[p].pc = "commit" /\ worker'[p].pc \in {"project", "failing"}
    /\ root # "deleted" /\ root' = "committed"

Projects(p) ==
    /\ NoCommit /\ root # "none" /\ UNCHANGED <<root, dispatched>> /\ SameGen(p)
    /\ Owns(ledger, run[p].gen) /\ ledger' = Committed(ledger)
    /\ worker'[p].pc \in {"idle", "failing"} \/ UNCHANGED worker
    /\ UNCHANGED handler \/ handler'[p] = NoCall

Settles(p) ==
    /\ UNCHANGED <<ledger, root, dispatched, handler>> /\ SameGen(p)
    /\ root # "committed" /\ worker'[p].pc = "fail"

Decides(p) ==
    /\ UNCHANGED <<ledger, root, dispatched, handler>> /\ SameGen(p)
    /\ worker[p].pc = "fail" /\ worker'[p].pc = "record"
    /\ HasPendingDispatch(ledger) => worker'[p].error = "outcome_unknown"

Concedes(p) ==
    /\ UNCHANGED <<root, dispatched, handler>> /\ SameGen(p)
    /\ worker[p].pc = "record" /\ Owns(ledger, run[p].gen) /\ handler[p].pc # "project"
    /\ ledger' = Failed(ledger, worker[p].error) /\ worker'[p].pc = "idle"

\* A request is answered, a worker starts or is lost, the process is lost.
Answers(p) ==
    /\ UNCHANGED <<root, dispatched>>
    /\ ledger' = ledger \/ (ledger.state = "none" /\ ledger' = Admitted(ledger))
    /\ SameGen(p) \/ (run'[p].gen = 0 /\ worker'[p].pc \in {"idle", "start"})
    /\ worker'[p] = worker[p] \/ worker'[p].pc \in {"idle", "start"}
    /\ handler'[p].pc # "project"
    /\ handler'[p].kind = "delete" => handler[p].kind = "delete"
    /\ handler[p].pc = "project" => ~Owns(ledger, run'[p].gen)

Cancels(p) ==
    /\ NoCommit /\ root # "committed" /\ UNCHANGED <<root, dispatched>> /\ SameGen(p)
    /\ ledger' = Cancelled(ledger) /\ handler[p].pc # "project" /\ handler'[p] = NoCall
    /\ worker'[p] = worker[p] \/ worker'[p].pc = "idle"

Buries(p) ==
    /\ NoCommit /\ UNCHANGED <<ledger, dispatched, worker>> /\ SameGen(p)
    /\ root' = "deleted" /\ handler[p].pc # "project" /\ handler'[p].pc = "ledger"

Deletes(p) ==
    /\ UNCHANGED <<root, dispatched, worker>> /\ SameGen(p)
    /\ handler[p].kind = "delete" /\ handler[p].pc # "project"
    /\ ledger' = Deleted(ledger) /\ handler'[p] = NoCall

Turns(p) ==
    /\ Frame(p)
    /\ \/ Walks(p) \/ Claims(p) \/ Intends(p) \/ Dispatches(p) \/ Receives(p) \/ Beats(p)
       \/ Roots(p) \/ Projects(p) \/ Settles(p) \/ Decides(p) \/ Concedes(p)
       \/ Answers(p) \/ Cancels(p) \/ Buries(p) \/ Deletes(p) \/ Mislays(p)

\* The holder of the execution lock, when it is not itself about to commit,
\* knows that nobody is.
LEMMA Alone ==
    ASSUME LocksHeld, NEW p,
           \/ lock = Free \/ lock = ByHandler(p)
           \/ (lock = ByWorker(p) /\ worker[p].pc # "commit")
    PROVE  NoCommit
  <1> SUFFICES ASSUME ~lost, NEW q \in Procs, worker[q].pc = "commit" PROVE FALSE
    BY Zenon DEF NoCommit
  <1>1. lock = ByWorker(q)
    BY Zenon DEF LocksHeld, WorkerHolds
  <1> QED
    BY Zenon, <1>1 DEF Free, ByHandler, ByWorker

LEMMA WorkerTurns ==
    ASSUME TypeOK, LocksHeld, RunKnown, RootGuarded, NEW p \in Procs,
           Execute(p) \/ WorkerFault(p)
    PROVE  Turns(p) /\ UNCHANGED <<sender, sent>>
  <1>a. handler' = handler /\ Frame(p)
    BY Zenon, WorkerLocks DEF WorkerActs, Frame, Keeps
  <1>b. ~lost /\ worker[p].pc \in WorkerHolds => lock = ByWorker(p)
    BY Zenon DEF LocksHeld
  <1>c. worker[p].pc \in WorkerHolds \ {"commit"} => NoCommit
    BY Zenon, <1>b, Alone DEF NoCommit
  <1>d. worker[p].op \in Ops
    BY ONLY TypeOK, p \in Procs, Types DEF Tasks
  <1> USE <1>a, TaskMoves DEF Turns, At
  <1>1. CASE TakeRecordLock(p)
    <2>1. PICK pc \in {"enter", "publish"} : Goto(p, pc)
      BY <1>1 DEF TakeRecordLock
    <2>2. UNCHANGED <<ledger, root, run, handler, sender, dispatched, sent>>
      BY Zenon, <1>1 DEF TakeRecordLock, history
    <2>3. worker'[p].pc \notin {"dispatch", "commit", "project", "fail", "record"}
      BY Zenon, <2>1
    <2> QED
      BY ZenonT(30), <2>2, <2>3 DEF Walks, SameGen
  <1>2. CASE Enter(p)
    <2>1. run' = run \/ run' = [run EXCEPT ![p].state = "cancelled"]
      BY ONLY Zenon, <1>2 DEF Enter
    <2>2. SameGen(p)
      BY ONLY TypeOK, p \in Procs, <2>1, Types DEF SameGen, Records
    <2> QED
      BY <1>2, <2>2 DEF Enter, Walks, history
  <1>3. CASE Claim(p)
    <2>1. CASE Claimable(ledger)
      <3>1. run'[p].gen = ledger.gen + 1
        BY ONLY TypeOK, p \in Procs, <1>3, <2>1, Types DEF Claim, Records
      <3>2. Claims(p)
        BY Zenon, <1>3, <1>c, <2>1, <3>1 DEF Claim, Claims, history, WorkerHolds
      <3> QED
        BY Zenon, <1>3, <3>2 DEF Claim, history
    <2>2. CASE ~Claimable(ledger)
      BY Zenon, <1>3, <2>2 DEF Claim, Walks, SameGen, history
    <2> QED
      BY Zenon, <2>1, <2>2
  <1>4. CASE FindRoot(p)
    <2>1. run' = run \/ run' = [run EXCEPT ![p].state = "completed"]
          \/ run' = [run EXCEPT ![p].state = "running"]
      BY ONLY Zenon, <1>4 DEF FindRoot, Projected
    <2>2. SameGen(p)
      BY ONLY TypeOK, p \in Procs, <2>1, Types DEF SameGen, Records
    <2>3. CASE root = "committed" /\ Owns(ledger, run[p].gen)
      <3>1. root # "none"
        BY Zenon, <1>4, <2>3 DEF FindRoot, RootGuarded
      <3>2. ledger' = Committed(ledger) /\ Leaves(p)
        BY ONLY Zenon, <1>4, <2>3 DEF FindRoot, Projected
      <3> QED
        BY Zenon, <1>4, <1>c, <2>2, <2>3, <3>1, <3>2 DEF FindRoot, Projects, history, WorkerHolds
    <2>4. CASE ~(root = "committed" /\ Owns(ledger, run[p].gen))
      <3>1. worker'[p].pc \in {"idle", "begin", "failing"}
        BY Zenon, <1>4, FindMoves
      <3>2. UNCHANGED <<ledger, root, dispatched, sender, sent>>
        BY ONLY Zenon, <1>4, <2>4 DEF FindRoot, history
      <3> QED
        BY Zenon, <2>2, <3>1, <3>2 DEF Walks
    <2> QED
      BY Zenon, <2>3, <2>4
  <1>5. CASE BeginOp(p)
    <2>1. /\ ledger.ops[worker[p].op] \in {"none", "intent", "receipt"}
          /\ Begin(ledger, worker[p].op) = "dispatch" => ledger.ops[worker[p].op] = "none"
          /\ Begin(ledger, worker[p].op) \in {"dispatch", "unknown", "replay"}
      BY ONLY Zenon, TypeOK, <1>d, Types DEF Begin, Ledger
    <2>2. CASE Owns(ledger, run[p].gen) /\ Begin(ledger, worker[p].op) = "dispatch"
      <3>1. ledger' = Intended(ledger, worker[p].op) /\ Goto(p, "dispatch")
        BY ONLY Zenon, <1>5, <2>2 DEF BeginOp
      <3>2. Intends(p)
        BY Zenon, <1>5, <2>1, <2>2, <3>1 DEF BeginOp, Intends, SameGen, history
      <3> QED
        BY Zenon, <1>5, <3>2 DEF BeginOp, history
    <2>3. CASE ~(Owns(ledger, run[p].gen) /\ Begin(ledger, worker[p].op) = "dispatch")
      <3>1. /\ EndWorker(p) \/ Raises(p, "outcome_unknown") \/ NextOp(p)
            /\ ledger' = ledger
        BY ONLY Zenon, <1>5, <2>1, <2>3 DEF BeginOp
      <3> QED
        BY Zenon, <1>5, <3>1 DEF BeginOp, Walks, SameGen, history
    <2> QED
      BY Zenon, <2>2, <2>3
  <1>6. CASE Dispatch(p)
    BY Zenon, <1>6 DEF Dispatch, Dispatches, SameGen
  <1>7. CASE CallReturns(p)
    <2>1. /\ Goto(p, "complete")
          /\ UNCHANGED <<ledger, root, run, handler, sender, dispatched, sent>>
      BY ONLY Zenon, <1>7 DEF CallReturns, history
    <2>2. worker'[p].pc = "complete"
      BY Zenon, <2>1
    <2> QED
      BY Zenon, <2>1, <2>2 DEF Walks, SameGen
  <1>8. CASE CallRaises(p)
    BY Zenon, <1>8 DEF CallRaises, Walks, SameGen, history
  <1>9. CASE CompleteOp(p)
    <2>1. CASE Owns(ledger, run[p].gen)
      BY Zenon, <1>9, <2>1 DEF CompleteOp, Receives, SameGen, history
    <2>2. CASE ~Owns(ledger, run[p].gen)
      BY Zenon, <1>9, <2>2 DEF CompleteOp, Walks, SameGen, history
    <2> QED
      BY Zenon, <2>1, <2>2
  <1>10. CASE Publish(p)
    <2>1. run' = run \/ run' = [run EXCEPT ![p].state = "cancelled"]
      BY ONLY Zenon, <1>10 DEF Publish
    <2>2. SameGen(p)
      BY ONLY TypeOK, p \in Procs, <2>1, Types DEF SameGen, Records
    <2> QED
      BY <1>10, <2>2 DEF Publish, Walks, history
  <1>11. CASE Heartbeat(p)
    BY Zenon, <1>11 DEF Heartbeat, Beats, Walks, SameGen, history
  <1>12. CASE CommitRoot(p)
    BY Zenon, <1>12 DEF CommitRoot, Roots, Walks, SameGen, history
  <1>13. CASE Project(p)
    <2>1. run' = run \/ run' = [run EXCEPT ![p].state = "completed"]
      BY ONLY Zenon, <1>13 DEF Project, Projected
    <2>2. SameGen(p)
      BY ONLY TypeOK, p \in Procs, <2>1, Types DEF SameGen, Records
    <2>3. CASE Owns(ledger, run[p].gen)
      <3>1. root # "none"
        BY Zenon, <1>13, <2>3 DEF Project, RootGuarded
      <3>2. ledger' = Committed(ledger) /\ Leaves(p)
        BY ONLY Zenon, <1>13, <2>3 DEF Project, Projected
      <3> QED
        BY Zenon, <1>13, <1>c, <2>2, <2>3, <3>1, <3>2 DEF Project, Projects, history, WorkerHolds
    <2>4. CASE ~(Owns(ledger, run[p].gen))
      BY Zenon, <1>13, <2>2, <2>4 DEF Project, Walks, history
    <2> QED
      BY Zenon, <2>3, <2>4
  <1>14. CASE Settle(p)
    BY Zenon, <1>14 DEF Settle, Settles, Walks, SameGen, history
  <1>15. CASE FailLock(p)
    <2>1. CASE EndWorker(p)
      BY Zenon, <1>15, <2>1 DEF FailLock, Walks, SameGen, history
    <2>2. CASE worker' = [worker EXCEPT
                 ![p].pc = "record",
                 ![p].error = IF HasPendingDispatch(ledger) THEN "outcome_unknown" ELSE @]
      <3>1. /\ worker'[p].pc = "record"
            /\ HasPendingDispatch(ledger) => worker'[p].error = "outcome_unknown"
        BY ONLY Zenon, TypeOK, p \in Procs, <2>2, Types DEF Tasks
      <3> QED
        BY Zenon, <1>15, <3>1 DEF FailLock, Decides, SameGen, history
    <2> QED
      BY ONLY Zenon, <1>15, <2>1, <2>2 DEF FailLock
  <1>16. CASE RecordFailure(p)
    <2>1. run' = run \/ run' = [run EXCEPT ![p].state = "failed"]
      BY ONLY Zenon, <1>16 DEF RecordFailure
    <2>2. SameGen(p)
      BY ONLY TypeOK, p \in Procs, <2>1, Types DEF SameGen, Records
    <2>3. CASE Owns(ledger, run[p].gen)
      <3>1. ledger' = Failed(ledger, worker[p].error)
        BY ONLY Zenon, <1>16, <2>3 DEF RecordFailure, Owns
      <3> QED
        BY Zenon, <1>16, <2>2, <2>3, <3>1 DEF RecordFailure, Concedes, Runs, history
    <2>4. CASE ~Owns(ledger, run[p].gen)
      <3>1. ledger' = ledger
        BY ONLY Zenon, <1>16, <2>4 DEF RecordFailure
      <3> QED
        BY Zenon, <1>16, <2>2, <3>1 DEF RecordFailure, Walks, history
    <2> QED
      BY Zenon, <2>3, <2>4
  <1>17. CASE Renewal(p)
    BY Zenon, <1>17 DEF Renewal, Walks, SameGen, history
  <1>18. CASE Deadline(p)
    BY Zenon, <1>18 DEF Deadline, Walks, SameGen, history
  <1>19. CASE CommitRaises(p)
    BY Zenon, <1>19 DEF CommitRaises, Roots, Walks, SameGen
  <1>20. CASE StorageRaises(p)
    <2>1. CASE ledger' = ledger
      BY Zenon, <1>20, <2>1 DEF StorageRaises, Walks, SameGen
    <2>2. CASE worker[p].pc = "claim" /\ Claimable(ledger) /\ ledger' = Claimed(ledger)
      BY Zenon, <1>20, <1>c, <2>2 DEF StorageRaises, Mislays, SameGen, WorkerHolds
    <2> QED
      BY Zenon, <1>20, <2>1, <2>2 DEF StorageRaises
  <1>21. CASE SettleRaises(p)
    BY Zenon, <1>21 DEF SettleRaises, Walks, SameGen, history
  <1> QED
    BY Zenon, <1>1, <1>2, <1>3, <1>4, <1>5, <1>6, <1>7, <1>8, <1>9, <1>10, <1>11, <1>12,
       <1>13, <1>14, <1>15, <1>16, <1>17, <1>18, <1>19, <1>20, <1>21
    DEF Execute, WorkerFault

\* A request's action, a recovery and a crash, as the lock and the records see them.
HandlerActs(p) ==
    /\ Frame(p)
    /\ lock' = lock \/ lock \in {Free, ByHandler(p), ByWorker(p)}
    /\ ~lost /\ worker'[p].pc \in WorkerHolds => lock' = ByWorker(p)
    /\ ~lost /\ handler'[p].pc \in HandlerHolds => lock' = ByHandler(p)
    /\ handler'[p].pc \in HandlerHolds => handler'[p].kind \in {"status", "cancel"}
    /\ worker'[p].pc # "idle" \/ handler'[p].kind \in {"admit", "status", "cancel"} =>
         run'[p].state # "none"

LEMMA ActsHold ==
    ASSUME LocksHeld, RunKnown, NEW p \in Procs, WorkerActs(p) \/ HandlerActs(p)
    PROVE  LocksHeld' /\ RunKnown'
  <1>1. HandlerActs(p)
    <2>1. CASE WorkerActs(p)
      BY <2>1, LockMoves DEF WorkerActs, HandlerActs, Frame, Keeps, LocksHeld, RunKnown,
                  WorkerHolds, HandlerHolds, Free, ByWorker, ByHandler
    <2> QED
      BY Zenon, <2>1
  <1>2. ASSUME NEW q \in Procs, q # p
        PROVE  /\ worker'[q] = worker[q] /\ handler'[q] = handler[q] /\ run'[q] = run[q]
               /\ lock = ByWorker(q) \/ lock = ByHandler(q) => lock' = lock
    BY Zenon, <1>1, <1>2, LockMoves DEF HandlerActs, Frame, Keeps
  <1>3. LocksHeld'
    BY Zenon, <1>1, <1>2 DEF HandlerActs, Frame, LocksHeld
  <1>4. RunKnown'
    BY Zenon, <1>1, <1>2 DEF HandlerActs, RunKnown
  <1> QED
    BY Zenon, <1>3, <1>4

LEMMA HandlerTurns ==
    ASSUME TypeOK, LocksHeld, RunKnown, RootGuarded, NEW p \in Procs,
           Respond(p) \/ Request(p) \/ Recover(p) \/ Crash(p) \/ LockTimesOut(p)
    PROVE  Turns(p) /\ HandlerActs(p)
  <1>a. worker[p].pc # "idle" \/ handler[p].kind \in {"admit", "status", "cancel"} =>
            run[p].state # "none"
    BY Zenon DEF RunKnown
  <1>b. /\ handler[p].pc \in HandlerHolds => handler[p].kind \in {"status", "cancel"}
        /\ ~lost /\ handler[p].pc \in HandlerHolds => lock = ByHandler(p)
        /\ ~lost /\ worker[p].pc \in WorkerHolds => lock = ByWorker(p)
    BY Zenon DEF LocksHeld, RunKnown
  <1>c. lock = Free \/ lock = ByHandler(p) \/ handler[p].pc \in HandlerHolds => NoCommit
    BY Zenon, <1>b, Alone DEF NoCommit
  <1>d. ByHandler(p) # ByWorker(p) /\ ByHandler(p) # Free /\ ByWorker(p) # Free
    BY Zenon DEF ByHandler, ByWorker, Free
  <1>e. UNCHANGED run => Keeps(run, run', p) /\ SameGen(p)
    BY Zenon DEF Keeps, SameGen
  <1>f. UNCHANGED worker => Keeps(worker, worker', p)
    BY Zenon DEF Keeps
  <1>g. EndHandler(p) => lock' = IF lock = ByHandler(p) THEN Free ELSE lock
    BY Zenon DEF EndHandler
  <1> USE <1>a, <1>b, <1>d, <1>e, <1>f, <1>g, TaskMoves, CallMoves
      DEF Turns, Frame, HandlerActs, WorkerHolds, HandlerHolds
  <1>1. CASE AdmitStart(p)
    BY Zenon, <1>1 DEF AdmitStart, Answers, history
  <1>2. CASE StatusLock(p)
    <2>1. /\ handler[p] = [kind |-> "status", pc |-> "lock"]
          /\ lock = Free /\ lock' = ByHandler(p) /\ Answer(p, "status", "reconcile")
          /\ UNCHANGED <<ledger, root, run, worker, dispatched, lost>>
      BY ONLY Zenon, <1>2 DEF StatusLock, history
    <2>2. handler[p].kind = "status" /\ handler[p].pc = "lock"
      BY ONLY <2>1
    <2>3. /\ handler'[p].kind = "status" /\ handler'[p].pc = "reconcile"
          /\ Keeps(handler, handler', p)
          /\ Keeps(run, run', p) /\ Keeps(worker, worker', p) /\ SameGen(p)
      <3>1. handler'[p] = [kind |-> "status", pc |-> "reconcile"] /\ Keeps(handler, handler', p)
        BY ONLY Zenon, TypeOK, p \in Procs, <2>1, Types DEF Answer, Keeps
      <3>2. Keeps(run, run', p) /\ Keeps(worker, worker', p) /\ SameGen(p)
        BY ONLY Zenon, <1>e, <1>f, <2>1
      <3> QED
        BY ONLY <1>b, <2>1, <3>1, <3>2 DEF HandlerHolds
    <2>4. Answers(p)
      BY ONLY Zenon, <2>1, <2>2, <2>3 DEF Answers
    <2>5. HandlerActs(p)
      BY ONLY Zenon, <1>a, <1>b, <1>d, <2>1, <2>2, <2>3 DEF HandlerActs, Frame, WorkerHolds, HandlerHolds
    <2> QED
      BY Zenon, <2>4, <2>5
  <1>3. CASE Reconcile(p)
    <2>1. CASE EndHandler(p)
      <3>1. /\ handler[p].pc = "reconcile" /\ UNCHANGED <<root, dispatched, lost>>
            /\ \/ UNCHANGED <<ledger, run, worker>>
               \/ UNCHANGED <<ledger, run>> /\ worker' = Started(p)
        <4>1. handler' # [handler EXCEPT ![p].pc = "project"]
          BY ONLY TypeOK, p \in Procs, <2>1, Types DEF EndHandler, NoCall, Calls
        <4> QED
          BY ONLY Zenon, <1>3, <4>1 DEF Reconcile, history
      <3>2. handler'[p].kind = "none" /\ handler'[p].pc = "idle" /\ Keeps(handler, handler', p)
        BY Zenon, <2>1
      <3>3. /\ worker'[p] = worker[p] \/ worker'[p].pc = "start"
            /\ Keeps(worker, worker', p) /\ Keeps(run, run', p) /\ SameGen(p)
        BY Zenon, <3>1
      <3>4. run[p].state # "none"
        BY Zenon, <3>1
      <3>5. Answers(p)
        BY ONLY Zenon, <3>1, <3>2, <3>3 DEF Answers
      <3>6. HandlerActs(p)
        BY ONLY Zenon, <1>b, <1>d, <1>g, <2>1, <3>1, <3>2, <3>3, <3>4
        DEF HandlerActs, Frame, WorkerHolds, HandlerHolds
      <3> QED
        BY Zenon, <3>5, <3>6
    <2>2. CASE ~EndHandler(p)
      <3>1. /\ Claimable(ledger) /\ ledger' = Claimed(ledger) /\ root = "committed"
            /\ run' = [run EXCEPT ![p].gen = ledger.gen + 1]
            /\ handler' = [handler EXCEPT ![p].pc = "project"]
            /\ UNCHANGED <<lock, rlock, worker>>
        BY ONLY Zenon, <1>3, <2>2 DEF Reconcile
      <3>2. /\ Keeps(run, run', p) /\ run'[p].gen = ledger.gen + 1
            /\ run'[p].state = run[p].state
        BY ONLY Zenon, TypeOK, p \in Procs, <3>1, Types DEF Keeps, Records
      <3>3. /\ Keeps(handler, handler', p) /\ handler'[p].pc = "project"
            /\ handler'[p].kind = handler[p].kind
        BY ONLY Zenon, TypeOK, p \in Procs, <3>1, Types DEF Keeps, Calls
      <3>4. Claims(p)
        BY Zenon, <1>3, <1>c, <3>1, <3>2, <3>3 DEF Reconcile, Claims, history
      <3> QED
        BY <1>3, <3>1, <3>2, <3>3, <3>4 DEF Reconcile, history
    <2> QED
      BY Zenon, <2>1, <2>2
  <1>4. CASE ReconcileProject(p)
    <2>1. run' = run \/ run' = [run EXCEPT ![p].state = "completed"]
      BY ONLY Zenon, <1>4 DEF ReconcileProject, Projected
    <2>2. SameGen(p) /\ Keeps(run, run', p) /\ run'[p].state \in {run[p].state, "completed"}
      BY ONLY TypeOK, p \in Procs, <2>1, Types DEF SameGen, Keeps, Records
    <2>3. HandlerActs(p)
      BY Zenon, <1>4, <2>2 DEF ReconcileProject, history
    <2>4. CASE Owns(ledger, run[p].gen)
      <3>1. ledger' = Committed(ledger) /\ handler'[p] = NoCall
        BY ONLY Zenon, TypeOK, p \in Procs, <1>4, <2>4, Types DEF ReconcileProject, Projected, EndHandler
      <3>2. root # "none"
        BY Zenon, <1>4 DEF ReconcileProject, RootGuarded
      <3> QED
        BY Zenon, <1>4, <1>c, <2>2, <2>3, <2>4, <3>1, <3>2 DEF ReconcileProject, Projects, history
    <2>5. CASE ~Owns(ledger, run[p].gen)
      BY Zenon, <1>4, <2>2, <2>3, <2>5 DEF ReconcileProject, Answers, SameGen, history
    <2> QED
      BY Zenon, <2>4, <2>5
  <1>5. CASE CancelRecordLock(p)
    <2>1. /\ handler[p] = [kind |-> "cancel", pc |-> "record"] /\ Answer(p, "cancel", "lock")
          /\ UNCHANGED <<ledger, root, lock, run, worker, dispatched, lost>>
      BY ONLY Zenon, <1>5 DEF CancelRecordLock, history
    <2>2. handler[p].kind = "cancel" /\ handler[p].pc = "record"
      BY ONLY <2>1
    <2>3. /\ handler'[p].kind = "cancel" /\ handler'[p].pc = "lock"
          /\ Keeps(handler, handler', p)
          /\ Keeps(run, run', p) /\ Keeps(worker, worker', p) /\ SameGen(p)
      <3>1. handler'[p] = [kind |-> "cancel", pc |-> "lock"] /\ Keeps(handler, handler', p)
        BY ONLY Zenon, TypeOK, p \in Procs, <2>1, Types DEF Answer, Keeps
      <3>2. Keeps(run, run', p) /\ Keeps(worker, worker', p) /\ SameGen(p)
        BY ONLY Zenon, <1>e, <1>f, <2>1
      <3> QED
        BY ONLY <1>b, <2>1, <3>1, <3>2 DEF HandlerHolds
    <2>4. Answers(p)
      BY ONLY Zenon, <2>1, <2>2, <2>3 DEF Answers
    <2>5. HandlerActs(p)
      BY ONLY Zenon, <1>a, <1>b, <1>d, <2>1, <2>2, <2>3 DEF HandlerActs, Frame, WorkerHolds, HandlerHolds
    <2> QED
      BY Zenon, <2>4, <2>5
  <1>6. CASE CancelLock(p)
    <2>1. /\ handler[p] = [kind |-> "cancel", pc |-> "lock"] /\ lock = Free
          /\ EndHandler(p) \/ (lock' = ByHandler(p) /\ Answer(p, "cancel", "decide"))
          /\ UNCHANGED <<ledger, root, run, worker, dispatched, lost>>
      BY ONLY Zenon, <1>6 DEF CancelLock, history
    <2>2. handler[p].kind = "cancel" /\ handler[p].pc = "lock"
      BY ONLY <2>1
    <2>3. /\ Keeps(handler, handler', p) /\ handler'[p].kind \in {"none", "cancel"}
          /\ \/ handler'[p].pc = "idle" /\ lock' = Free
             \/ handler'[p].pc = "decide" /\ lock' = ByHandler(p)
          /\ handler'[p].pc = "decide" => handler'[p].kind = "cancel"
      <3>1. CASE EndHandler(p)
        BY ONLY Zenon, TypeOK, p \in Procs, <1>d, <2>1, <1>g, <3>1, CallMoves
      <3>2. CASE lock' = ByHandler(p) /\ Answer(p, "cancel", "decide")
        BY ONLY Zenon, TypeOK, p \in Procs, <3>2, Types DEF Answer, Keeps
      <3> QED
        BY Zenon, <2>1, <3>1, <3>2
    <2>4. Keeps(run, run', p) /\ Keeps(worker, worker', p) /\ SameGen(p)
      BY Zenon, <2>1
    <2>5. Answers(p)
      BY ONLY Zenon, <2>1, <2>2, <2>3, <2>4 DEF Answers
    <2>6. HandlerActs(p)
      BY ONLY Zenon, <1>a, <1>b, <1>d, <2>1, <2>2, <2>3, <2>4
      DEF HandlerActs, Frame, WorkerHolds, HandlerHolds
    <2> QED
      BY Zenon, <2>5, <2>6
  <1>7. CASE CancelDecide(p)
    <2>1. CASE root = "committed"
      BY <1>7, <2>1 DEF CancelDecide, Answers, history
    <2>2. CASE root # "committed"
      <3>1. /\ ledger' = Cancelled(ledger) /\ EndHandler(p) /\ root' = root
            /\ run' = [run EXCEPT ![p].state = Restored(Cancelled(ledger)).state]
            /\ worker' = [worker EXCEPT ![p] = NoTask] \/ worker' = worker
            /\ dispatched' = dispatched /\ lost' = lost
        BY ONLY Zenon, <1>7, <2>2 DEF CancelDecide, history
      <3>2. Restored(Cancelled(ledger)).state # "none"
        <4>1. Cancelled(ledger) \in Ledger /\ Cancelled(ledger).state # "none"
          BY ONLY Zenon, TypeOK, Types, EndScripts DEF Cancelled, Terminal, Outcomes
        <4> QED
          BY ONLY Zenon, TypeOK, p \in Procs, <4>1, RecordTypes DEF Live, Outcomes
      <3>3. SameGen(p) /\ Keeps(run, run', p) /\ run'[p].state # "none"
        BY ONLY Zenon, TypeOK, p \in Procs, <3>1, <3>2, Types DEF SameGen, Keeps, Records
      <3>4. /\ worker'[p] = worker[p] \/ worker'[p].pc = "idle"
            /\ Keeps(worker, worker', p)
        BY ONLY TypeOK, p \in Procs, <3>1, Types DEF Keeps, NoTask
      <3>5. handler'[p] = NoCall /\ handler[p].pc = "decide"
        BY ONLY TypeOK, p \in Procs, <1>7, <3>1, Types DEF EndHandler, CancelDecide
      <3> QED
        BY Zenon, <1>c, <2>2, <3>1, <3>3, <3>4, <3>5 DEF Cancels
    <2> QED
      BY Zenon, <2>1, <2>2
  <1>8. CASE DeleteLedger(p)
    <2>1. run' = run \/ run' = [run EXCEPT ![p].deleted = TRUE]
      BY ONLY Zenon, <1>8 DEF DeleteLedger
    <2>2. SameGen(p) /\ Keeps(run, run', p) /\ run'[p].state = run[p].state
      BY ONLY TypeOK, p \in Procs, <2>1, Types DEF SameGen, Keeps, Records
    <2>3. handler'[p] = NoCall
      BY ONLY Zenon, TypeOK, p \in Procs, <1>8, Types DEF EndHandler, DeleteLedger
    <2> QED
      BY Zenon, <1>8, <2>2, <2>3 DEF DeleteLedger, Deletes, history
  <1>9. ASSUME NEW L \in Ledger, L.state # "none"
        PROVE  /\ Known(p, L).state # "none"
               /\ Known(p, L).gen \in {0, run[p].gen}
               /\ run[p].state # "none" => Known(p, L) = run[p]
    BY ONLY Zenon, <1>9 DEF Known, Restored, Ledger, Live, Terminal, Outcomes
  <1>10. ledger \in Ledger
    BY Zenon, Types
  <1>11. CASE Admit(p)
    <2>1. Admitted(ledger) \in Ledger /\ Admitted(ledger).state # "none"
      BY ONLY <1>10, AdmitScript
    <2>2. run'[p] = Known(p, Admitted(ledger)) /\ Keeps(run, run', p)
      BY ONLY Zenon, TypeOK, p \in Procs, <1>11, Types DEF Admit, Keeps
    <2>3. ledger' = ledger \/ (ledger.state = "none" /\ ledger' = Admitted(ledger))
      BY ONLY Zenon, <1>11 DEF Admit, Admitted
    <2>4. /\ worker[p].pc = "idle" => worker'[p].pc = "idle"
          /\ handler[p].kind = "none" /\ Answer(p, "admit", "start")
          /\ UNCHANGED <<root, lock, worker, dispatched, lost>>
      BY ONLY Zenon, <1>11 DEF Admit, Idle, history
    <2>5. /\ run'[p].state # "none" /\ run'[p].gen \in {0, run[p].gen}
          /\ run[p].state # "none" => SameGen(p)
      BY ONLY Zenon, <1>9, <2>1, <2>2 DEF SameGen
    <2>6. /\ handler[p].pc # "project" /\ Keeps(worker, worker', p)
          /\ handler'[p].kind = "admit" /\ handler'[p].pc = "start" /\ Keeps(handler, handler', p)
      <3>1. handler'[p] = [kind |-> "admit", pc |-> "start"] /\ Keeps(handler, handler', p)
        BY ONLY Zenon, TypeOK, p \in Procs, <2>4, Types DEF Answer, Keeps
      <3> QED
        BY ONLY <1>b, <1>f, <2>4, <3>1 DEF HandlerHolds
    <2>7. Answers(p)
      BY ONLY Zenon, <1>a, <2>3, <2>4, <2>5, <2>6 DEF Answers, SameGen
    <2>8. HandlerActs(p)
      BY ONLY Zenon, <1>b, <2>2, <2>4, <2>5, <2>6 DEF HandlerActs, Frame, WorkerHolds, HandlerHolds
    <2> QED
      BY Zenon, <2>7, <2>8
  <1>12. ASSUME NEW kind \in {"status", "cancel"}, NEW pc \in {"lock", "record"},
                Open(p, kind, pc)
         PROVE  Turns(p) /\ HandlerActs(p)
    <2>1. run'[p] = Synced(Known(p, ledger)) /\ Keeps(run, run', p)
      BY ONLY Zenon, TypeOK, p \in Procs, <1>12, Types DEF Open, Keeps
    <2>2. Known(p, ledger) \in Records
      BY ONLY Zenon, TypeOK, p \in Procs, RecordTypes, Types DEF Open, Known, Restored, Records, Ledger, Live, Terminal, Outcomes
    <2>3. /\ run'[p].gen = Known(p, ledger).gen
          /\ Known(p, ledger).state # "none" => run'[p].state # "none"
      BY ONLY Zenon, <2>1, <2>2 DEF Synced, Records, Outcomes
    <2>4. /\ run'[p].state # "none" /\ run'[p].gen \in {0, run[p].gen}
          /\ run[p].state # "none" => SameGen(p)
      BY Zenon, <1>9, <1>10, <1>12, <2>3 DEF Open, SameGen
    <2> QED
      <3>1. \/ handler' = handler /\ handler[p].kind = "none"
            \/ handler'[p].kind = kind /\ handler'[p].pc = pc /\ Keeps(handler, handler', p)
        BY Zenon, <1>12 DEF Open, Idle
      <3>2. handler[p].kind = "none" /\ Keeps(handler, handler', p)
        BY Zenon, <1>12, <3>1 DEF Open, Idle, Keeps
      <3>3. UNCHANGED <<ledger, root, dispatched, lost, lock, worker>>
        BY ONLY Zenon, <1>12 DEF Open, history
      <3>4. Answers(p)
        BY Zenon, <2>4, <3>1, <3>2, <3>3 DEF Answers, SameGen
      <3>5. HandlerActs(p)
        BY Zenon, <2>1, <2>4, <3>1, <3>2, <3>3
      <3> QED
        BY Zenon, <3>4, <3>5
  <1>13. CASE Status(p) \/ Cancel(p)
    BY ONLY Zenon, <1>12, <1>13 DEF Status, Cancel
  <1>14. CASE Delete(p)
    <2>1. /\ handler[p].kind = "none" /\ lock = Free /\ root' = "deleted"
          /\ Answer(p, "delete", "ledger") /\ UNCHANGED <<ledger, lock, run, worker, dispatched, lost>>
      BY ONLY Zenon, <1>14 DEF Delete, Idle, history
    <2>2. /\ handler'[p].kind = "delete" /\ handler'[p].pc = "ledger"
          /\ handler[p].pc # "project" /\ Keeps(handler, handler', p)
          /\ Keeps(run, run', p) /\ Keeps(worker, worker', p) /\ SameGen(p)
      <3>1. handler'[p] = [kind |-> "delete", pc |-> "ledger"] /\ Keeps(handler, handler', p)
        BY ONLY Zenon, TypeOK, p \in Procs, <2>1, Types DEF Answer, Keeps
      <3>2. Keeps(run, run', p) /\ Keeps(worker, worker', p) /\ SameGen(p)
        BY ONLY Zenon, <1>e, <1>f, <2>1
      <3> QED
        BY ONLY <1>b, <2>1, <3>1, <3>2 DEF HandlerHolds
    <2>3. Buries(p)
      BY ONLY Zenon, <1>c, <2>1, <2>2 DEF Buries
    <2>4. HandlerActs(p)
      BY ONLY Zenon, <1>a, <1>b, <2>1, <2>2 DEF HandlerActs, Frame, WorkerHolds, HandlerHolds
    <2> QED
      BY Zenon, <2>3, <2>4
  <1>15. CASE Recover(p)
    <2>1. run'[p] = Known(p, ledger) /\ Keeps(run, run', p)
      BY ONLY Zenon, TypeOK, p \in Procs, <1>15, Types DEF Recover, Keeps
    <2>2. ledger.state # "none"
      BY ONLY Zenon, <1>15 DEF Recover, Reclaimable
    <2> QED
      <3>1. run'[p].state # "none" /\ run'[p].gen \in {0, run[p].gen}
        BY ONLY ZenonT(30), <1>9, <1>10, <2>1, <2>2
      <3>2. /\ worker'[p] = worker[p] \/ worker'[p].pc = "start"
            /\ worker[p].pc = "idle" /\ Keeps(worker, worker', p)
        BY Zenon, <1>15 DEF Recover
      <3>3. UNCHANGED <<ledger, root, dispatched, lost, lock, handler>> /\ handler[p].pc # "project"
        BY ONLY Zenon, <1>15 DEF Recover, Runs, history
      <3>4. Keeps(handler, handler', p)
        BY Zenon, <3>3 DEF Keeps
      <3>5. Answers(p)
        BY Zenon, <3>1, <3>2, <3>3 DEF Answers, SameGen
      <3>6. HandlerActs(p)
        BY Zenon, <2>1, <3>1, <3>2, <3>3, <3>4
      <3> QED
        BY Zenon, <3>5, <3>6
  <1>16. CASE Crash(p)
    <2>1. /\ run'[p] = NoRecord /\ Keeps(run, run', p)
          /\ worker'[p] = NoTask /\ Keeps(worker, worker', p)
          /\ handler'[p] = NoCall /\ Keeps(handler, handler', p)
      BY ONLY Zenon, TypeOK, p \in Procs, <1>16, Types DEF Crash, Keeps
    <2> QED
      <3>1. /\ run'[p].gen = 0 /\ worker'[p].pc = "idle"
            /\ handler'[p].kind = "none" /\ handler'[p].pc = "idle"
        BY ONLY <2>1 DEF NoRecord, NoTask, NoCall
      <3>2. Answers(p)
        BY ONLY Zenon, <1>16, <3>1 DEF Crash, Answers, Owns
      <3>3. HandlerActs(p)
        BY Zenon, <1>16, <2>1, <3>1 DEF Crash
      <3> QED
        BY Zenon, <2>1, <3>2, <3>3
  <1>17. CASE LockTimesOut(p)
    BY Zenon, <1>17 DEF LockTimesOut, Answers
  <1> QED
    BY Zenon, <1>1, <1>2, <1>3, <1>4, <1>5, <1>6, <1>7, <1>8, <1>11, <1>13, <1>14, <1>15, <1>16,
       <1>17
    DEF Respond, Request

-----------------------------------------------------------------------------
(* The invariants, turn by turn                                            *)

\* What the turns make of the fields of the ledger.
SameBut(L, M) == M.gen = L.gen /\ M.ops = L.ops /\ M.note = L.note

LEMMA LedgerTurns ==
    ASSUME TypeOK, NEW p \in Procs
    PROVE  /\ Claims(p) \/ Mislays(p) =>
                 /\ ledger'.state = "running" /\ ledger'.gen = ledger.gen + 1
                 /\ ledger'.lease = ledger.gen + 1 /\ ledger'.ops = ledger.ops
                 /\ ledger'.note = ledger.note
                 /\ ledger.state \in {"admitted", "running"} /\ ledger.lease = 0
           /\ Intends(p) \/ Receives(p) =>
                 /\ ledger'.state = ledger.state /\ ledger'.gen = ledger.gen
                 /\ ledger'.lease = ledger.lease /\ ledger'.note = ledger.note
                 /\ ledger'.error = ledger.error
           /\ Intends(p) => ledger'.ops = [ledger.ops EXCEPT ![worker[p].op] = "intent"]
           /\ Receives(p) => ledger'.ops = [ledger.ops EXCEPT ![worker[p].op] = "receipt"]
           /\ Projects(p) => /\ ledger'.state = "completed" /\ ledger'.lease = 0
                             /\ SameBut(ledger, ledger')
           /\ Concedes(p) => /\ ledger'.state = "failed" /\ ledger'.lease = 0
                             /\ ledger'.error = worker[p].error /\ SameBut(ledger, ledger')
           /\ Answers(p) => \/ ledger' = ledger
                            \/ /\ ledger.state = "none" /\ ledger'.state = "admitted"
                               /\ ledger'.lease = ledger.lease /\ SameBut(ledger, ledger')
           /\ Cancels(p) => \/ ledger' = ledger /\ ledger.state \in Terminal
                            \/ /\ ledger.state \notin Terminal /\ ledger'.state = "cancelled"
                               /\ ledger'.lease = 0 /\ SameBut(ledger, ledger')
           /\ Deletes(p) => \/ ledger' = ledger /\ ledger.state = "deleted"
                            \/ /\ ledger'.state = "deleted" /\ ledger'.lease = 0
                               /\ SameBut(ledger, ledger')
  <1>1. /\ ledger \in Ledger /\ worker[p].op \in Ops
        /\ worker[p].error \in {"none", "outcome_unknown", "research_run_failed"}
    BY Zenon, Types DEF Tasks
  <1>2. "completed" \in Terminal /\ "cancelled" \in Terminal /\ "deleted" \in Terminal
    BY Zenon DEF Terminal, Outcomes
  <1> USE <1>1, <1>2 DEF SameBut
  <1>3. ASSUME Claims(p) \/ Mislays(p)
        PROVE  /\ ledger'.state = "running" /\ ledger'.gen = ledger.gen + 1
               /\ ledger'.lease = ledger.gen + 1 /\ ledger'.ops = ledger.ops
               /\ ledger'.note = ledger.note
               /\ ledger.state \in {"admitted", "running"} /\ ledger.lease = 0
    BY Zenon, <1>3, ClaimScript DEF Claims, Mislays, Claimable
  <1>4. ASSUME Intends(p)
        PROVE  /\ ledger'.state = ledger.state /\ ledger'.gen = ledger.gen
               /\ ledger'.lease = ledger.lease /\ ledger'.note = ledger.note
               /\ ledger'.error = ledger.error
               /\ ledger'.ops = [ledger.ops EXCEPT ![worker[p].op] = "intent"]
    BY <1>4, StepScripts DEF Intends, Intended
  <1>5. ASSUME Receives(p)
        PROVE  /\ ledger'.state = ledger.state /\ ledger'.gen = ledger.gen
               /\ ledger'.lease = ledger.lease /\ ledger'.note = ledger.note
               /\ ledger'.error = ledger.error
               /\ ledger'.ops = [ledger.ops EXCEPT ![worker[p].op] = "receipt"]
    BY <1>5, StepScripts DEF Receives, Received
  <1>6. ASSUME Projects(p)
        PROVE  ledger'.state = "completed" /\ ledger'.lease = 0 /\ SameBut(ledger, ledger')
    BY Zenon, <1>6, EndScripts DEF Projects, Committed
  <1>7. ASSUME Concedes(p)
        PROVE  /\ ledger'.state = "failed" /\ ledger'.lease = 0
               /\ ledger'.error = worker[p].error /\ SameBut(ledger, ledger')
    BY Zenon, <1>7, FailScript DEF Concedes
  <1>8. ASSUME Answers(p), ledger' # ledger
        PROVE  /\ ledger.state = "none" /\ ledger'.state = "admitted"
               /\ ledger'.lease = ledger.lease /\ SameBut(ledger, ledger')
    BY SMTT(30), <1>8, AdmitScript DEF Answers
  <1>9. ASSUME Cancels(p)
        PROVE  \/ ledger' = ledger /\ ledger.state \in Terminal
               \/ /\ ledger.state \notin Terminal /\ ledger'.state = "cancelled"
                  /\ ledger'.lease = 0 /\ SameBut(ledger, ledger')
    BY Zenon, <1>9, EndScripts DEF Cancels, Cancelled
  <1>10. ASSUME Deletes(p)
         PROVE  \/ ledger' = ledger /\ ledger.state = "deleted"
                \/ /\ ledger'.state = "deleted" /\ ledger'.lease = 0
                   /\ SameBut(ledger, ledger')
    BY <1>10, EndScripts DEF Deletes, Deleted
  <1> QED
    BY ZenonT(30), <1>3, <1>4, <1>5, <1>6, <1>7, <1>8, <1>9, <1>10

\* Time, notifications and a lost lock leave everything else: the lease may lapse.
Elapses ==
    /\ UNCHANGED <<root, run, worker, handler, dispatched>>
    /\ UNCHANGED <<lock, lost>> \/ lost'
    /\ ledger'.state = ledger.state /\ ledger'.gen = ledger.gen /\ ledger'.ops = ledger.ops
    /\ ledger'.error = ledger.error /\ ledger'.lease \in {0, ledger.lease}

LEMMA GenerationsKept ==
    ASSUME TypeOK, TypeOK', Generations, NEW p \in Procs, Turns(p)
    PROVE  Generations'
  <1>1. /\ ledger.gen \in Nat /\ ledger.lease \in Nat
        /\ \A q \in Procs : run[q].gen \in Nat
    BY Zenon, Types DEF Ledger, Records
  <1>2. \A q \in Procs \ {p} : run'[q].gen = run[q].gen
    BY Zenon DEF Turns, Frame, Keeps
  <1>3. CASE Claims(p)
    <2>1. /\ ledger'.gen = ledger.gen + 1 /\ ledger'.lease = ledger.gen + 1
          /\ run'[p].gen = ledger.gen + 1
      BY Zenon, <1>3, LedgerTurns DEF Claims
    <2> QED
      BY SMTT(30), <1>1, <1>2, <2>1 DEF Generations
  <1>5. CASE Mislays(p)
    <2>1. /\ ledger'.gen = ledger.gen + 1 /\ ledger'.lease = ledger.gen + 1
          /\ run'[p].gen = run[p].gen
      BY Zenon, <1>5, LedgerTurns DEF Mislays, SameGen
    <2> QED
      BY SMTT(30), <1>1, <1>2, <2>1 DEF Generations
  <1>4. CASE ~Claims(p) /\ ~Mislays(p)
    <2>1. /\ ledger'.gen = ledger.gen /\ ledger'.lease \in {0, ledger.lease}
      BY Zenon, <1>4, LedgerTurns
      DEF Turns, SameBut, Walks, Dispatches, Beats, Roots, Settles, Decides, Buries
    <2>2. run'[p].gen \in {0, run[p].gen}
      BY Zenon, <1>4 DEF Turns, SameGen, Walks, Intends, Dispatches, Receives, Beats, Roots, Projects,
                  Settles, Decides, Concedes, Answers, Cancels, Buries, Deletes
    <2> QED
      BY <1>1, <1>2, <2>1, <2>2 DEF Generations
  <1> QED
    BY Zenon, <1>3, <1>4, <1>5

LEMMA CallsPendingKept ==
    ASSUME TypeOK, TypeOK', CallsPending, NEW p \in Procs, Turns(p)
    PROVE  CallsPending'
  <1>1. \A q \in Procs \ {p} : worker'[q] = worker[q]
    BY Zenon DEF Turns, Frame, Keeps
  <1>2. /\ worker[p].op \in Ops /\ \A q \in Procs : worker[q].op \in Ops
        /\ \A o \in Ops : dispatched[o] \in Nat
        /\ ledger.ops \in [Ops -> {"none", "intent", "receipt"}]
        /\ dispatched \in [Ops -> Nat]
    BY Zenon, Types DEF Tasks, Ledger
  <1>3. CASE Intends(p)
    <2>1. /\ ledger'.ops = [ledger.ops EXCEPT ![worker[p].op] = "intent"]
          /\ dispatched' = dispatched /\ ledger.ops[worker[p].op] = "none"
          /\ worker'[p].pc = "dispatch" /\ worker'[p].op = worker[p].op
      BY Zenon, <1>3, LedgerTurns DEF Intends
    <2> QED
      BY <1>1, <1>2, <2>1 DEF CallsPending
  <1>4. CASE Dispatches(p)
    <2>1. /\ ledger' = ledger /\ worker[p].pc = "dispatch" /\ worker'[p].pc = "calling"
          /\ dispatched' = [dispatched EXCEPT ![worker[p].op] = @ + 1]
      BY Zenon, <1>4 DEF Dispatches
    <2> QED
      BY SMTT(30), <1>1, <1>2, <2>1 DEF CallsPending
  <1>5. CASE Receives(p)
    <2>1. /\ ledger'.ops = [ledger.ops EXCEPT ![worker[p].op] = "receipt"]
          /\ dispatched' = dispatched /\ worker'[p].pc # "dispatch"
      BY Zenon, <1>5, LedgerTurns DEF Receives
    <2> QED
      BY <1>1, <1>2, <2>1 DEF CallsPending
  <1>6. CASE ~Intends(p) /\ ~Dispatches(p) /\ ~Receives(p)
    <2>1. ledger'.ops = ledger.ops /\ dispatched' = dispatched
      BY Zenon, <1>6, LedgerTurns
      DEF Turns, SameBut, Walks, Claims, Mislays, Beats, Roots, Projects, Settles, Decides,
          Concedes, Answers, Cancels, Buries, Deletes
    <2>2. worker'[p] = worker[p] \/ worker'[p].pc # "dispatch"
      BY Zenon, <1>6
      DEF Turns, Walks, Claims, Mislays, Beats, Roots, Projects, Settles, Decides, Concedes,
          Answers, Cancels, Buries, Deletes
    <2> QED
      BY <1>1, <1>2, <2>1, <2>2 DEF CallsPending
  <1> QED
    BY Zenon, <1>3, <1>4, <1>5, <1>6

\* At most one process owns the run, and a publisher that is about to commit is
\* the only one that may.
LEMMA OneOwner ==
    ASSUME Generations, NEW p \in Procs, NEW q \in Procs, Owns(ledger, run[p].gen)
    PROVE  /\ Owns(ledger, run[q].gen) => p = q
           /\ RootGuarded /\ ~lost /\ worker[q].pc = "commit" => p = q
  BY Zenon DEF Generations, Owns, RootGuarded

\* A root is never taken back, and a tombstone is final.
LEMMA RootTurns ==
    ASSUME NEW p \in Procs, Turns(p)
    PROVE  /\ root' = root \/ (Roots(p) /\ root # "deleted" /\ root' = "committed")
                \/ (Buries(p) /\ root' = "deleted")
  BY Zenon DEF Turns, Walks, Claims, Mislays, Intends, Dispatches, Receives, Beats, Roots, Projects, Settles,
         Decides, Concedes, Answers, Cancels, Buries, Deletes

LEMMA CommittedWinsKept ==
    ASSUME TypeOK, TypeOK', Generations, CommittedWins, RootGuarded, NEW p \in Procs, Turns(p)
    PROVE  CommittedWins'
  <1>1. root \in {"none", "committed", "deleted"} /\ lost' = lost
    BY Zenon, Types DEF Turns, Frame
  <1>2. CASE Roots(p)
    <2>1. /\ ~lost => ledger.state \in {"running", "deleted"}
          /\ ledger' = ledger /\ root' = "committed"
      BY Zenon, <1>2 DEF Roots, RootGuarded
    <2> QED
      BY Zenon, <1>1, <2>1 DEF CommittedWins
  <1>3. CASE Buries(p)
    BY Zenon, <1>1, <1>3 DEF Buries, CommittedWins
  <1>4. CASE Concedes(p)
    <2>1. Fails(p)
      BY Zenon, <1>4 DEF Concedes, Fails
    <2>2. lost \/ root # "committed"
      BY Zenon, <2>1 DEF RootGuarded
    <2>3. root' = root /\ ledger'.state = "failed"
      BY Zenon, <1>4, LedgerTurns DEF Concedes
    <2> QED
      BY Zenon, <1>1, <2>2, <2>3 DEF CommittedWins
  <1>5. CASE Projects(p)
    BY Zenon, <1>1, <1>5, LedgerTurns DEF Projects, CommittedWins
  <1>6. CASE Cancels(p)
    BY Zenon, <1>1, <1>6, LedgerTurns DEF Cancels, CommittedWins
  <1>7. CASE Answers(p)
    BY Zenon, <1>1, <1>7, LedgerTurns DEF Answers, CommittedWins
  <1>8. CASE Claims(p) \/ Mislays(p)
    BY Zenon, <1>1, <1>8, LedgerTurns DEF Claims, Mislays, CommittedWins
  <1>9. CASE Deletes(p)
    BY Zenon, <1>1, <1>9, LedgerTurns DEF Deletes, CommittedWins
  <1>10. CASE Walks(p) \/ Intends(p) \/ Dispatches(p) \/ Receives(p) \/ Beats(p) \/ Settles(p)
              \/ Decides(p)
    <2>1. ledger'.state = ledger.state /\ root' = root
      BY Zenon, <1>10, LedgerTurns
      DEF Walks, Intends, Dispatches, Receives, Beats, Settles, Decides
    <2> QED
      BY Zenon, <1>1, <2>1 DEF CommittedWins
  <1> QED
    BY Zenon, <1>2, <1>3, <1>4, <1>5, <1>6, <1>7, <1>8, <1>9, <1>10 DEF Turns

LEMMA CommitGuarded ==
    ASSUME TypeOK, TypeOK', LocksHeld, Generations, RootGuarded, NEW p \in Procs, Turns(p),
           NEW q \in Procs, ~lost, worker'[q].pc = "commit"
    PROVE  ledger'.state \in {"running", "deleted"} /\ ledger'.lease \in {0, run'[q].gen}
  <1>1. CASE Beats(p) /\ p = q
    BY Zenon, <1>1 DEF Beats, Owns, SameGen
  <1>2. CASE ~(Beats(p) /\ p = q)
    <2>1. /\ worker[q].pc = "commit" /\ run'[q].gen = run[q].gen
          /\ ~Claims(p) /\ ~Mislays(p) /\ ~Projects(p) /\ ~Cancels(p)
      <3>1. CASE q # p
        <4>1. worker'[q] = worker[q] /\ run'[q] = run[q]
          BY Zenon, <3>1 DEF Turns, Frame, Keeps
        <4> QED
          BY Zenon, <4>1 DEF Claims, Mislays, Projects, Cancels, NoCommit
      <3>2. CASE q = p
        <4>1. ~Claims(p) /\ ~Mislays(p) /\ ~Projects(p) /\ ~Cancels(p)
          BY Zenon, <3>2 DEF Claims, Mislays, Projects, Cancels, NoCommit
        <4>2. CASE Answers(p)
          BY ZenonT(30), <3>2, <4>1, <4>2 DEF Answers, SameGen
        <4>3. CASE Buries(p) \/ Deletes(p)
          BY Zenon, <3>2, <4>1, <4>3 DEF Buries, Deletes, SameGen
        <4> QED
          BY Zenon, <1>2, <3>2, <4>1, <4>2, <4>3
          DEF Turns, Walks, Intends, Dispatches, Receives, Roots, Settles, Decides, Concedes
      <3> QED
        BY Zenon, <3>1, <3>2
    <2>2. ledger.state \in {"running", "deleted"} /\ ledger.lease \in {0, run[q].gen}
      BY Zenon, <2>1 DEF RootGuarded
    <2>3. CASE Concedes(p)
      <3>1. p = q
        BY Zenon, <2>1, <2>3, OneOwner DEF Concedes
      <3> QED
        BY Zenon, <2>1, <2>3, <3>1 DEF Concedes
    <2>4. CASE Deletes(p) \/ Answers(p)
      BY Zenon, <2>1, <2>2, <2>4, LedgerTurns
    <2>5. CASE ~Concedes(p) /\ ~Deletes(p) /\ ~Answers(p)
      <3>1. ledger'.state = ledger.state /\ ledger'.lease = ledger.lease
        BY Zenon, <2>1, <2>5, LedgerTurns
        DEF Turns, Walks, Dispatches, Beats, Roots, Settles, Decides, Buries
      <3> QED
        BY Zenon, <2>1, <2>2, <3>1
    <2> QED
      BY Zenon, <2>3, <2>4, <2>5
  <1> QED
    BY Zenon, <1>1, <1>2

\* Who fails the run after a turn was failing it before, unless the turn is the
\* one in which it found no root.
LEMMA FailsTurns ==
    ASSUME TypeOK, TypeOK', Generations, NEW p \in Procs, Turns(p), NEW q \in Procs, Fails(q)'
    PROVE  /\ Owns(ledger, run[q].gen)
           /\ Fails(q) \/ (Settles(p) /\ p = q)
           /\ ledger'.state = "running"
           /\ worker'[q] = worker[q] \/ (p = q /\ (Settles(p) \/ Decides(p)))
           /\ p = q => ~Roots(p) /\ ~Intends(p)
  <1>1. /\ worker'[q].pc \in {"fail", "record"} /\ handler'[q].pc # "project"
        /\ ledger'.state = "running" /\ ledger'.lease = run'[q].gen /\ run'[q].gen # 0
    BY Zenon DEF Fails, Owns
  <1>2. ~Projects(p) /\ ~Concedes(p) /\ ~Cancels(p) /\ ~Deletes(p)
    <2>1. ledger'.state # "running" \/ (ledger' = ledger /\ ledger.state \in Terminal)
            => ~(ledger'.state = "running")
      BY Zenon DEF Terminal, Outcomes
    <2>2. ASSUME Deletes(p) PROVE ledger'.state # "running"
      BY Zenon, <2>2, LedgerTurns
    <2> QED
      BY Zenon, <1>1, <2>1, <2>2, LedgerTurns
  <1>3. q # p => worker'[q] = worker[q] /\ run'[q] = run[q] /\ handler'[q] = handler[q]
    BY Zenon DEF Turns, Frame, Keeps
  <1>4. CASE Claims(p)
    <2>1. CASE p = q
      BY Zenon, <1>1, <1>4, <2>1 DEF Claims
    <2>2. CASE p # q
      <3>1. run[q].gen <= ledger.gen /\ run[q].gen = ledger.gen + 1 /\ ledger.gen \in Nat
        BY Zenon, <1>1, <1>3, <1>4, <2>2, LedgerTurns, Types DEF Generations, Ledger
      <3>2. run[q].gen \in Nat
        BY Zenon, Types DEF Records
      <3> QED
        BY <3>1, <3>2
    <2> QED
      BY Zenon, <2>1, <2>2
  <1>7. CASE Mislays(p)
    <2>1. run[q].gen <= ledger.gen /\ run[q].gen = ledger.gen + 1 /\ ledger.gen \in Nat
      BY Zenon, <1>1, <1>3, <1>7, LedgerTurns, Types DEF Generations, Ledger, Mislays, SameGen
    <2>2. run[q].gen \in Nat
      BY Zenon, Types DEF Records
    <2> QED
      BY <2>1, <2>2
  <1>5. CASE Answers(p)
    <2>1. ledger' = ledger
      BY Zenon, <1>1, <1>5, LedgerTurns
    <2>2. CASE p # q
      BY Zenon, <1>1, <1>3, <2>1, <2>2 DEF Fails, Owns
    <2>3. CASE p = q
      BY Zenon, <1>1, <1>5, <2>1, <2>3 DEF Answers, Fails, Owns, SameGen, Roots, Intends
    <2> QED
      BY Zenon, <2>2, <2>3
  <1>6. CASE ~Claims(p) /\ ~Mislays(p) /\ ~Answers(p)
    <2>1. ledger'.state = ledger.state /\ ledger'.lease = ledger.lease /\ SameGen(p)
      BY Zenon, <1>2, <1>6, LedgerTurns
      DEF Turns, Walks, Intends, Dispatches, Receives, Beats, Roots, Settles, Decides, Buries
    <2>2. CASE p # q
      BY Zenon, <1>1, <1>3, <2>1, <2>2 DEF Fails, Owns
    <2>3. CASE p = q
      <3>1. Owns(ledger, run[q].gen) /\ ledger'.state = "running"
        BY Zenon, <1>1, <2>1, <2>3 DEF Owns, SameGen
      <3>2. CASE Buries(p)
        BY Zenon, <1>1, <2>3, <3>1, <3>2 DEF Buries, Fails, Roots, Intends
      <3>3. CASE Decides(p)
        BY Zenon, <1>1, <2>3, <3>1, <3>3 DEF Decides, Fails, Roots, Intends
      <3>4. CASE Settles(p)
        BY Zenon, <1>1, <2>3, <3>1, <3>4 DEF Settles, Fails, Roots, Intends
      <3> QED
        BY Zenon, <1>1, <1>2, <1>6, <2>3, <3>2, <3>3, <3>4
        DEF Turns, Walks, Intends, Dispatches, Receives, Beats, Roots
    <2> QED
      BY <2>2, <2>3
  <1> QED
    BY Zenon, <1>4, <1>5, <1>6, <1>7

LEMMA RootGuardedKept ==
    ASSUME TypeOK, TypeOK', LocksHeld, Generations, CommittedWins, RootGuarded,
           NEW p \in Procs, Turns(p)
    PROVE  RootGuarded'
  <1>0. lost' = lost
    BY Zenon DEF Turns, Frame
  <1>1. \A q \in Procs : ~lost /\ worker'[q].pc = "commit" =>
          ledger'.state \in {"running", "deleted"} /\ ledger'.lease \in {0, run'[q].gen}
    BY Zenon, CommitGuarded
  <1>2. root # "none" => root' # "none"
    BY Zenon, RootTurns
  <1>3. ASSUME NEW q \in Procs, worker'[q].pc = "project" \/ handler'[q].pc = "project"
        PROVE  root' # "none"
    <2>1. CASE worker[q].pc = "project" \/ handler[q].pc = "project"
      BY Zenon, <1>2, <2>1 DEF RootGuarded
    <2>2. CASE worker[q].pc # "project" /\ handler[q].pc # "project"
      <3>1. p = q
        BY Zenon, <1>3, <2>2 DEF Turns, Frame, Keeps
      <3>2. CASE Roots(p)
        BY Zenon, <3>2 DEF Roots
      <3>3. CASE Claims(p)
        BY Zenon, <1>3, <2>2, <3>1, <3>3 DEF Claims
      <3>4. CASE Projects(p)
        BY Zenon, <3>4 DEF Projects
      <3>5. CASE Answers(p) \/ Cancels(p) \/ Buries(p) \/ Deletes(p)
        BY <1>3, <2>2, <3>1, <3>5 DEF Answers, Cancels, Buries, Deletes, NoCall
      <3> QED
        BY Zenon, <1>3, <2>2, <3>1, <3>2, <3>3, <3>4, <3>5
        DEF Turns, Walks, Mislays, Intends, Dispatches, Receives, Beats, Settles, Decides, Concedes
    <2> QED
      BY Zenon, <2>1, <2>2
  <1>4. ASSUME ~lost, root' = "committed", NEW q \in Procs, Fails(q)'
        PROVE  FALSE
    <2>1. /\ Fails(q) \/ (Settles(p) /\ p = q)
          /\ p = q => ~Roots(p)
      BY Zenon, <1>4, FailsTurns
    <2>2. CASE Roots(p)
      <3>1. p = q
        BY Zenon, <1>4, <2>2, FailsTurns, OneOwner DEF Roots
      <3> QED
        BY Zenon, <2>1, <2>2, <3>1
    <2>3. CASE ~Roots(p)
      <3>1. root = "committed"
        BY Zenon, <1>4, <2>3, RootTurns
      <3> QED
        BY Zenon, <1>4, <2>1, <3>1 DEF RootGuarded, Settles
    <2> QED
      BY Zenon, <2>2, <2>3
  <1>5. ASSUME ledger'.state = "deleted" \/ (\E q \in Procs : handler'[q].kind = "delete")
        PROVE  root' = "deleted"
    <2>1. CASE root = "deleted"
      BY Zenon, <2>1, RootTurns
    <2>2. CASE root # "deleted" /\ ~Buries(p)
      <3>1. ledger.state # "deleted" /\ \A q \in Procs : handler[q].kind # "delete"
        BY Zenon, <2>2 DEF RootGuarded
      <3>2. ~Deletes(p)
        BY Zenon, <3>1 DEF Deletes
      <3>3. ledger'.state # "deleted"
        BY Zenon, <2>2, <3>1, <3>2, LedgerTurns
        DEF Turns, Walks, Dispatches, Beats, Roots, Settles, Decides
      <3>4. handler'[p].kind # "delete"
        <4>1. CASE Claims(p) \/ Projects(p) \/ Answers(p) \/ Cancels(p)
          BY <3>1, <4>1 DEF Claims, Projects, Answers, Cancels, NoCall
        <4>2. CASE handler' = handler
          BY Zenon, <3>1, <4>2
        <4> QED
          BY Zenon, <2>2, <3>2, <4>1, <4>2
          DEF Turns, Walks, Mislays, Intends, Dispatches, Receives, Beats, Roots, Settles, Decides,
              Concedes
      <3> QED
        BY ZenonT(30), <1>5, <3>1, <3>3, <3>4 DEF Turns, Frame, Keeps
    <2>3. CASE Buries(p)
      BY ZenonT(30), <2>3 DEF Buries
    <2> QED
      BY Zenon, <2>1, <2>2, <2>3
  <1> QED
    BY Zenon, <1>0, <1>1, <1>3, <1>4, <1>5 DEF RootGuarded

LEMMA PendingReportedKept ==
    ASSUME TypeOK, TypeOK', Generations, PendingReported, NEW p \in Procs, Turns(p)
    PROVE  PendingReported'
  <1> SUFFICES ASSUME HasPendingDispatch(ledger')
               PROVE  /\ ledger'.state = "failed" => ledger'.error = "outcome_unknown"
                      /\ \A q \in Procs : worker'[q].pc = "record" /\ Fails(q)' =>
                           worker'[q].error = "outcome_unknown"
    BY Zenon DEF PendingReported
  <1>1. HasPendingDispatch(ledger) \/ Intends(p)
    <2>1. CASE Receives(p)
      <3>1. /\ ledger'.ops = [ledger.ops EXCEPT ![worker[p].op] = "receipt"]
            /\ ledger.ops \in [Ops -> {"none", "intent", "receipt"}]
        BY Zenon, <2>1, LedgerTurns, Types DEF Ledger
      <3> QED
        BY Zenon, <3>1 DEF HasPendingDispatch
    <2>2. CASE ~Receives(p) /\ ~Intends(p)
      <3>1. ledger'.ops = ledger.ops
        BY Zenon, <2>2, LedgerTurns
        DEF Turns, SameBut, Walks, Dispatches, Beats, Roots, Settles, Decides, Buries
      <3> QED
        BY Zenon, <3>1 DEF HasPendingDispatch
    <2> QED
      BY Zenon, <2>1, <2>2
  <1>2. ASSUME ledger'.state = "failed" PROVE ledger'.error = "outcome_unknown"
    <2>1. CASE Intends(p)
      BY Zenon, <1>2, <2>1, LedgerTurns DEF Intends, Owns
    <2>2. CASE Concedes(p)
      <3>1. worker[p].pc = "record" /\ Fails(p)
        BY Zenon, <2>2 DEF Concedes, Fails
      <3> QED
        BY Zenon, <1>1, <2>2, <3>1, LedgerTurns DEF PendingReported, Intends, Concedes
    <2>3. CASE ~Intends(p) /\ ~Concedes(p)
      <3>1. ledger.state = "failed" /\ ledger'.error = ledger.error
        BY Zenon, <1>2, <2>3, LedgerTurns
        DEF Turns, Walks, Dispatches, Beats, Roots, Settles, Decides, Buries
      <3> QED
        BY Zenon, <1>1, <2>3, <3>1 DEF PendingReported
    <2> QED
      BY Zenon, <2>1, <2>2, <2>3
  <1>3. ASSUME NEW q \in Procs, worker'[q].pc = "record", Fails(q)'
        PROVE  worker'[q].error = "outcome_unknown"
    <2>1. /\ p = q => ~Intends(p)
          /\ Fails(q) \/ (Settles(p) /\ p = q)
          /\ worker'[q] = worker[q] \/ (p = q /\ (Settles(p) \/ Decides(p)))
      BY Zenon, <1>3, FailsTurns
    <2>2. ~Intends(p)
      <3>1. Owns(ledger, run[q].gen)
        BY Zenon, <1>3, FailsTurns
      <3> QED
        BY Zenon, <2>1, <3>1, OneOwner DEF Intends
    <2>3. CASE p = q /\ Settles(p)
      BY Zenon, <1>3, <2>3 DEF Settles
    <2>4. CASE p = q /\ Decides(p)
      BY Zenon, <1>1, <2>2, <2>4 DEF Decides
    <2>5. CASE worker'[q] = worker[q] /\ Fails(q)
      BY Zenon, <1>1, <1>3, <2>2, <2>5 DEF PendingReported
    <2> QED
      BY Zenon, <2>1, <2>3, <2>4, <2>5
  <1> QED
    BY Zenon, <1>2, <1>3

-----------------------------------------------------------------------------
(* Callbacks                                                               *)

\* Claiming, sending and finishing a callback, and time.
LEMMA ElapseTurns ==
    ASSUME TypeOK,
           \/ \E p \in Procs : Notify(p)
           \/ LeaseLapses \/ WindowCloses \/ NoteComesDue \/ LockLost
    PROVE  Elapses
  <1>1. ledger \in Ledger /\ ledger.lease \in Nat
    BY Zenon, Types DEF Ledger
  <1>2. ASSUME NEW p \in Procs, ClaimNote(p) PROVE Elapses
    <2>1. NoteOnly(ledger, ledger')
      BY Zenon, <1>1, <1>2, NoteClaimScript DEF ClaimNote
    <2> QED
      BY Zenon, <1>2, <2>1 DEF ClaimNote, Elapses, NoteOnly, history
  <1>3. ASSUME NEW p \in Procs, SendNote(p) PROVE Elapses
    BY Zenon, <1>3 DEF SendNote, Elapses
  <1>4. ASSUME NEW p \in Procs, FinishNote(p) PROVE Elapses
    <2>1. sender[p].outcome \in {"none", "delivered", "rejected", "retry"}
      BY Zenon, Types DEF Sends
    <2>2. NoteOnly(ledger, ledger')
      BY Zenon, <1>1, <1>4, <2>1, NoteFinishScript DEF FinishNote
    <2> QED
      BY Zenon, <1>4, <2>2 DEF FinishNote, Elapses, NoteOnly, history
  <1>5. CASE LeaseLapses
    BY Zenon, <1>1, <1>5, LapseScripts DEF LeaseLapses, Elapses, local
  <1>6. CASE WindowCloses
    BY Zenon, <1>1, <1>6, LapseScripts DEF WindowCloses, Elapses, local, history
  <1>7. CASE NoteComesDue
    BY Zenon, <1>1, <1>7, DueScript DEF NoteComesDue, Elapses, NoteOnly, local
  <1>8. CASE LockLost
    BY Zenon, <1>8 DEF LockLost, Elapses, local
  <1> QED
    BY Zenon, <1>2, <1>3, <1>4, <1>5, <1>6, <1>7, <1>8 DEF Notify

LEMMA ElapseKeeps ==
    ASSUME IInv, TypeOK', Elapses
    PROVE  /\ LocksHeld' /\ RunKnown' /\ Generations' /\ CallsPending'
           /\ CommittedWins' /\ RootGuarded' /\ PendingReported'
  <1>0. /\ ~lost' => lock' = lock /\ ~lost
        /\ UNCHANGED <<root, run, worker, handler, dispatched>>
        /\ ledger'.state = ledger.state /\ ledger'.gen = ledger.gen /\ ledger'.ops = ledger.ops
        /\ ledger'.error = ledger.error /\ ledger'.lease \in {0, ledger.lease}
    BY DEF Elapses
  <1> USE DEF IInv
  <1>1. LocksHeld' /\ RunKnown'
    BY Zenon, <1>0 DEF LocksHeld, RunKnown
  <1>2. Generations'
    <2>1. ledger.lease \in Nat /\ ledger.gen \in Nat
      BY Zenon, Types DEF Ledger
    <2> QED
      BY <1>0, <2>1 DEF Generations
  <1>3. CallsPending' /\ CommittedWins'
    <2>1. CallsPending'
      BY Zenon, <1>0 DEF CallsPending
    <2>2. CommittedWins'
      BY Zenon, <1>0 DEF CommittedWins
    <2> QED
      BY Zenon, <2>1, <2>2
  <1>4. \A q \in Procs : Fails(q)' => Fails(q)
    BY Zenon, <1>0 DEF Fails, Owns
  <1>5. RootGuarded'
    <2>1. \A p \in Procs : ~lost' /\ worker'[p].pc = "commit" =>
            ledger'.state \in {"running", "deleted"} /\ ledger'.lease \in {0, run'[p].gen}
      BY Zenon, <1>0 DEF RootGuarded
    <2>2. ~lost' /\ root' = "committed" => \A p \in Procs : ~Fails(p)'
      BY Zenon, <1>0, <1>4 DEF RootGuarded
    <2>3. /\ \A p \in Procs : worker'[p].pc = "project" \/ handler'[p].pc = "project"
                => root' # "none"
          /\ ledger'.state = "deleted" \/ (\E p \in Procs : handler'[p].kind = "delete")
                => root' = "deleted"
      BY Zenon, <1>0 DEF RootGuarded
    <2> QED
      BY Zenon, <2>1, <2>2, <2>3 DEF RootGuarded
  <1>6. PendingReported'
    BY Zenon, <1>0, <1>4 DEF PendingReported, HasPendingDispatch
  <1> QED
    BY Zenon, <1>1, <1>2, <1>3, <1>5, <1>6

\* An outcome changes only into a tombstone, and nothing follows that.
LEMMA OutcomeTurns ==
    ASSUME TypeOK, NEW p \in Procs, Turns(p)
    PROVE  /\ ledger'.note = ledger.note
           /\ ledger.state \in Outcomes => ledger'.state \in {ledger.state, "deleted"}
           /\ ledger.state = "deleted" => ledger'.state = "deleted" /\ ledger'.ops = ledger.ops
  <1>1. ASSUME ledger.state \in Terminal
        PROVE  /\ ~Claims(p) /\ ~Mislays(p) /\ ~Intends(p) /\ ~Receives(p)
               /\ ~Projects(p) /\ ~Concedes(p)
    BY Zenon, <1>1, LedgerTurns DEF Intends, Receives, Projects, Concedes, Owns, Terminal, Outcomes
  <1>2. ledger'.note = ledger.note
    BY Zenon, LedgerTurns
    DEF Turns, SameBut, Walks, Dispatches, Beats, Roots, Settles, Decides, Buries
  <1>3. ASSUME ledger.state \in Terminal
        PROVE  \/ ledger'.state = ledger.state /\ ledger'.ops = ledger.ops
               \/ ledger'.state = "deleted" /\ ledger'.ops = ledger.ops
    BY Zenon, <1>1, <1>3, LedgerTurns
    DEF Turns, SameBut, Walks, Dispatches, Beats, Roots, Settles, Decides, Buries, Terminal,
        Outcomes
  <1> QED
    BY Zenon, <1>2, <1>3 DEF Terminal

\* Cardinalities enter the proofs here.
INSTANCE FiniteSetTheorems

LEMMA CallbacksKept ==
    ASSUME TypeOK, CallbacksCounted, NEW p \in Procs, Turns(p),
           IsFiniteSet(Sending'), sent' = sent, Cardinality(Sending') <= Cardinality(Sending)
    PROVE  CallbacksCounted'
  <1>1. ledger'.note = ledger.note /\ ledger.note.attempts \in Nat
    BY OutcomeTurns, Types, LedgerConstants DEF Ledger
  <1>2. Cardinality(Sending) \in Nat /\ Cardinality(Sending') \in Nat /\ sent \in Nat
    BY Zenon, FS_CardinalityType, Types DEF CallbacksCounted
  <1>3. sent' + Cardinality(Sending') <= ledger'.note.attempts
    BY <1>1, <1>2 DEF CallbacksCounted
  <1>4. ASSUME ledger.note.event # "none"
        PROVE  ledger'.state \in {ledger.note.event, "deleted"} /\ ledger'.state \in Terminal
    BY Zenon, <1>4, OutcomeTurns DEF CallbacksCounted, Terminal
  <1> QED
    BY Zenon, <1>1, <1>3, <1>4 DEF CallbacksCounted

LEMMA CallbacksNotified ==
    ASSUME TypeOK, CallbacksCounted, NEW p \in Procs, Notify(p)
    PROVE  CallbacksCounted'
  <1>1. /\ ledger \in Ledger /\ sender \in [Procs -> Sends] /\ sent \in Nat
        /\ ledger.note.attempts \in Nat /\ IsFiniteSet(Sending) /\ Cardinality(Sending) \in Nat
        /\ sender[p].outcome \in {"none", "delivered", "rejected", "retry"}
    BY FS_CardinalityType, Types, LedgerConstants DEF CallbacksCounted, Ledger, Sends
  <1>2. CASE ClaimNote(p)
    <2>1. /\ ledger'.state = ledger.state /\ ledger' = NoteClaimed(ledger) /\ sent' = sent
          /\ ledger.state = "deleted" \/ NoteReady(ledger)
      BY Zenon, <1>1, <1>2, NoteClaimScript DEF ClaimNote, NoteOnly, history
    <2>2. CASE ledger.state = "deleted" \/ NoteExhausted(ledger)
      <3>1. /\ ledger'.note.event = ledger.note.event
            /\ ledger'.note.attempts = ledger.note.attempts
        BY <1>1, <2>1, <2>2, NoteClaimScript
      <3>2. Sending' = Sending
        BY Zenon, <1>2, <2>2 DEF ClaimNote, Sending
      <3> QED
        BY Zenon, <2>1, <3>1, <3>2 DEF CallbacksCounted
    <2>3. CASE ~(ledger.state = "deleted" \/ NoteExhausted(ledger))
      <3>1. /\ ledger'.note.event =
                 IF ledger.note.event = "none" THEN ledger.state ELSE ledger.note.event
            /\ ledger'.note.attempts = ledger.note.attempts + 1
            /\ ledger.state \in Outcomes
        BY <1>1, <2>1, <2>3, NoteClaimScript
      <3>2. Sending' = Sending \cup {p} /\ p \notin Sending
        <4> DEFINE o == ledger'.note.owner
        <4>1. sender' = [sender EXCEPT ![p].pc = "send", ![p].owner = o] /\ sender[p].pc = "idle"
          BY <1>2, <2>3, Zenon DEF ClaimNote
        <4> HIDE DEF o
        <4> QED
          BY Zenon, <1>1, <4>1 DEF Sending, Sends
      <3>3. IsFiniteSet(Sending') /\ Cardinality(Sending') = Cardinality(Sending) + 1
        BY <1>1, <3>2, FS_AddElement
      <3>4. sent' + Cardinality(Sending') <= ledger'.note.attempts
        BY <1>1, <2>1, <3>1, <3>3 DEF CallbacksCounted
      <3> QED
        BY <2>1, <3>1, <3>3, <3>4 DEF CallbacksCounted, Terminal
    <2> QED
      BY Zenon, <2>2, <2>3
  <1>3. CASE SendNote(p)
    <2>1. Sending' = Sending \ {p} /\ p \in Sending
      <3>1. PICK outcome \in {"delivered", "rejected", "retry"} :
              sender' = [sender EXCEPT ![p].pc = "finish", ![p].outcome = outcome]
        BY <1>3, Zenon DEF SendNote
      <3>2. sender[p].pc = "send"
        BY Zenon, <1>3 DEF SendNote
      <3> QED
        BY Zenon, <1>1, <3>1, <3>2 DEF Sending, Sends
    <2>2. IsFiniteSet(Sending') /\ Cardinality(Sending') = Cardinality(Sending) - 1
      BY Zenon, <1>1, <2>1, FS_RemoveElement
    <2>3. sent' = sent + 1 /\ ledger' = ledger
      BY Zenon, <1>3 DEF SendNote
    <2> QED
      BY <1>1, <2>2, <2>3 DEF CallbacksCounted
  <1>4. CASE FinishNote(p)
    <2>1. /\ ledger'.state = ledger.state /\ ledger'.note.event = ledger.note.event
          /\ ledger'.note.attempts = ledger.note.attempts /\ sent' = sent
      BY Zenon, <1>1, <1>4, NoteFinishScript DEF FinishNote, NoteOnly, history
    <2>2. Sending' = Sending
      BY Zenon, <1>1, <1>4 DEF FinishNote, Sending, NoSend
    <2> QED
      BY Zenon, <2>1, <2>2 DEF CallbacksCounted
  <1> QED
    BY <1>2, <1>3, <1>4 DEF Notify

LEMMA CallbacksTimed ==
    ASSUME TypeOK, CallbacksCounted, LeaseLapses \/ WindowCloses \/ NoteComesDue \/ LockLost
    PROVE  CallbacksCounted'
  <1>1. ledger \in Ledger
    BY Zenon, Types
  <1>2. /\ ledger'.state = ledger.state /\ ledger'.note.event = ledger.note.event
        /\ ledger'.note.attempts = ledger.note.attempts
    BY <1>1, LapseScripts, DueScript DEF LeaseLapses, WindowCloses, NoteComesDue, LockLost, NoteOnly
  <1>3. sent' = sent /\ sender' = sender
    BY Zenon DEF LeaseLapses, WindowCloses, NoteComesDue, LockLost, local, history
  <1> QED
    BY Zenon, <1>2, <1>3 DEF CallbacksCounted, Sending

-----------------------------------------------------------------------------
(* The theorems                                                            *)

LEMMA Initially == Init => IInv
  <1> SUFFICES ASSUME Init PROVE IInv
    BY Zenon
  <1>1. TypeOK
    <2>1. 1 \in Ops /\ 0 \in 0..MaxNoteTries /\ 0 \in 0..MaxFaults
      BY LedgerConstants, ResearchConstants DEF Ops
    <2>2. NoRun \in Ledger
      BY Zenon, <2>1 DEF NoRun, Ledger
    <2>3. NoRecord \in Records /\ NoTask \in Tasks /\ NoCall \in Calls /\ NoSend \in Sends
      BY Zenon, <2>1 DEF NoRecord, Records, NoTask, Tasks, NoCall, Calls, NoSend, Sends
    <2> QED
      BY <2>1, <2>2, <2>3, Types DEF Init, Locks, Holders
  <1>2. /\ \A p \in Procs : worker[p].pc = "idle" /\ handler[p].pc = "idle"
                            /\ handler[p].kind = "none" /\ run[p].gen = 0
        /\ ledger.state = "none" /\ ledger.gen = 0 /\ ledger.lease = 0
        /\ ledger.note.attempts = 0 /\ ledger.note.event = "none"
        /\ \A o \in Ops : ledger.ops[o] = "none" /\ dispatched[o] = 0
    BY Zenon DEF Init, NoTask, NoCall, NoRecord, NoRun
  <1>3. Sending = {}
    BY Zenon DEF Init, NoSend, Sending
  <1>4. CallbacksCounted
    BY <1>2, <1>3, FS_EmptySet DEF CallbacksCounted, Init
  <1>5. LocksHeld /\ RunKnown /\ Generations /\ CallsPending
    BY <1>2 DEF LocksHeld, RunKnown, Generations, CallsPending, WorkerHolds, HandlerHolds
  <1>6. CommittedWins /\ RootGuarded /\ PendingReported
    BY Zenon, <1>2 DEF CommittedWins, RootGuarded, PendingReported, Fails, HasPendingDispatch, Init
  <1> QED
    BY Zenon, <1>1, <1>4, <1>5, <1>6 DEF IInv

LEMMA TurnsKeep ==
    ASSUME IInv, TypeOK', NEW p \in Procs, Turns(p), WorkerActs(p) \/ HandlerActs(p)
    PROVE  /\ LocksHeld' /\ RunKnown' /\ Generations' /\ CallsPending'
           /\ CommittedWins' /\ RootGuarded' /\ PendingReported'
  BY ActsHold, GenerationsKept, CallsPendingKept, CommittedWinsKept, RootGuardedKept,
     PendingReportedKept
  DEF IInv

\* The inductive invariant is inductive: one step per group of actions.
LEMMA Inductive == IInv /\ [Next]_vars => IInv'
  <1> SUFFICES ASSUME IInv, [Next]_vars PROVE IInv'
    BY Zenon
  <1>0. /\ TypeOK /\ LocksHeld /\ RunKnown /\ RootGuarded /\ CallbacksCounted
        /\ IsFiniteSet(Sending) /\ Cardinality(Sending) \in Nat
    BY Zenon, FS_CardinalityType DEF IInv, CallbacksCounted
  <1>1. ASSUME NEW p \in Procs, Execute(p) \/ WorkerFault(p) PROVE IInv'
    <2>1. TypeOK' /\ Turns(p) /\ WorkerActs(p) /\ UNCHANGED <<sender, sent>>
      BY <1>0, <1>1, TypeWorker, WorkerTurns, WorkerLocks
    <2>2. Sending' = Sending
      BY Zenon, <2>1 DEF Sending
    <2>3. CallbacksCounted'
      BY <1>0, <2>1, <2>2, CallbacksKept
    <2> QED
      BY Zenon, <2>1, <2>3, TurnsKeep DEF IInv
  <1>2. ASSUME NEW p \in Procs,
               Respond(p) \/ Request(p) \/ Recover(p) \/ Crash(p) \/ LockTimesOut(p)
        PROVE  IInv'
    <2>1. TypeOK' /\ Turns(p) /\ HandlerActs(p)
      BY <1>0, <1>2, TypeRequests, HandlerTurns
    <2>2. /\ IsFiniteSet(Sending') /\ Cardinality(Sending') <= Cardinality(Sending)
          /\ sent' = sent
      <3>1. CASE Crash(p)
        <4>1. sender \in [Procs -> Sends] /\ sender' = [sender EXCEPT ![p] = NoSend]
          BY <1>0, <3>1, Types DEF Crash
        <4>2. Sending' = Sending \ {p}
          BY Zenon, <4>1 DEF Sending, NoSend
        <4>3. /\ IsFiniteSet(Sending \ {p})
              /\ Cardinality(Sending \ {p}) =
                   IF p \in Sending THEN Cardinality(Sending) - 1 ELSE Cardinality(Sending)
          BY Zenon, <1>0, FS_RemoveElement
        <4> QED
          BY <1>0, <3>1, <4>2, <4>3 DEF Crash
      <3>2. CASE Respond(p) \/ Request(p) \/ Recover(p) \/ LockTimesOut(p)
        <4>1. sender' = sender /\ sent' = sent
          BY Zenon, <3>2
          DEF Respond, Request, Recover, AdmitStart, StatusLock, Reconcile, ReconcileProject,
              CancelRecordLock, CancelLock, CancelDecide, DeleteLedger, Admit, Status, Cancel,
              Open, Delete, LockTimesOut, history
        <4> QED
          BY <1>0, <4>1 DEF Sending
      <3> QED
        BY <1>2, <3>1, <3>2
    <2>3. CallbacksCounted'
      BY <1>0, <2>1, <2>2, CallbacksKept
    <2> QED
      BY Zenon, <2>1, <2>3, TurnsKeep DEF IInv
  <1>3. ASSUME NEW p \in Procs, Notify(p) PROVE IInv'
    <2>1. TypeOK' /\ CallbacksCounted' /\ Elapses
      BY <1>0, <1>3, TypeRequests, CallbacksNotified, ElapseTurns
    <2> QED
      BY Zenon, <2>1, ElapseKeeps DEF IInv
  <1>4. CASE LeaseLapses \/ WindowCloses \/ NoteComesDue \/ LockLost
    <2>1. TypeOK' /\ CallbacksCounted' /\ Elapses
      BY <1>0, <1>4, TypeTime, CallbacksTimed, ElapseTurns
    <2> QED
      BY Zenon, <2>1, ElapseKeeps DEF IInv
  <1>5. CASE UNCHANGED vars
    <2>1. Elapses
      BY Zenon, <1>5 DEF vars, local, history, Elapses
    <2>2. TypeOK'
      BY <1>0, <1>5, Types, TypesNext DEF vars, local, history
    <2>3. CallbacksCounted'
      BY Zenon, <1>0, <1>5 DEF vars, local, history, CallbacksCounted, Sending
    <2> QED
      BY <2>1, <2>2, <2>3, ElapseKeeps DEF IInv
  <1> QED
    BY <1>1, <1>2, <1>3, <1>4, <1>5 DEF Next

LEMMA Invariance == Spec => []IInv
  BY Initially, Inductive, PTL DEF Spec

\* live_runner.effect: whatever crashes, lapsed leases and recoveries come
\* between an intent and its receipt, no paid operation is dispatched twice.
THEOREM ResearchDispatchedOnce == Spec => []DispatchedOnce
  <1>1. IInv => DispatchedOnce
    BY Zenon DEF IInv, CallsPending, DispatchedOnce
  <1> QED
    BY <1>1, Invariance, PTL

\* _publish_run against cancellation, failure and reconciliation: as long as
\* PostgreSQL ended no session that held the execution lock, a root committed there
\* is never contradicted by the ledger; and with or without such a loss the ledger
\* says completed only of a root that was committed.
THEOREM ResearchCommittedWins == Spec => []CommittedWins
  <1>1. IInv => CommittedWins
    BY Zenon DEF IInv
  <1> QED
    BY <1>1, Invariance, PTL

\* _execute_run's exception handler: a run that fails with an intent and no
\* receipt says outcome_unknown.
THEOREM ResearchAmbiguityReported == Spec => []AmbiguityReported
  <1>1. IInv => AmbiguityReported
    BY Zenon DEF IInv, PendingReported, AmbiguityReported, HasPendingDispatch
  <1> QED
    BY <1>1, Invariance, PTL

\* deliver_notifications: at most MaxNoteTries callbacks are sent, each about the
\* outcome that the ledger keeps.
THEOREM ResearchCallbacksFaithful == Spec => []CallbacksFaithful
  <1>1. IInv => CallbacksFaithful
    <2> SUFFICES ASSUME IInv PROVE CallbacksFaithful
      BY Zenon
    <2>1. TypeOK /\ CallbacksCounted
      BY Zenon DEF IInv
    <2>2. /\ ledger.note.attempts \in 0..MaxNoteTries /\ sent \in Nat
          /\ Cardinality(Sending) \in Nat /\ MaxNoteTries \in Nat
      BY <2>1, Types, FS_CardinalityType, LedgerConstants DEF Ledger, CallbacksCounted
    <2>3. sent <= MaxNoteTries
      BY <2>1, <2>2 DEF CallbacksCounted
    <2> QED
      BY Zenon, <2>1, <2>3 DEF CallbacksFaithful, CallbacksCounted
  <1> QED
    BY <1>1, Invariance, PTL

\* The scripts of the ledger: an outcome is final but for deletion; after deletion
\* nothing is begun, published or announced.
THEOREM ResearchOutcomeIsFinal == Spec => OutcomeIsFinal
  <1> DEFINE Final == /\ ledger.state \in Outcomes => ledger'.state \in {ledger.state, "deleted"}
                      /\ ledger.state = "deleted" =>
                           /\ ledger'.state = "deleted"
                           /\ ledger'.ops = ledger.ops
                           /\ ledger'.note.attempts = ledger.note.attempts
                           /\ root' = root
  <1>1. IInv /\ [Next]_vars => [Final]_vars
    <2> SUFFICES ASSUME IInv, Next PROVE Final
      BY Zenon DEF vars
    <2>1. TypeOK /\ ledger \in Ledger
      BY Zenon, Types DEF IInv
    <2>2. ASSUME NEW p \in Procs, Turns(p) PROVE Final
      <3>1. ledger.state = "deleted" => root' = root
        <4>1. ledger.state = "deleted" => root = "deleted"
          BY Zenon DEF IInv, RootGuarded
        <4> QED
          BY Zenon, <2>2, <4>1, RootTurns
      <3> QED
        BY <2>1, <2>2, <3>1, OutcomeTurns
    <2>3. ASSUME \/ \E p \in Procs : Notify(p)
                 \/ LeaseLapses \/ WindowCloses \/ NoteComesDue \/ LockLost
          PROVE  Final
      <3>1. Elapses
        BY Zenon, <2>1, <2>3, ElapseTurns
      <3>2. ledger.state = "deleted" => ledger'.note.attempts = ledger.note.attempts
        <4>1. ASSUME ledger.state = "deleted", NEW p \in Procs, Notify(p)
              PROVE  ledger'.note.attempts = ledger.note.attempts
          <5>1. sender[p].outcome \in {"none", "delivered", "rejected", "retry"}
            BY Zenon, <2>1, Types DEF Sends
          <5> QED
            BY <2>1, <4>1, <5>1, NoteClaimScript, NoteFinishScript
            DEF Notify, ClaimNote, SendNote, FinishNote
        <4>2. ASSUME LeaseLapses \/ WindowCloses \/ NoteComesDue \/ LockLost
              PROVE  ledger'.note.attempts = ledger.note.attempts
          BY <2>1, <4>2, LapseScripts, DueScript DEF LeaseLapses, WindowCloses, NoteComesDue, LockLost
        <4> QED
          BY Zenon, <2>3, <4>1, <4>2
      <3> QED
        BY Zenon, <3>1, <3>2 DEF Elapses
    <2>4. \/ \E p \in Procs : Turns(p)
          \/ \E p \in Procs : Notify(p)
          \/ LeaseLapses \/ WindowCloses \/ NoteComesDue \/ LockLost
      <3>1. ASSUME NEW p \in Procs, Execute(p) \/ WorkerFault(p) PROVE Turns(p)
        BY Zenon, <3>1, WorkerTurns DEF IInv
      <3>2. ASSUME NEW p \in Procs,
                   Respond(p) \/ Request(p) \/ Recover(p) \/ Crash(p) \/ LockTimesOut(p)
            PROVE  Turns(p)
        BY Zenon, <3>2, HandlerTurns DEF IInv
      <3> QED
        BY Zenon, <3>1, <3>2 DEF Next
    <2> QED
      BY Zenon, <2>2, <2>3, <2>4
  <1> QED
    BY <1>1, Invariance, PTL DEF Spec, OutcomeIsFinal
=============================================================================
