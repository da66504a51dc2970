------------------------------ MODULE Admission ------------------------------
(***************************************************************************)
(* common/admission.py: the in-process weighted admission controller.      *)
(*                                                                         *)
(* One resource class is modelled: the controller keeps a separate budget, *)
(* counter and queue per class and no method touches two of them.          *)
(*                                                                         *)
(* The controller runs on one asyncio event loop.  A synchronous stretch   *)
(* of code is one action; every `await` is a boundary.  The one await in   *)
(* acquire() is on the waiter's future, so a queued caller goes through    *)
(*                                                                         *)
(*   waiting    its future is pending                                      *)
(*   granted    _drain resolved the future; the task has not resumed yet   *)
(*   withdrawn  the future was cancelled; the handler has not run yet      *)
(*   revoked    granted, and then cancelled before the task resumed (the   *)
(*              future keeps its result)                                   *)
(*                                                                         *)
(* No caller in the repository passes the optional timeout, so that its    *)
(* handler is not modelled.                                                *)
(***************************************************************************)
EXTENDS Integers, Sequences, FiniteSets, FiniteSetsExt

CONSTANTS
    Callers,        \* the tasks that use the controller
    Weight,         \* Weight[c]: the units a call of c asks for
    Limit,          \* budget of the class; 0 means unlimited
    QueueCapacity,  \* bound on queued waiters
    Cancellable     \* callers whose task may be cancelled while it waits

ASSUME AdmissionAssumption ==
    /\ IsFiniteSet(Callers)
    /\ Weight \in [Callers -> Nat \ {0}]
    /\ Limit \in Nat
    /\ QueueCapacity \in Nat
    /\ Cancellable \subseteq Callers

VARIABLES
    active,     \* self._active[class]
    queue,      \* self._queues[class], as the callers that wait in it
    task        \* where each caller's task stands

vars == <<active, queue, task>>

TaskStates == {"idle", "waiting", "granted", "withdrawn", "revoked", "holding"}

\* Type correctness.  The counter stays a natural number: no cancellation
\* refunds units that were not taken (admission.py, acquire and release).
TypeOK ==
    /\ active \in Nat
    /\ queue \in Seq(Callers)
    /\ task \in [Callers -> TaskStates]

Init ==
    /\ active = 0
    /\ queue = << >>
    /\ task = [c \in Callers |-> "idle"]

-----------------------------------------------------------------------------
(* _drain: pop waiters from the front while the front one is already done  *)
(* or fits; grant the ones that were still pending.                        *)

Pending(c) == task[c] = "waiting"

\* The weight of a set of callers, counted unit by unit.
Units(S) == UNION {{c} \X (1 .. Weight[c]) : c \in S}

WeightOf(S) == Cardinality(Units(S))

\* The pending waiters among the first k of the queue, and their weight (a
\* caller waits for one future at a time, so it is in the queue at most once).
PendingUpTo(k) == {queue[i] : i \in {j \in 1 .. k : Pending(queue[j])}}

PendingWeight(k) == WeightOf(PendingUpTo(k))

\* Mutant: a waiter that is already done is left at the front.
DrainedStopsAtDone(used) ==
    Max({k \in 0 .. Len(queue) :
            \A j \in 1 .. k : /\ Pending(queue[j])
                              /\ used + PendingWeight(j) <= Limit})

\* How many waiters _drain pops when the class has `used` units in use.
Drained(used) ==
    Max({k \in 0 .. Len(queue) :
            \A j \in 1 .. k : \/ ~Pending(queue[j])
                              \/ used + PendingWeight(j) <= Limit})

\* release() followed by _drain(); `self` leaves the state it was in.
ReleaseAndDrain(self, used) ==
    LET k == Drained(used) IN
    /\ active' = used + PendingWeight(k)
    /\ queue' = SubSeq(queue, k + 1, Len(queue))
    /\ task' = [c \in Callers |->
                  IF c = self THEN "idle"
                  ELSE IF c \in PendingUpTo(k) THEN "granted" ELSE task[c]]

\* _drop_waiter: the queue without the waiter of c, if it is still in it.
DropWaiter(c) ==
    LET places == {i \in 1 .. Len(queue) : queue[i] = c} IN
    IF places = {} THEN queue
    ELSE LET i == Min(places)
         IN  SubSeq(queue, 1, i - 1) \o SubSeq(queue, i + 1, Len(queue))

-----------------------------------------------------------------------------
(* Mutations of the actions below. *)

AcquireFastNoQueueCheck(c) ==
    /\ task[c] = "idle"
    /\ Limit = 0 \/ active + Weight[c] <= Limit
    /\ active' = active + Weight[c]
    /\ task' = [task EXCEPT ![c] = "holding"]
    /\ UNCHANGED queue

AcquireFastStrict(c) ==
    /\ task[c] = "idle"
    /\ Limit = 0 \/ (queue = << >> /\ active <= Limit)
    /\ active' = active + Weight[c]
    /\ task' = [task EXCEPT ![c] = "holding"]
    /\ UNCHANGED queue

HandleCancelledNoRefund(c) ==
    /\ task[c] \in {"withdrawn", "revoked"}
    /\ queue' = DropWaiter(c)
    /\ task' = [task EXCEPT ![c] = "idle"]
    /\ UNCHANGED active

-----------------------------------------------------------------------------
(* acquire() up to its await. *)

AcquireFast(c) ==
    /\ task[c] = "idle"
    /\ Limit = 0 \/ (queue = << >> /\ active + Weight[c] <= Limit)
    /\ active' = active + Weight[c]
    /\ task' = [task EXCEPT ![c] = "holding"]
    /\ UNCHANGED queue

AcquireQueue(c) ==
    /\ task[c] = "idle"
    /\ Limit > 0 /\ Weight[c] <= Limit
    /\ queue # << >> \/ active + Weight[c] > Limit
    /\ Len(queue) < QueueCapacity
    /\ queue' = Append(queue, c)
    /\ task' = [task EXCEPT ![c] = "waiting"]
    /\ UNCHANGED active

\* AdmissionRejectedError: the request is too heavy, or the queue is full.
AcquireReject(c) ==
    /\ task[c] = "idle"
    /\ Limit > 0
    /\ \/ Weight[c] > Limit
       \/ /\ queue # << >> \/ active + Weight[c] > Limit
          /\ Len(queue) >= QueueCapacity
    /\ UNCHANGED vars

(* The task resumes with the grant. *)
Resume(c) ==
    /\ task[c] = "granted"
    /\ task' = [task EXCEPT ![c] = "holding"]
    /\ UNCHANGED <<active, queue>>

(* task.cancel(): a pending future is cancelled; a resolved one keeps its  *)
(* result and the CancelledError is raised when the task resumes.          *)
Cancel(c) ==
    /\ c \in Cancellable
    /\ \/ /\ task[c] = "waiting"
          /\ task' = [task EXCEPT ![c] = "withdrawn"]
       \/ /\ task[c] = "granted"
          /\ task' = [task EXCEPT ![c] = "revoked"]
    /\ UNCHANGED <<active, queue>>

\* except asyncio.CancelledError: refund a grant, drop the waiter, re-raise.
HandleCancelled(c) ==
    /\ task[c] \in {"withdrawn", "revoked"}
    /\ active' = IF task[c] = "revoked" THEN active - Weight[c] ELSE active
    /\ queue' = DropWaiter(c)
    /\ task' = [task EXCEPT ![c] = "idle"]

\* release() and the _drain() it ends with.
Release(c) ==
    /\ task[c] = "holding"
    /\ ReleaseAndDrain(c, Max({0, active - Weight[c]}))

Acquire(c) == AcquireFast(c) \/ AcquireQueue(c) \/ AcquireReject(c)

Next ==
    \E c \in Callers :
        \/ Acquire(c) \/ Resume(c) \/ Release(c)
        \/ Cancel(c) \/ HandleCancelled(c)

Spec == Init /\ [][Next]_vars

(* The event loop runs every ready task, and each holder releases in a     *)
(* `finally` (or through resource()), so these steps are weakly fair.      *)
(* Nothing makes a caller acquire or be cancelled.                         *)
Fairness ==
    \A c \in Callers :
        /\ WF_vars(Resume(c))
        /\ WF_vars(HandleCancelled(c))
        /\ WF_vars(Release(c))

FairSpec == Spec /\ Fairness

-----------------------------------------------------------------------------
(* Properties. *)

\* Callers that own units: granted or running, or about to give a grant back.
Owners == {c \in Callers : task[c] \in {"granted", "holding", "revoked"}}

OwnedWeight == WeightOf(Owners)

(* The counter self._active is exactly the weight of the callers that own  *)
(* units: no cancellation leaks a unit or refunds one twice ("otherwise    *)
(* the budget unit leaks forever", admission.py:191).  So the weighted     *)
(* work admitted at one time never exceeds the budget of the class,        *)
(* whatever mix of fast-path admissions, queued grants and cancelled       *)
(* waiters led there (acquire, _drain).                                    *)
BudgetConserved ==
    /\ TypeOK
    /\ active = OwnedWeight
    /\ Limit > 0 => OwnedWeight <= Limit

Admitted(t) == t \in {"granted", "holding"}

\* The pending waiters that were in line before c asked or stood before it.
AheadOf(c) ==
    LET ahead == {i \in 1 .. Len(queue) :
                    \A j \in 1 .. i : queue[j] # c}
    IN  {queue[i] : i \in {j \in ahead : Pending(queue[j])}}

(* FIFO: a step admits a caller only together with every waiter that is    *)
(* pending ahead of it; a newcomer never slips past the queue (acquire's   *)
(* `not queue` test, _drain's order).                                      *)
NoOvertaking ==
    [][Limit > 0 =>
        \A c \in Callers :
            ~Admitted(task[c]) /\ Admitted(task'[c])
                => \A w \in AheadOf(c) : Admitted(task'[w])]_vars

(* Every queued caller leaves the queue in the end: it is admitted, or its *)
(* own cancellation takes it out.                                          *)
WaitersServed == \A c \in Callers : task[c] = "waiting" ~> task[c] # "waiting"

(* What holds of it: the budget freed by a release() reaches every waiter, *)
(* through waiters cancelled at the front of the queue, as long as no      *)
(* grant is cancelled before its task resumes.  (That handler refunds the  *)
(* grant and does not call _drain: WaitersServed alone fails.)             *)
ServedUnlessRevoked == [](\A c \in Callers : task[c] # "revoked") => WaitersServed
==============================================================================
