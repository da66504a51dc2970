------------------------- MODULE WebhookOutboxProofs -------------------------
(***************************************************************************)
(* Proofs about WebhookOutbox, for any number of events and intents of one *)
(* fingerprint, delivery tasks, attempts and faults.                       *)
(*                                                                         *)
(* OneSender speaks of the tasks whose claim has not lapsed.  To carry it  *)
(* over a claim, a late result and the loss of a task, the invariant also  *)
(* says what a recorded owner is: a task that is at work on that very      *)
(* event, and that knows (late) when its claim has lapsed.                 *)
(***************************************************************************)
EXTENDS WebhookOutbox, TLAPS

\* A task at work has an event, and a result once it is to record one.
TasksAtWork ==
    \A t \in Tasks : task[t].pc # "idle" =>
       /\ task[t].ev \in Events
       /\ task[t].pc = "finish" => task[t].out # "none"

\* The recorded owner of an event is at work on it.
OwnersSend ==
    \A e \in Events, t \in Tasks : rec[e].owner = t =>
       /\ Sends(t, e)
       /\ rec[e].status = "delivering"
       /\ rec[e].lapsed => task[t].late

\* Nothing is delivered, or about to be recorded as delivered, unanswered.
Earned ==
    /\ \A e \in Events : rec[e].status = "delivered" => e \in answered
    /\ \A t \in Tasks : task[t].pc = "finish" /\ task[t].out = "delivered" =>
          task[t].ev \in answered

IInv == OneSender /\ TasksAtWork /\ OwnersSend /\ Earned

-----------------------------------------------------------------------------
(* Intents of one fingerprint are stored under one id                      *)

\* The enqueue script answers with the event itself, or with one that is stored
\* under the same fingerprint.
LEMMA CanonicalStored ==
    ASSUME NEW e \in Events
    PROVE  \/ Canonical(e) = e /\ StoredAs(e) = {}
           \/ Canonical(e) \in Events /\ Stored(Canonical(e))
  <1>1. CASE StoredAs(e) # {}
    <2>1. Canonical(e) \in StoredAs(e)
      BY <1>1 DEF Canonical
    <2> QED
      BY <2>1 DEF StoredAs
  <1>2. CASE StoredAs(e) = {}
    BY <1>2 DEF Canonical
  <1> QED
    BY <1>1, <1>2

\* No step but a store makes an event stored.
LEMMA OneIdKept ==
    ASSUME OneId, \A e \in Events : Stored(e)' => Stored(e)
    PROVE  OneId'
  BY DEF OneId, Fingerprint

LEMMA OneIdUnchanged ==
    ASSUME OneId, UNCHANGED rec
    PROVE  OneId'
  BY OneIdKept DEF Stored

LEMMA Constants ==
    /\ 0 \in 0..MaxRetries /\ 1 \in 0..MaxRetries /\ MaxFaults \in Nat
    /\ Nobody \notin Tasks /\ Gone \notin Tasks
    /\ Idle \in Task /\ Absent \in Record
  <1>1. /\ 0 \in 0..MaxRetries /\ 1 \in 0..MaxRetries /\ MaxFaults \in Nat
        /\ Nobody \notin Tasks /\ Gone \notin Tasks
    BY OutboxConstants DEF OutboxConstants
  <1> QED
    BY <1>1 DEF Idle, Absent, Task, Record, Statuses

\* The types the invariant gives.
LEMMA Types ==
    ASSUME IInv
    PROVE  /\ rec \in [Events -> Record] /\ task \in [Tasks -> Task]
           /\ built \subseteq Events /\ wanted \subseteq Events
           /\ answered \subseteq Events /\ faults \in 0..MaxFaults
  BY DEF IInv, OneSender, TypeOK

\* Storing an intent makes one event pending, unless its event is stored already.
LEMMA StoreStep ==
    ASSUME IInv, NEW e \in Events, Store(e), wanted' \subseteq Events
    PROVE  IInv'
  <1> USE DEF IInv, OneSender, TypeOK
  <1>1. CASE Stored(Canonical(e))
    BY <1>1, OneIdUnchanged DEF Store, TasksAtWork, OwnersSend, Earned, Sends
  <1>2. CASE ~Stored(Canonical(e))
    <2>1. Canonical(e) = e /\ StoredAs(e) = {}
      BY <1>2, CanonicalStored
    <2>2. rec[e] \in Record /\ rec[e].status = "none"
      BY <1>2, <2>1 DEF Stored
    <2>3. /\ rec' \in [Events -> Record]
          /\ rec'[e].status = "pending"
          /\ rec'[e].owner = rec[e].owner /\ rec'[e].lapsed = rec[e].lapsed
          /\ \A f \in Events : f # e => rec'[f] = rec[f]
      BY <1>2, <2>2 DEF Store, Record, Statuses
    <2>4. UNCHANGED <<task, faults, answered>> /\ built' \subseteq Events
      BY DEF Store
    <2>5. \A t \in Tasks : rec[e].owner # t
      BY <2>2 DEF OwnersSend
    <2>6. OneId'
      BY <2>1, <2>3 DEF Stored, OneId, StoredAs, Fingerprint
    <2>7. TasksAtWork' /\ OwnersSend' /\ Earned'
      BY <2>3, <2>4, <2>5 DEF TasksAtWork, OwnersSend, Earned, Sends
    <2>8. \A t \in Tasks : task[t].pc # "idle" /\ ~task[t].late =>
             rec'[task[t].ev].owner = t /\ rec'[task[t].ev].status = "delivering"
      BY <2>2, <2>3 DEF TasksAtWork
    <2> QED
      BY <2>3, <2>4, <2>6, <2>7, <2>8
  <1> QED
    BY <1>1, <1>2

-----------------------------------------------------------------------------
(* One delivery                                                            *)

\* A claim takes an event nobody owns, or one whose owner knows it is late.
LEMMA ClaimStep ==
    ASSUME IInv, NEW t \in Tasks, NEW e \in Events, Claim(t, e)
    PROVE  IInv'
  <1>1. CASE ~Claimable(e)
    BY <1>1, OneIdUnchanged DEF IInv, OneSender, TypeOK, Claim, TasksAtWork, OwnersSend, Earned, Sends
  <1>2. CASE Claimable(e)
    <2> DEFINE w == [Idle EXCEPT !.pc = "check", !.ev = e]
    <2>1. /\ w \in Task /\ w.pc = "check" /\ w.ev = e /\ ~w.late
      BY Zenon, Constants DEF Idle, Task
    <2>2. /\ task' \in [Tasks -> Task] /\ task'[t] = w
          /\ \A u \in Tasks : u # t => task'[u] = task[u]
      BY <1>2, <2>1, Types DEF Claim, Set
    <2>3. /\ rec' \in [Events -> Record]
          /\ rec'[e] = [status |-> "delivering", owner |-> t, lapsed |-> FALSE]
          /\ \A f \in Events : f # e => rec'[f] = rec[f]
      <3> DEFINE r == [status |-> "delivering", owner |-> t, lapsed |-> FALSE]
      <3>1. rec' = [rec EXCEPT ![e] = r]
        BY <1>2 DEF Claim
      <3>2. r \in Record
        BY DEF Record, Statuses
      <3> HIDE DEF r
      <3>3. /\ rec' \in [Events -> Record] /\ rec'[e] = r
            /\ \A f \in Events : f # e => rec'[f] = rec[f]
        BY <3>1, <3>2, Types
      <3> QED
        BY <3>3 DEF r
    <2>4. UNCHANGED <<built, faults, answered>> /\ wanted' \subseteq Events /\ task[t].pc = "idle"
      BY Types DEF Claim
    <2> HIDE DEF w
    <2> USE DEF IInv, OneSender, TypeOK
    <2>5. Stored(e) /\ rec[e].status # "delivered"
      BY <1>2 DEF Claimable, Stored
    <2>6. \A u \in Tasks : rec[e].owner = u => task[u].late
      BY <1>2, Constants DEF Claimable, OwnersSend
    <2>7. \A f \in Events : rec[f].owner # t
      BY <2>4 DEF OwnersSend, Sends
    <2>8. OneId'
      BY <2>3, <2>5, OneIdKept DEF Stored
    <2>9. \A u \in Tasks : task'[u].pc # "idle" /\ ~task'[u].late =>
             rec'[task'[u].ev].owner = u /\ rec'[task'[u].ev].status = "delivering"
      <3> TAKE u \in Tasks
      <3>1. CASE u = t
        BY <3>1, <2>1, <2>2, <2>3
      <3>2. CASE u # t
        BY <3>2, <2>2, <2>3, <2>6 DEF TasksAtWork
      <3> QED
        BY <3>1, <3>2
    <2>10. TasksAtWork'
      BY <2>1, <2>2 DEF TasksAtWork
    <2>11. OwnersSend'
      BY <2>1, <2>2, <2>3, <2>7 DEF OwnersSend, Sends
    <2>12. Earned'
      BY <2>1, <2>2, <2>3, <2>4 DEF Earned
    <2> QED
      BY <2>2, <2>3, <2>4, <2>8, <2>9, <2>10, <2>11, <2>12
  <1> QED
    BY <1>1, <1>2

\* Between its claim and the record of its result a task changes only itself.
LEMMA WorkStep ==
    ASSUME IInv, NEW t \in Tasks, NEW w \in Task,
           task[t].pc # "idle", Set(t, w), w.pc # "idle",
           w.ev = task[t].ev, w.late = task[t].late,
           w.pc = "finish" => w.out # "none" /\ (w.out = "delivered" => w.ev \in answered'),
           answered \subseteq answered', answered' \subseteq Events,
           UNCHANGED <<rec, built, wanted, faults>>
    PROVE  IInv'
  <1> USE DEF IInv, OneSender, TypeOK
  <1>1. /\ task' \in [Tasks -> Task] /\ task'[t] = w
        /\ \A u \in Tasks : u # t => task'[u] = task[u]
    BY DEF Set
  <1>2. \A u \in Tasks : task'[u].pc # "idle" /\ ~task'[u].late =>
           rec'[task'[u].ev].owner = u /\ rec'[task'[u].ev].status = "delivering"
    BY <1>1
  <1>3. TasksAtWork'
    BY <1>1 DEF TasksAtWork
  <1>4. OwnersSend'
    BY <1>1 DEF OwnersSend, Sends
  <1>5. Earned'
    BY <1>1 DEF Earned
  <1> QED
    BY <1>1, <1>2, <1>3, <1>4, <1>5, OneIdUnchanged

LEMMA TaskSteps ==
    ASSUME IInv, NEW t \in Tasks,
           CheckPasses(t) \/ CheckFails(t) \/ PostFails(t) \/ \E e \in Events : PostAnswered(t, e)
    PROVE  IInv'
  <1>1. task[t] \in Task /\ MaxRetries \in Nat \ {0} /\ answered \subseteq Events
    BY OutboxConstants DEF OutboxConstants, IInv, OneSender, TypeOK
  <1>1a. 0 \in 0..MaxRetries /\ 1 \in 0..MaxRetries
    BY Constants
  <1>2. ASSUME NEW out \in {"pending", "delivered", "abandoned"}
        PROVE  /\ Finishing(t, out) \in Task
               /\ Finishing(t, out).pc = "finish" /\ Finishing(t, out).out = out
               /\ Finishing(t, out).ev = task[t].ev /\ Finishing(t, out).late = task[t].late
    BY Zenon, <1>1, <1>1a DEF Finishing, Task
  <1>3. CASE CheckPasses(t)
    <2> DEFINE w == [task[t] EXCEPT !.pc = "post", !.n = 1]
    <2>1. w \in Task /\ w.pc = "post" /\ w.ev = task[t].ev /\ w.late = task[t].late
      BY Zenon, <1>1, <1>1a DEF Task
    <2> QED
      BY Zenon, <1>1, <1>3, <2>1, WorkStep DEF CheckPasses
  <1>4. CASE CheckFails(t)
    BY <1>1, <1>2, <1>4, WorkStep DEF CheckFails
  <1>5. CASE PostFails(t)
    <2>1. CASE task[t].n < MaxRetries
      <3> DEFINE w == [task[t] EXCEPT !.n = @ + 1]
      <3>1. w \in Task /\ w.pc = "post" /\ w.ev = task[t].ev /\ w.late = task[t].late
        BY <1>1, <1>5, <2>1 DEF Task, PostFails
      <3>2. Set(t, w) /\ task[t].pc # "idle" /\ UNCHANGED <<rec, built, wanted, faults, answered>>
        BY <1>5, <2>1 DEF PostFails
      <3> QED
        BY Zenon, <1>1, <3>1, <3>2, WorkStep
    <2>2. CASE ~(task[t].n < MaxRetries)
      <3>1. /\ Set(t, Finishing(t, "pending")) /\ task[t].pc # "idle"
            /\ UNCHANGED <<rec, built, wanted, faults, answered>>
        BY <1>5, <2>2 DEF PostFails, Exhausted
      <3> QED
        BY <1>1, <1>2, <3>1, WorkStep
    <2> QED
      BY <2>1, <2>2
  <1>6. CASE \E e \in Events : PostAnswered(t, e)
    <2>1. PICK e \in Events : PostAnswered(t, e)
      BY <1>6
    <2>2. /\ Set(t, Finishing(t, "delivered")) /\ task[t].pc # "idle" /\ task[t].ev = e
          /\ answered' = answered \cup {e} /\ UNCHANGED <<rec, built, wanted, faults>>
      BY <2>1 DEF PostAnswered, Sends
    <2> QED
      BY <1>1, <1>2, <2>2, WorkStep
  <1> QED
    BY <1>3, <1>4, <1>5, <1>6

\* What Finish writes: nothing for a task that is not the recorded owner, and
\* otherwise the result of the event that this task alone is sending.
LEMMA FinishStep ==
    ASSUME IInv, NEW t \in Tasks, Finish(t)
    PROVE  IInv'
  <1> USE DEF IInv, OneSender, TypeOK
  <1> DEFINE e == task[t].ev
  <1>1. /\ e \in Events /\ task[t] \in Task /\ task[t].out # "none"
        /\ task[t].out = "delivered" => e \in answered
    BY DEF Finish, MayRecord, TasksAtWork, Earned
  <1>2. /\ task' \in [Tasks -> Task] /\ task'[t] = Idle
        /\ \A u \in Tasks : u # t => task'[u] = task[u]
    BY Constants DEF Finish, Set
  <1>3. UNCHANGED <<built, wanted, faults, answered>>
    BY DEF Finish, MayRecord
  <1>4. Idle.pc = "idle"
    BY DEF Idle
  <1>5. CASE rec[e].owner = t
    <2>1. /\ rec' \in [Events -> Record]
          /\ rec'[e] = [status |-> task[t].out, owner |-> Nobody, lapsed |-> FALSE]
          /\ \A f \in Events : f # e => rec'[f] = rec[f]
      BY <1>1, <1>5 DEF Finish, MayRecord, Record, Task, Statuses
    <2>2. rec[e].status = "delivering" /\ \A f \in Events : f # e => rec[f].owner # t
      BY <1>1, <1>5 DEF OwnersSend, Sends
    <2>3. OneId'
      BY <1>1, <2>1, <2>2, OneIdKept DEF Stored
    <2>4. \A u \in Tasks : task'[u].pc # "idle" /\ ~task'[u].late =>
             rec'[task'[u].ev].owner = u /\ rec'[task'[u].ev].status = "delivering"
      BY <1>2, <1>4, <1>5, <2>1 DEF TasksAtWork
    <2>5. TasksAtWork' /\ Earned'
      BY <1>1, <1>2, <1>3, <1>4, <2>1 DEF TasksAtWork, Earned
    <2>6. OwnersSend'
      BY <1>2, <2>1, <2>2, Constants DEF OwnersSend, Sends
    <2> QED
      BY <1>2, <1>3, <2>1, <2>3, <2>4, <2>5, <2>6
  <1>6. CASE rec[e].owner # t
    <2>1. rec' = rec
      BY <1>6 DEF Finish, MayRecord
    <2>2. \A f \in Events : rec[f].owner # t
      BY <1>6 DEF OwnersSend, Sends
    <2>3. TasksAtWork' /\ Earned' /\ OwnersSend'
      BY <1>2, <1>3, <1>4, <2>1, <2>2 DEF TasksAtWork, Earned, OwnersSend, Sends
    <2> QED
      BY <1>2, <1>3, <1>4, <2>1, <2>3, OneIdUnchanged
  <1> QED
    BY <1>5, <1>6

-----------------------------------------------------------------------------
(* Time and lost tasks                                                     *)

\* A claim that lapses makes its owner late, and nobody else.
LEMMA LapseStep ==
    ASSUME IInv, NEW e \in Events, Lapse(e)
    PROVE  IInv'
  <1> DEFINE t == rec[e].owner
  <1>1. /\ rec' \in [Events -> Record]
        /\ rec'[e].status = rec[e].status /\ rec'[e].owner = t /\ rec'[e].lapsed
        /\ \A f \in Events : f # e => rec'[f] = rec[f]
    BY Zenon, Types DEF Lapse, Record
  <1>2. task' = [u \in Tasks |-> IF u = t THEN [task[u] EXCEPT !.late = TRUE] ELSE task[u]]
    BY DEF Lapse
  <1>2a. task' \in [Tasks -> Task]
    <2>1. ASSUME NEW u \in Tasks PROVE task'[u] \in Task
      <3>1. task[u] \in Task
        BY Types
      <3>2. [task[u] EXCEPT !.late = TRUE] \in Task
        BY <3>1 DEF Task
      <3> QED
        BY Zenon, <1>2, <3>1, <3>2
    <2> QED
      BY Zenon, <1>2, <2>1
  <1>3. /\ task' \in [Tasks -> Task]
        /\ \A u \in Tasks : /\ task'[u].pc = task[u].pc /\ task'[u].ev = task[u].ev
                            /\ task'[u].out = task[u].out
                            /\ task'[u].late <=> task[u].late \/ u = t
    <2> SUFFICES ASSUME NEW u \in Tasks
                 PROVE  /\ task'[u].pc = task[u].pc /\ task'[u].ev = task[u].ev
                        /\ task'[u].out = task[u].out
                        /\ task'[u].late <=> task[u].late \/ u = t
      BY <1>2a
    <2>1. task[u] \in Task
      BY Types
    <2>2. CASE u = t
      <3>1. task'[u] = [task[u] EXCEPT !.late = TRUE]
        BY <1>2, <2>2
      <3> QED
        BY <2>1, <2>2, <3>1 DEF Task
    <2>3. CASE u # t
      BY <1>2, <2>3
    <2> QED
      BY <2>2, <2>3
  <1>4. UNCHANGED <<built, wanted, answered>> /\ faults' \in 0..MaxFaults
    BY Constants, Types DEF Lapse
  <1> USE DEF IInv, OneSender, TypeOK
  <1>5. OneId'
    BY <1>1, OneIdKept DEF Stored
  <1>6. \A u \in Tasks : task'[u].pc # "idle" /\ ~task'[u].late =>
           rec'[task'[u].ev].owner = u /\ rec'[task'[u].ev].status = "delivering"
    BY <1>1, <1>3 DEF TasksAtWork
  <1>7. TasksAtWork' /\ Earned'
    BY <1>1, <1>3, <1>4 DEF TasksAtWork, Earned
  <1>8. OwnersSend'
    BY <1>1, <1>3 DEF OwnersSend, Sends
  <1> QED
    BY <1>1, <1>3, <1>4, <1>5, <1>6, <1>7, <1>8

\* The events of a lost task belong to nobody who could still send them.
LEMMA LoseStep ==
    ASSUME IInv, NEW t \in Tasks, Lose(t)
    PROVE  IInv'
  <1> USE DEF IInv, OneSender, TypeOK
  <1>1. /\ rec' \in [Events -> Record]
        /\ \A f \in Events : /\ rec'[f].status = rec[f].status /\ rec'[f].lapsed = rec[f].lapsed
                             /\ rec'[f].owner = IF rec[f].owner = t THEN Gone ELSE rec[f].owner
    BY DEF Lose, Record
  <1>2. /\ task' \in [Tasks -> Task] /\ task'[t] = Idle /\ Idle.pc = "idle"
        /\ \A u \in Tasks : u # t => task'[u] = task[u]
    BY Constants DEF Lose, Set, Idle
  <1>3. UNCHANGED <<built, wanted, answered>> /\ faults' \in 0..MaxFaults
    BY OutboxConstants DEF OutboxConstants, Lose
  <1>4. OneId'
    BY <1>1, OneIdKept DEF Stored
  <1>5. \A u \in Tasks : task'[u].pc # "idle" /\ ~task'[u].late =>
           rec'[task'[u].ev].owner = u /\ rec'[task'[u].ev].status = "delivering"
    BY <1>1, <1>2 DEF TasksAtWork
  <1>6. TasksAtWork' /\ Earned'
    BY <1>1, <1>2, <1>3 DEF TasksAtWork, Earned
  <1>7. OwnersSend'
    BY <1>1, <1>2, Constants DEF OwnersSend, Sends
  <1> QED
    BY <1>1, <1>2, <1>3, <1>4, <1>5, <1>6, <1>7

\* The steps that only schedule deliveries or forget scheduled ones.
LEMMA ScheduleStep ==
    ASSUME IInv, wanted' \subseteq Events, faults' \in 0..MaxFaults,
           UNCHANGED <<rec, built, task, answered>>
    PROVE  IInv'
  BY OneIdUnchanged DEF IInv, OneSender, TypeOK, TasksAtWork, OwnersSend, Earned, Sends

-----------------------------------------------------------------------------

LEMMA InitInv == Init => IInv
  <1> SUFFICES ASSUME Init PROVE IInv
    OBVIOUS
  <1>1. /\ rec \in [Events -> Record] /\ \A e \in Events : rec[e] = Absent
        /\ task \in [Tasks -> Task] /\ \A t \in Tasks : task[t] = Idle
    BY Constants DEF Init
  <1>2. /\ Idle.pc = "idle" /\ Absent.status = "none" /\ Absent.owner = Nobody
    BY DEF Idle, Absent
  <1>3. TypeOK
    BY <1>1, Constants DEF Init, TypeOK
  <1>4. OneSender
    BY <1>1, <1>2, <1>3, Constants DEF OneSender, OneId, Stored
  <1> QED
    BY <1>1, <1>2, <1>4, Constants DEF IInv, TasksAtWork, OwnersSend, Earned

LEMMA NextInv == IInv /\ [Next]_vars => IInv'
  <1> SUFFICES ASSUME IInv, [Next]_vars PROVE IInv'
    OBVIOUS
  <1>0. wanted \subseteq Events /\ faults \in 0..MaxFaults /\ MaxFaults \in Nat
    BY OutboxConstants DEF OutboxConstants, IInv, OneSender, TypeOK
  <1>1. ASSUME NEW e \in Events, StoreIntent(e) PROVE IInv'
    BY <1>0, <1>1, StoreStep DEF StoreIntent
  <1>2. ASSUME NEW e \in Events, DeliverWebhook(e) PROVE IInv'
    <2>1. Canonical(e) \in Events
      BY CanonicalStored
    <2> QED
      BY <1>0, <1>2, <2>1, StoreStep DEF DeliverWebhook
  <1>3. ASSUME NEW e \in Events, LoseScheduled(e) PROVE IInv'
    <2>1. faults' \in 0..MaxFaults
      BY <1>0, <1>3 DEF LoseScheduled
    <2> QED
      BY <1>0, <1>3, <2>1, ScheduleStep DEF LoseScheduled
  <1>4. ASSUME NEW t \in Tasks, TaskStep(t) PROVE IInv'
    BY <1>4, TaskSteps, FinishStep DEF TaskStep
  <1>5. CASE ReplayPendingWebhooks
    <2>1. Listed \subseteq Events
      BY DEF Listed
    <2> QED
      BY <1>0, <1>5, <2>1, ScheduleStep DEF ReplayPendingWebhooks
  <1>6. CASE UNCHANGED vars
    BY <1>0, <1>6, ScheduleStep DEF vars
  <1> QED
    BY <1>1, <1>2, <1>3, <1>4, <1>5, <1>6, ClaimStep, LapseStep, LoseStep DEF Next

LEMMA Invariance == Spec => []IInv
  BY InitInv, NextInv, PTL DEF Spec

\* _CLAIM_WEBHOOK_SCRIPT and _ENQUEUE_WEBHOOK_SCRIPT: whatever claims lapse,
\* tasks die and replays list, a task whose claim has not lapsed is the only one
\* sending its event, and intents of one fingerprint have one id.
THEOREM OutboxOneSender == Spec => []OneSender
  <1>1. IInv => OneSender
    BY DEF IInv
  <1> QED
    BY <1>1, Invariance, PTL

\* _FINISH_WEBHOOK_SCRIPT: an event is recorded as delivered only after its
\* receiver answered, and the late result of a task whose claim lapsed leaves a
\* settled event as it is.
THEOREM OutboxSettledIsFinal == Spec => SettledIsFinal
  <1> DEFINE Final == \A e \in Events :
               /\ rec[e].status \in Settled => rec'[e].status = rec[e].status
               /\ rec'[e].status = "delivered" => e \in answered
  <1>1. ASSUME IInv, [Next]_vars
        PROVE  Final \/ UNCHANGED vars
    <2>1. ASSUME UNCHANGED rec PROVE Final
      BY <1>1, <2>1 DEF IInv, Earned
    <2>2. ASSUME NEW e \in Events, Store(e) PROVE Final
      <3>1. CASE Stored(Canonical(e))
        BY <2>1, <2>2, <3>1 DEF Store
      <3>2. CASE ~Stored(Canonical(e))
        <4>1. ~Stored(e)
          BY <3>2, CanonicalStored
        <4>2. /\ rec[e].status \notin Settled /\ rec'[e].status = "pending"
              /\ \A f \in Events : f # e => rec'[f] = rec[f]
          BY <2>2, <3>2, <4>1, <1>1, Types DEF Store, Stored, Settled, Record
        <4> QED
          BY <1>1, <4>2 DEF IInv, Earned
      <3> QED
        BY <3>1, <3>2
    <2>3. ASSUME NEW t \in Tasks, NEW e \in Events, Claim(t, e) PROVE Final
      <3>1. CASE Claimable(e)
        <4>1. /\ rec'[e].status = "delivering" /\ rec[e].status \notin Settled
              /\ \A f \in Events : f # e => rec'[f] = rec[f]
          BY <1>1, <2>3, <3>1, Types DEF Claim, Claimable, Settled
        <4> QED
          BY <1>1, <4>1 DEF IInv, Earned
      <3>2. CASE ~Claimable(e)
        BY <2>1, <2>3, <3>2 DEF Claim
      <3> QED
        BY <3>1, <3>2
    <2>4. ASSUME NEW t \in Tasks, Finish(t) PROVE Final
      <3> DEFINE e == task[t].ev
      <3>1. CASE rec[e].owner = t
        <4>1. e \in Events /\ (task[t].out = "delivered" => e \in answered)
          BY <1>1, <2>4 DEF Finish, MayRecord, IInv, TasksAtWork, Earned
        <4>2. rec[e].status = "delivering"
          BY <1>1, <3>1, <4>1 DEF IInv, OwnersSend
        <4>3. /\ rec'[e].status = task[t].out
              /\ \A f \in Events : f # e => rec'[f] = rec[f]
          BY <1>1, <2>4, <3>1, <4>1, Types DEF Finish, MayRecord
        <4> QED
          BY <1>1, <4>1, <4>2, <4>3 DEF IInv, Earned, Settled
      <3>2. CASE rec[e].owner # t
        BY <2>1, <2>4, <3>2 DEF Finish, MayRecord
      <3> QED
        BY <3>1, <3>2
    <2>5. ASSUME NEW e \in Events, Lapse(e) PROVE Final
      <3>1. \A f \in Events : rec'[f].status = rec[f].status
        BY <1>1, <2>5, Types DEF Lapse, Record
      <3> QED
        BY <1>1, <3>1 DEF IInv, Earned
    <2>6. ASSUME NEW t \in Tasks, Lose(t) PROVE Final
      <3>1. \A f \in Events : rec'[f].status = rec[f].status
        BY <1>1, <2>6, Types DEF Lose, Record
      <3> QED
        BY <1>1, <3>1 DEF IInv, Earned
    <2>7. ASSUME NEW t \in Tasks, TaskStep(t) PROVE Final
      BY <2>1, <2>4, <2>7
      DEF TaskStep, CheckPasses, CheckFails, PostAnswered, PostFails
    <2> HIDE DEF Final
    <2> QED
      BY <1>1, <2>1, <2>2, <2>3, <2>5, <2>6, <2>7
      DEF Next, StoreIntent, DeliverWebhook, LoseScheduled, ReplayPendingWebhooks
  <1> QED
    BY <1>1, Invariance, PTL DEF Spec, SettledIsFinal
==============================================================================
