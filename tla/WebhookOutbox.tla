---------------------------- MODULE WebhookOutbox ----------------------------
(***************************************************************************)
(* Delivery of job webhooks from the Valkey outbox of agent-svc            *)
(* (webhook.py, the outbox scripts of store.py, the replay of              *)
(* job_execution.py and routes/crawl.py).                                  *)
(*                                                                         *)
(* An event is one built intent, named by its webhookId.  A delivery task  *)
(* claims a stored event for 30 seconds, checks the destination, posts,    *)
(* and records the outcome; each of these is an await, and the claim is    *)
(* not renewed, so it may lapse under a task that is still sending.        *)
(* A task that stops with its process takes no further step.               *)
(***************************************************************************)
EXTENDS Integers, FiniteSets

CONSTANTS Events,      \* webhook ids that get built
          Notice,      \* what an intent announces: url, type, job id, data, metadata
          Success,     \* its success flag, and the error that comes with it
          Dead,        \* events whose receiver answers 5xx or not at all
          Rank,        \* position of an event in Valkey's SCAN order
          Tasks,       \* delivery tasks at work at one time (bound)
          MaxRetries,  \* MAX_RETRIES
          Limit,       \* list_pending_webhooks: events listed by one replay
          MaxFaults,   \* bound: tasks that die, and tasks that outlive their claim
          Nobody, Gone \* lease_owner = nil; the owner id of a task that died

ASSUME OutboxConstants ==
    /\ Dead \subseteq Events /\ Success \in [Events -> BOOLEAN]
    /\ Rank \in [Events -> Nat] /\ \A e, f \in Events : Rank[e] = Rank[f] => e = f
    /\ MaxRetries \in Nat \ {0} /\ Limit \in Nat \ {0} /\ MaxFaults \in Nat
    /\ Nobody \notin Tasks /\ Gone \notin Tasks

VARIABLES rec,       \* job:{id}:webhooks, the fields the scripts read
          built,     \* intents handed to the store so far
          wanted,    \* deliveries that were scheduled and have not claimed yet
          task,      \* the delivery tasks
          faults,    \* tasks lost and claims outlived so far (bounded)
          answered   \* history: events the receiver answered below 500

vars == <<rec, built, wanted, task, faults, answered>>

Statuses == {"none", "pending", "delivering", "delivered", "abandoned"}
Settled == {"delivered", "abandoned"}
Record == [status : Statuses, owner : Tasks \cup {Nobody, Gone}, lapsed : BOOLEAN]
\* late: the lease of this task lapsed (history); out: what finish will record.
Task == [pc : {"idle", "check", "post", "finish"}, ev : Events \cup {Nobody},
         n : 0..MaxRetries, out : {"none", "pending", "delivered", "abandoned"},
         late : BOOLEAN]

Absent == [status |-> "none", owner |-> Nobody, lapsed |-> FALSE]
Idle == [pc |-> "idle", ev |-> Nobody, n |-> 0, out |-> "none", late |-> FALSE]

Stored(e) == rec[e].status # "none"
Unsettled(e) == rec[e].status \in {"pending", "delivering"}
Sends(t, e) == task[t].pc # "idle" /\ task[t].ev = e
Set(t, w) == task' = [task EXCEPT ![t] = w]

Init ==
    /\ rec = [e \in Events |-> Absent]
    /\ built = {} /\ wanted = {}
    /\ task = [t \in Tasks |-> Idle]
    /\ faults = 0 /\ answered = {}

-----------------------------------------------------------------------------
(* Storing an event                                                        *)

\* Mutation of Canonical: the fingerprint key is not looked up.
CanonicalSelf(e) == e

\* build_webhook_intent: the fingerprint covers the success flag.  Most callers
\* build the intent of the terminal script and that of deliver_webhook alike; an
\* ordinary failure is recorded with success=False and its error and delivered
\* with success=True and none (worker.py, lines 248 and 257): two fingerprints.
Fingerprint(e) == <<Notice[e], Success[e]>>

\* The stored events that e is an intent of.
StoredAs(e) == {f \in Events : Stored(f) /\ Fingerprint(f) = Fingerprint(e)}

\* _ENQUEUE_WEBHOOK_SCRIPT: the event already stored under e's fingerprint, or e.
Canonical(e) == IF StoredAs(e) # {} THEN CHOOSE f \in StoredAs(e) : TRUE ELSE e

Store(e) ==
    /\ e \notin built
    /\ built' = built \cup {e}
    /\ rec' = IF Stored(Canonical(e)) THEN rec
              ELSE [rec EXCEPT ![e].status = "pending"]
    /\ UNCHANGED <<task, faults, answered>>

\* The intent passed to a terminal script: stored, and left to the replay.
StoreIntent(e) == Store(e) /\ UNCHANGED wanted

\* deliver_webhook: enqueue, then deliver the event the store returned.
DeliverWebhook(e) == Store(e) /\ wanted' = wanted \cup {Canonical(e)}

-----------------------------------------------------------------------------
(* One delivery: _deliver_outbox_event                                     *)

\* Mutation of Claimable: an event that is being delivered may be claimed.
ClaimableLeased(e) == rec[e].status \in {"pending", "delivering"}
\* Mutation of Claimable: the status is not looked at, as if a listed event could
\* not have been settled meanwhile.
ClaimableSettled(e) == Stored(e) /\ (rec[e].owner = Nobody \/ rec[e].lapsed)

\* _CLAIM_WEBHOOK_SCRIPT
Claimable(e) ==
    /\ rec[e].status \in {"pending", "delivering"}
    /\ rec[e].owner = Nobody \/ rec[e].lapsed

Claim(t, e) ==
    /\ task[t].pc = "idle" /\ e \in wanted
    /\ wanted' = wanted \ {e}
    /\ IF Claimable(e)
         THEN /\ rec' = [rec EXCEPT ![e] = [status |-> "delivering", owner |-> t,
                                            lapsed |-> FALSE]]
              /\ Set(t, [Idle EXCEPT !.pc = "check", !.ev = e])
         ELSE UNCHANGED <<rec, task>>
    /\ UNCHANGED <<built, faults, answered>>

Finishing(t, out) == [task[t] EXCEPT !.pc = "finish", !.n = 0, !.out = out]

\* ensure_deliverable_webhook_destination returns True.
CheckPasses(t) ==
    /\ task[t].pc = "check"
    /\ Set(t, [task[t] EXCEPT !.pc = "post", !.n = 1])
    /\ UNCHANGED <<rec, built, wanted, faults, answered>>
\* It returns False: the destination is not public, or its name could not be
\* resolved MAX_RETRIES times.  _send_outbox_event abandons the event.
CheckFails(t) ==
    /\ task[t].pc = "check"
    /\ Set(t, Finishing(t, "abandoned"))
    /\ UNCHANGED <<rec, built, wanted, faults, answered>>

\* The receiver answers below 500.
PostAnswered(t, e) ==
    /\ Sends(t, e) /\ task[t].pc = "post" /\ e \notin Dead
    /\ answered' = answered \cup {e}
    /\ Set(t, Finishing(t, "delivered"))
    /\ UNCHANGED <<rec, built, wanted, faults>>

\* Mutation of Exhausted: the last failed attempt counts as a delivery.
ExhaustedDelivered == "delivered"
Exhausted == "pending"

\* 5xx, a timeout (the receiver may have the event) or a transport error.
PostFails(t) ==
    /\ task[t].pc = "post"
    /\ Set(t, IF task[t].n < MaxRetries THEN [task[t] EXCEPT !.n = @ + 1]
                                        ELSE Finishing(t, Exhausted))
    /\ UNCHANGED <<rec, built, wanted, faults, answered>>

\* Mutation of MayRecord: whoever sent the event records its outcome.
MayRecordAny(t) == TRUE

\* _FINISH_WEBHOOK_SCRIPT: refused unless the task still is the recorded owner.
MayRecord(t) == rec[task[t].ev].owner = t
Finish(t) ==
    /\ task[t].pc = "finish"
    /\ rec' = IF MayRecord(t)
                THEN [rec EXCEPT ![task[t].ev] =
                        [status |-> task[t].out, owner |-> Nobody, lapsed |-> FALSE]]
                ELSE rec
    /\ Set(t, Idle)
    /\ UNCHANGED <<built, wanted, faults, answered>>

-----------------------------------------------------------------------------
(* Time, lost tasks and the replay                                         *)

\* Thirty seconds have passed since the claim.
Lapse(e) ==
    LET t == rec[e].owner IN
    /\ t # Nobody /\ ~rec[e].lapsed
    /\ t \in Tasks => faults < MaxFaults
    /\ faults' = IF t \in Tasks THEN faults + 1 ELSE faults
    /\ rec' = [rec EXCEPT ![e].lapsed = TRUE]
    /\ task' = [u \in Tasks |-> IF u = t THEN [task[u] EXCEPT !.late = TRUE] ELSE task[u]]
    /\ UNCHANGED <<built, wanted, answered>>

\* The process stops; owner ids are not used again.
Lose(t) ==
    /\ task[t].pc # "idle" /\ faults < MaxFaults
    /\ faults' = faults + 1
    /\ rec' = [e \in Events |-> IF rec[e].owner = t THEN [rec[e] EXCEPT !.owner = Gone]
                                                    ELSE rec[e]]
    /\ Set(t, Idle)
    /\ UNCHANGED <<built, wanted, answered>>
LoseScheduled(e) ==
    /\ e \in wanted /\ faults < MaxFaults
    /\ faults' = faults + 1
    /\ wanted' = wanted \ {e}
    /\ UNCHANGED <<rec, built, task, answered>>

\* Mutation of Listed: events that are being delivered are not listed.
ListedPending ==
    {e \in Events : /\ rec[e].status = "pending"
                    /\ Cardinality({f \in Events : Unsettled(f) /\ Rank[f] < Rank[e]}) < Limit}

\* list_pending_webhooks: the first Limit unsettled events of the scan.
Listed ==
    {e \in Events : /\ Unsettled(e)
                    /\ Cardinality({f \in Events : Unsettled(f) /\ Rank[f] < Rank[e]}) < Limit}

\* replay_pending_webhooks, in every round of the recovery loop and after a DELETE.
ReplayPendingWebhooks ==
    /\ ~(Listed \subseteq wanted)
    /\ wanted' = wanted \cup Listed
    /\ UNCHANGED <<rec, built, task, faults, answered>>

-----------------------------------------------------------------------------

TaskStep(t) ==
    \/ CheckPasses(t) \/ CheckFails(t)
    \/ \E e \in Events : PostAnswered(t, e)
    \/ PostFails(t) \/ Finish(t)

Next ==
    \/ \E e \in Events : StoreIntent(e) \/ DeliverWebhook(e) \/ Lapse(e) \/ LoseScheduled(e)
    \/ \E t \in Tasks, e \in Events : Claim(t, e)
    \/ \E t \in Tasks : TaskStep(t) \/ Lose(t)
    \/ ReplayPendingWebhooks

\* The loop replays for ever, a scheduled delivery gets to run, a started one is
\* not suspended, the claim of a lost task lapses, and a receiver that is posted to again and again
\* (one outside Dead) answers in the end.
Fairness ==
    /\ WF_vars(ReplayPendingWebhooks)
    /\ \A t \in Tasks : WF_vars(TaskStep(t))
    /\ \A e \in Events :
         /\ WF_vars(Lapse(e))
         /\ SF_vars(\E t \in Tasks : Claim(t, e))
         /\ SF_vars(\E t \in Tasks : PostAnswered(t, e))

Spec == Init /\ [][Next]_vars /\ Fairness

-----------------------------------------------------------------------------
(* Properties                                                              *)

\* The records and tasks have the shape the scripts and webhook.py give them.
TypeOK ==
    /\ rec \in [Events -> Record] /\ task \in [Tasks -> Task]
    /\ built \subseteq Events /\ wanted \subseteq Events
    /\ answered \subseteq Events
    /\ faults \in 0..MaxFaults

\* Intents of one fingerprint are stored under one id.
OneId ==
    \A e, f \in Events :
       Stored(e) /\ Stored(f) /\ Fingerprint(e) = Fingerprint(f) => e = f

\* A task whose lease has not lapsed is the recorded owner of an event that is
\* not settled, whatever another task that outlived its own claim records
\* meanwhile: nobody sends beside it but tasks that are late, and intents of one
\* fingerprint are stored under one webhookId, the id receivers deduplicate by
\* (_CLAIM_WEBHOOK_SCRIPT, _FINISH_WEBHOOK_SCRIPT, _ENQUEUE_WEBHOOK_SCRIPT).
\* Nothing is said of intents that differ in their success flag.
OneSender ==
    /\ TypeOK
    /\ \A t \in Tasks : task[t].pc # "idle" /\ ~task[t].late =>
          /\ rec[task[t].ev].owner = t
          /\ rec[task[t].ev].status = "delivering"
    /\ OneId

\* An outcome is earned and final: an event is recorded as delivered only after
\* its receiver answered it, whichever of its tasks records that, and the late
\* result of a task whose claim lapsed does not put a settled event back
\* (_send_outbox_event, _FINISH_WEBHOOK_SCRIPT).
SettledIsFinal ==
    [][\A e \in Events :
          /\ rec[e].status \in Settled => rec'[e].status = rec[e].status
          /\ rec'[e].status = "delivered" => e \in answered]_vars

\* With fewer dead receivers than a replay lists, every stored event whose own
\* receiver is not dead is delivered or abandoned in the end, wherever the tasks
\* that carried it died (replay_pending_webhooks).
EventuallySettled ==
    \A e \in Events \ Dead : Stored(e) ~> rec[e].status \in Settled
==============================================================================
