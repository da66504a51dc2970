-------------------------- MODULE ResearchSession --------------------------
(***************************************************************************)
(* One research session of agent-svc and the requests that work on it:     *)
(* agent/session.py, agent/session_store.py and agent/routes/documents.py. *)
(*                                                                         *)
(* A session is a handful of Valkey keys.  Serialized steps (search,       *)
(* query, deepen) and document operations own a leased lock; independent   *)
(* steps reserve an index under an idempotency key, work without the lock  *)
(* and publish through one script.  A Lua script is one action and every   *)
(* await between two of them is a boundary.  Time is abstracted: a lease   *)
(* may lapse at any moment, and a commit carries the clock its client read *)
(* before the script ran.                                                  *)
(***************************************************************************)
EXTENDS Naturals, Sequences, FiniteSetsExt

CONSTANTS Requests,    \* requests, each made once; a request is its own token
          Keys,        \* idempotency keys
          Prints,      \* request fingerprints (action and parameters)
          Docs,        \* documents, by the digest that names their reference
          Runs,        \* completed research runs whose sources can be attached
          Modes,       \* the kinds of request made, a subset of AllModes
          MaxPending,  \* max_pending of reserve_step
          MaxDocs,     \* MAX_SESSION_DOCUMENTS
          MaxRaises,   \* bound: store errors that nothing cleans up after
          Legacy,      \* steps of a session that predates next_step_index
          Nobody

\* gather stands for search, scrape and deepen: deepen reads the references first,
\* the other two behave as a deepen that ignores what it read.
AllModes == {"gather", "query", "parallel", "attach", "detach", "root"}

ASSUME SessionConstants ==
  /\ MaxPending \in Nat /\ MaxDocs \in Nat /\ Legacy \in Nat
  /\ Modes \subseteq AllModes
  /\ Nobody \notin Requests \cup Docs \cup Runs
  /\ Docs \cap Runs = {}

VARIABLES meta,      \* the meta hash, and whether it exists
          log,       \* the steps, in the order they were published
          refs,      \* indices of the steps whose references are stored
          artifact,  \* indices of the steps whose section is in the artifact
          docs,      \* attached documents, and runs whose sources are attached
          idem,      \* the idempotency hash
          lock,      \* owner of the lock key
          req,       \* req[r]: the request's task
          late       \* indices whose reservation lapsed between clock and commit

vars == <<meta, log, refs, artifact, docs, idem, lock, req, late>>
content == <<log, refs, artifact, docs>>

NoItem == [status |-> "absent"]
NoReq == [pc |-> "new", mode |-> "none", key |-> Nobody, print |-> Nobody,
          doc |-> Nobody, expected |-> 0, index |-> 0, fresh |-> FALSE,
          sawArtifact |-> <<>>, sawRefs |-> <<>>, answer |-> 0]

NoMeta == [exists |-> FALSE, step_count |-> 0, next_step_index |-> 0, revision |-> 0,
           research_attachment_revision |-> 0, research_attachment_run |-> Nobody]

\* create(), or a session with Legacy steps left by a version that kept no
\* next_step_index: the scripts treat a missing counter and one that is below
\* step_count alike.
Init ==
  /\ meta = [NoMeta EXCEPT !.exists = TRUE, !.step_count = Legacy]
  /\ log = [i \in 1..Legacy |-> [index |-> i, key |-> Nobody, print |-> Nobody]]
  /\ refs = 1..Legacy
  /\ artifact = 1..Legacy
  /\ docs = {}
  /\ idem = [k \in Keys |-> NoItem]
  /\ lock = Nobody
  /\ req = [r \in Requests |-> NoReq]
  /\ late = {}

At(r, pc) == req[r].pc = pc

Moved(r, pc) == [req EXCEPT ![r].pc = pc]

\* The task ends, with the index of its step as its answer, or without one.
Answered(m, k, p, i) ==
  [NoReq EXCEPT !.pc = "ended", !.mode = m, !.key = k, !.print = p, !.answer = i]

Answers(r, i) == [req EXCEPT ![r] = Answered(req[r].mode, req[r].key, req[r].print, i)]

Ends(r) == [req EXCEPT ![r] = [NoReq EXCEPT !.pc = "ended"]]

MayWriteOwner(r) == lock = r

\* The guard every serialized write evaluates inside its script.
MayWrite(r) == meta.exists /\ lock = r

NextIndexFromCount == meta.step_count + 1

NextIndex == Max({meta.next_step_index, meta.step_count}) + 1

-----------------------------------------------------------------------------
(***************************************************************************)
(* Independent steps: reserve an index, work, commit.                      *)
(***************************************************************************)
Item(r) == idem[req[r].key]

Live(k) == idem[k].status = "pending" /\ idem[k].live

Pending == {k \in Keys : Live(k)}

Mine(r) == Item(r).status = "pending" /\ Item(r).token = r

\* The key already names a step with other parameters.
Conflict(k, p) == idem[k].status # "absent" /\ idem[k].print # p

Committed(k, p) == idem[k].status = "committed" /\ idem[k].print = p

BusyUnlessLocked(k) == Live(k) \/ Cardinality(Pending) >= MaxPending

\* A step of this key is executing, a serialized operation owns the session, or
\* the session has as many reservations as it may.
Busy(k) == Live(k) \/ lock # Nobody \/ Cardinality(Pending) >= MaxPending

\* step() with parallel set, up to reserve_step.  The session was looked up
\* before; what has become of it since is for the script to find out.  NextIndex
\* also repairs a counter that is behind step_count.
Reserve(r) ==
  \E k \in Keys, p \in Prints :
    /\ At(r, "new") /\ "parallel" \in Modes
    /\ \/ /\ ~meta.exists \/ Conflict(k, p) \/ (~Committed(k, p) /\ Busy(k))
          /\ req' = Ends(r)
          /\ UNCHANGED <<meta, idem>>
       \/ /\ meta.exists /\ Committed(k, p)
          /\ req' = [req EXCEPT ![r] = Answered("parallel", k, p, idem[k].result)]
          /\ UNCHANGED <<meta, idem>>
       \/ /\ meta.exists /\ ~Conflict(k, p) /\ ~Committed(k, p) /\ ~Busy(k)
          /\ meta' = [meta EXCEPT !.next_step_index = NextIndex]
          /\ idem' = [idem EXCEPT ![k] =
                        [status |-> "pending", token |-> r, index |-> NextIndex,
                         revision |-> meta.revision, live |-> TRUE, print |-> p]]
          /\ req' = [req EXCEPT ![r] = [NoReq EXCEPT !.pc = "working", !.mode = "parallel",
                                          !.key = k, !.print = p, !.index = NextIndex]]
    /\ UNCHANGED <<content, lock, late>>

\* The remote work ends.  Before the commit script is sent the client reads its
\* clock: fresh is what the script will find when it compares expires_at.
WorkEnds(r) ==
  /\ At(r, "working")
  /\ req' = [req EXCEPT ![r].pc = "committing", ![r].fresh = Mine(r) /\ Live(req[r].key)]
  /\ UNCHANGED <<meta, content, idem, lock, late>>

PublishableLate(r) == Mine(r)

\* The checks of commit_step on a reservation that is still pending.
Publishable(r) == Mine(r) /\ req[r].fresh /\ meta.revision >= Item(r).revision

\* commit_step: one script, and no look at the lock.
Commit(r) ==
  LET i == req[r].index IN
  /\ At(r, "committing")
  /\ \/ /\ \/ ~meta.exists
           \/ Conflict(req[r].key, req[r].print)
           \/ ~Committed(req[r].key, req[r].print) /\ ~Publishable(r)
        /\ req' = Moved(r, "releasing")
        /\ UNCHANGED <<meta, content, idem, late>>
     \/ /\ meta.exists /\ Committed(req[r].key, req[r].print)
        /\ req' = [req EXCEPT ![r].pc = "returning", ![r].answer = Item(r).result]
        /\ UNCHANGED <<meta, content, idem, late>>
     \/ /\ meta.exists /\ ~Conflict(req[r].key, req[r].print) /\ Publishable(r)
        /\ log' = Append(log, [index |-> i, key |-> req[r].key, print |-> req[r].print])
        /\ refs' = refs \cup {i}
        /\ artifact' = artifact \cup {i}
        /\ meta' = [meta EXCEPT !.step_count = @ + 1, !.revision = @ + 1]
        /\ idem' = [idem EXCEPT ![req[r].key] =
                      [status |-> "committed", result |-> i, print |-> req[r].print]]
        /\ late' = IF req[r].fresh /\ ~Live(req[r].key) THEN late \cup {i} ELSE late
        /\ req' = [req EXCEPT ![r].pc = "returning", ![r].answer = i]
        /\ UNCHANGED docs
  /\ UNCHANGED lock

Return(r) ==
  /\ At(r, "returning")
  /\ req' = Answers(r, req[r].answer)
  /\ UNCHANGED <<meta, content, idem, lock, late>>

ReleaseReservationOfAny(r) ==
  /\ At(r, "releasing")
  /\ idem' = [idem EXCEPT ![req[r].key] = NoItem]
  /\ req' = Ends(r)
  /\ UNCHANGED <<meta, content, lock, late>>

\* release_step: only this caller's pending reservation.
ReleaseReservation(r) ==
  /\ At(r, "releasing")
  /\ idem' = IF Mine(r) THEN [idem EXCEPT ![req[r].key] = NoItem] ELSE idem
  /\ req' = Ends(r)
  /\ UNCHANGED <<meta, content, lock, late>>

-----------------------------------------------------------------------------
(***************************************************************************)
(* Serialized operations: own the lock, refuse while reservations are      *)
(* pending, read, work, write.  Every write checks the owner in its script.*)
(***************************************************************************)
AfterCheck(m) ==
  CASE m = "detach" -> "removing"
    [] m = "root" -> "attaching"
    [] OTHER -> "reading"

\* What a request of mode m is about: a document, a run, or nothing.
Subjects(m) ==
  CASE m \in {"attach", "detach"} -> Docs
    [] m = "root" -> Runs
    [] OTHER -> {Nobody}

\* expected_revision: a revision the client may have been told.
Expectable(m) == IF m = "root" THEN 0..meta.research_attachment_revision ELSE {0}

\* SET NX EX, retried until the request's own deadline.
AcquireLock(r) ==
  \E m \in Modes \ {"parallel"} : \E d \in Subjects(m), e \in Expectable(m) :
    /\ At(r, "new")
    /\ \/ /\ lock = Nobody
          /\ lock' = r
          /\ req' = [req EXCEPT ![r] = [NoReq EXCEPT !.pc = "owning", !.mode = m,
                                                    !.doc = d, !.expected = e]]
       \/ lock # Nobody /\ lock' = lock /\ req' = Ends(r)
    /\ UNCHANGED <<meta, content, idem, late>>

\* has_pending_steps; an operation on documents or roots authorises the session
\* first.
CheckPending(r) ==
  /\ At(r, "owning")
  /\ req' = Moved(r, IF Pending # {} \/ (req[r].doc # Nobody /\ ~meta.exists)
                       THEN "unlocking" ELSE AfterCheck(req[r].mode))
  /\ UNCHANGED <<meta, content, idem, lock, late>>

OverQuotaBefore(saw, d) == Cardinality(saw \cap Docs) > MaxDocs

\* check_document_quota
OverQuota(saw, d) == Cardinality((saw \cap Docs) \cup {d}) > MaxDocs

\* Where the task goes once its reads are in: a document must be new (a repeated
\* one is answered as a duplicate) and within the quota, a query needs context.
AfterRead(q) ==
  IF q.sawRefs = <<>> \/ (q.mode = "query" /\ q.sawArtifact = <<>>) THEN "reading"
  ELSE CASE q.mode = "attach" ->
              IF q.doc \in q.sawRefs[2] \/ OverQuota(q.sawRefs[2], q.doc)
                THEN "unlocking" ELSE "adding"
         [] q.mode = "query" ->
              IF q.sawArtifact = <<{}>> /\ q.sawRefs = <<{}, {}>> THEN "unlocking" ELSE "gathered"
         [] OTHER -> "gathered"

Read(r, q) ==
  /\ At(r, "reading")
  /\ req' = [req EXCEPT ![r] = [q EXCEPT !.pc = AfterRead(q)]]
  /\ UNCHANGED <<meta, content, idem, lock, late>>

\* query reads the artifact and the references concurrently, deepen and a
\* document admission read the references.
ReadArtifact(r) ==
  /\ req[r].mode = "query" /\ req[r].sawArtifact = <<>>
  /\ Read(r, [req[r] EXCEPT !.sawArtifact = <<artifact>>])

ReadRefs(r) ==
  /\ req[r].sawRefs = <<>>
  /\ Read(r, [req[r] EXCEPT !.sawRefs = <<refs, docs>>])

\* A refused write raises; the operation ends through its finally clause.
Write(r, next) ==
  req' = Moved(r, IF MayWrite(r) THEN next ELSE "unlocking")

AppendStep(r) ==
  /\ At(r, "gathered")
  /\ IF MayWrite(r)
       THEN /\ meta' = [meta EXCEPT !.next_step_index = NextIndex, !.step_count = @ + 1]
            /\ log' = Append(log, [index |-> NextIndex, key |-> Nobody, print |-> Nobody])
            /\ req' = [req EXCEPT ![r].index = NextIndex,
                         ![r].pc = IF req[r].mode = "query" THEN "sectioning" ELSE "referring"]
       ELSE req' = Moved(r, "unlocking") /\ UNCHANGED <<meta, log>>
  /\ UNCHANGED <<refs, artifact, docs, idem, lock, late>>

AddRefs(r) ==
  /\ At(r, "referring")
  /\ Write(r, "sectioning")
  /\ refs' = IF MayWrite(r) THEN refs \cup {req[r].index} ELSE refs
  /\ UNCHANGED <<meta, log, artifact, docs, idem, lock, late>>

AppendArtifactUnchecked(r) ==
  /\ At(r, "sectioning")
  /\ req' = [req EXCEPT ![r].pc = "unlocking", ![r].answer = req[r].index]
  /\ artifact' = IF MayWrite(r) THEN artifact \cup {req[r].index} ELSE artifact
  /\ UNCHANGED <<meta, log, refs, docs, idem, lock, late>>

AppendArtifact(r) ==
  /\ At(r, "sectioning")
  /\ req' = [req EXCEPT ![r].pc = "unlocking",
                        ![r].answer = IF MayWrite(r) THEN req[r].index ELSE 0]
  /\ artifact' = IF MayWrite(r) THEN artifact \cup {req[r].index} ELSE artifact
  /\ UNCHANGED <<meta, log, refs, docs, idem, lock, late>>

\* aadd_ref of an admitted document.
AddDocument(r) ==
  /\ At(r, "adding")
  /\ docs' = IF MayWrite(r) THEN docs \cup {req[r].doc} ELSE docs
  /\ req' = Moved(r, "unlocking")
  /\ UNCHANGED <<meta, log, refs, artifact, idem, lock, late>>

RemoveDocument(r) ==
  /\ At(r, "removing")
  /\ docs' = IF MayWrite(r) THEN docs \ {req[r].doc} ELSE docs
  /\ req' = Moved(r, "unlocking")
  /\ UNCHANGED <<meta, log, refs, artifact, idem, lock, late>>

\* aattach_research.  A stale expected_revision is a conflict, the run attached
\* last is answered again, and a session with 256 references refuses (a failed
\* call, as far as the session is concerned: Cancel).
AttachResearch(r) ==
  /\ At(r, "attaching")
  /\ IF /\ MayWrite(r)
        /\ meta.research_attachment_revision = req[r].expected
        /\ meta.research_attachment_run # req[r].doc
       THEN /\ docs' = docs \cup {req[r].doc}
            /\ meta' = [meta EXCEPT !.research_attachment_revision = @ + 1,
                                    !.research_attachment_run = req[r].doc]
       ELSE UNCHANGED <<docs, meta>>
  /\ req' = Moved(r, "unlocking")
  /\ UNCHANGED <<log, refs, artifact, idem, lock, late>>

\* release_lock: compare and delete.
Unlock(r) ==
  /\ At(r, "unlocking")
  /\ lock' = IF lock = r THEN Nobody ELSE lock
  /\ req' = IF req[r].answer = 0 THEN Ends(r) ELSE Answers(r, req[r].answer)
  /\ UNCHANGED <<meta, content, idem, late>>

-----------------------------------------------------------------------------
(***************************************************************************)
(* Faults.  Remote work may fail, and a task may be cancelled: it first    *)
(* lets its store call finish, so the call took effect or not before the   *)
(* cleanup runs.  A store call whose reply is lost raises and ends the     *)
(* same way, unless it is the call that takes or returns the lock or the   *)
(* reservation (Raises).  A task whose process dies takes no more steps:   *)
(* no fairness is assumed, so every task may stop anywhere.                *)
(***************************************************************************)
Reserving == {"working", "committing", "returning"}

Owning == {"owning", "reading", "gathered", "referring", "sectioning",
           "adding", "removing", "attaching"}

CancelForgets(r) ==
  /\ req[r].pc \in Owning \cup Reserving
  /\ req' = IF req[r].pc \in Owning THEN Moved(r, "unlocking") ELSE Ends(r)
  /\ UNCHANGED <<meta, content, idem, lock, late>>

Cancel(r) ==
  /\ req[r].pc \in Owning \cup Reserving
  /\ req' = [req EXCEPT ![r].pc = IF req[r].pc \in Owning THEN "unlocking" ELSE "releasing",
                        ![r].answer = 0]
  /\ UNCHANGED <<meta, content, idem, lock, late>>

\* Store errors with no cleanup after them.  acquire_lock cleans up after a
\* cancellation only and step() after reserve_step likewise, so a SET or a
\* reservation that took effect but whose reply is still out is left when the
\* call raises; so is what a failed release_step or release_lock was to return (a
\* release_lock cancelled before it got a thread has the same effect).
Raises(r) ==
  /\ Cardinality({s \in Requests : At(s, "failed")}) < MaxRaises
  /\ req[r].pc \in {"owning", "working", "releasing", "unlocking"}
  /\ req' = [req EXCEPT ![r] = [NoReq EXCEPT !.pc = "failed"]]
  /\ UNCHANGED <<meta, content, idem, lock, late>>

\* The lock's TTL: the owner died, was not renewed in time, or never renews (a
\* document operation).
LockLapses ==
  /\ lock # Nobody
  /\ lock' = Nobody
  /\ UNCHANGED <<meta, content, idem, req, late>>

ReservationLapses(k) ==
  /\ Live(k)
  /\ idem' = [idem EXCEPT ![k].live = FALSE]
  /\ UNCHANGED <<meta, content, lock, req, late>>

\* DELETE removes every key.  The TTL of the session leaves the lock, which has
\* its own.  (A later reservation also refreshes the TTL of the idempotency hash
\* alone; once the meta hash is gone no script gets as far as reading it.)
Vanish(l) ==
  /\ meta.exists
  /\ meta' = NoMeta
  /\ log' = <<>> /\ refs' = {} /\ artifact' = {} /\ docs' = {}
  /\ idem' = [k \in Keys |-> NoItem]
  /\ lock' = l
  /\ late' = {}
  /\ UNCHANGED req

Delete == Vanish(Nobody)

Expire == Vanish(lock)

-----------------------------------------------------------------------------
Step(r) ==
  \/ Reserve(r) \/ WorkEnds(r) \/ Commit(r) \/ Return(r) \/ ReleaseReservation(r)
  \/ AcquireLock(r) \/ CheckPending(r) \/ ReadArtifact(r) \/ ReadRefs(r)
  \/ AppendStep(r) \/ AddRefs(r) \/ AppendArtifact(r)
  \/ AddDocument(r) \/ RemoveDocument(r) \/ AttachResearch(r) \/ Unlock(r)

Next ==
  \/ \E r \in Requests : Step(r) \/ Cancel(r) \/ Raises(r)
  \/ LockLapses
  \/ \E k \in Keys : ReservationLapses(k)
  \/ Delete \/ Expire

Spec == Init /\ [][Next]_vars

-----------------------------------------------------------------------------
Item_ == [status : {"absent"}]
         \cup [status : {"pending"}, token : Requests, index : Nat, revision : Nat,
                 live : BOOLEAN, print : Prints]
         \cup [status : {"committed"}, result : Nat, print : Prints]

\* Type correctness.
TypeOK ==
  /\ meta \in [exists : BOOLEAN, step_count : {Len(log)}, next_step_index : Nat, revision : Nat,
                research_attachment_revision : Nat, research_attachment_run : Runs \cup {Nobody}]
  /\ refs \subseteq Nat /\ artifact \subseteq Nat /\ docs \subseteq Docs \cup Runs
  /\ idem \in [Keys -> Item_]
  /\ lock \in Requests \cup {Nobody}

Indices == {log[i].index : i \in DOMAIN log}

(***************************************************************************)
(* A step index, and with it the namespace ref_<index>_<n> of citations,   *)
(* is given out once: no two published steps share one, and a reservation  *)
(* that may still be committed shares its index with nobody.  step_count,  *)
(* which HINCRBY maintains beside the list, is the number of steps in it.  *)
(***************************************************************************)
IndicesUnique ==
  /\ TypeOK
  /\ Cardinality(Indices) = Len(log)
  /\ \A k \in Keys : idem[k].status = "pending" =>
       /\ idem[k].index \notin Indices
       /\ \A j \in Keys \ {k} : idem[j].status = "pending" => idem[j].index # idem[k].index

(***************************************************************************)
(* An idempotency key is published at most once while the session lives,   *)
(* and every request answered for it got that one step, whichever worker   *)
(* did the work, and it is a step with the parameters it asked for.        *)
(***************************************************************************)
OneStepPerKey ==
  /\ \A i, j \in DOMAIN log : log[i].key = log[j].key /\ log[i].key # Nobody => i = j
  /\ meta.exists => \A r \in Requests :
       req[r].mode = "parallel" /\ req[r].answer # 0 =>
         \E i \in DOMAIN log :
           log[i] = [index |-> req[r].answer, key |-> req[r].key, print |-> req[r].print]

(***************************************************************************)
(* What a serialized operation read is still what the session holds, for   *)
(* as long as it owns the lock, so a query is never published over context *)
(* it has not seen.  The exceptions are commits whose client had read its  *)
(* clock before the reservation lapsed: they pass a lock they never check. *)
(* A session therefore never holds more documents than its quota, although *)
(* the quota is checked on a snapshot and the document added by a later    *)
(* call.                                                                   *)
(***************************************************************************)
OwnerReadsCurrent ==
  /\ \A r \in Requests : lock = r /\ meta.exists /\ req[r].pc \in Owning =>
       /\ req[r].sawArtifact # <<>> =>
            artifact \ req[r].sawArtifact[1] \subseteq late
       /\ req[r].sawRefs # <<>> =>
            /\ refs \ req[r].sawRefs[1] \subseteq late \cup {req[r].index}
            /\ docs = req[r].sawRefs[2]
  /\ Cardinality(docs \cap Docs) <= MaxDocs

(***************************************************************************)
(* A step answered as done is complete: it is in the history, its section  *)
(* is in the artifact and its references resolve.  (A failed serialized    *)
(* step may leave a part behind; ADR-0063 says so.)                        *)
(***************************************************************************)
AnsweredComplete ==
  meta.exists => \A r \in Requests : req[r].answer # 0 /\ At(r, "ended") =>
    /\ req[r].answer \in Indices \cap artifact
    /\ req[r].mode # "query" => req[r].answer \in refs

(***************************************************************************)
(* A request that ended, answered, refused, failed in its work or          *)
(* cancelled, holds neither the lock nor a reservation.  What makes others *)
(* wait for a lease is a dead worker, or one whose call to take or to      *)
(* return them raised (Raises): the code does not clean up after those.    *)
(* And nothing of a deleted or expired session is brought back by the late *)
(* write of a request that was at work on it.                              *)
(***************************************************************************)
NothingLeftBehind ==
  /\ \A r \in Requests : At(r, "ended") =>
       /\ lock # r
       /\ \A k \in Keys : idem[k].status = "pending" => idem[k].token # r
  /\ ~meta.exists => log = <<>> /\ refs = {} /\ artifact = {} /\ docs = {}
=============================================================================
