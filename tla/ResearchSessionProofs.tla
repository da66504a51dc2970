----------------------- MODULE ResearchSessionProofs -----------------------
(***************************************************************************)
(* Proofs about ResearchSession, for every number of requests, keys,       *)
(* documents and legacy steps.                                             *)
(*                                                                         *)
(* IInv relates four records the code keeps apart: the counters of the     *)
(* meta hash bound every index given out (Numbered), the idempotency hash  *)
(* names exactly the requests at work and the steps published (Reserved,   *)
(* KeysLogged), a task knows what it has written (Written), and the owner  *)
(* of the lock that saw no pending reservation knows that none is live     *)
(* (NoneLive), which is why only a commit that outlived its lease can      *)
(* change what it has read.                                                *)
(*                                                                         *)
(* The proof first reads every action as one of sixteen turns of a request *)
(* (Turns), by the fields it changes, and then goes through the conjuncts  *)
(* of IInv turn by turn.                                                   *)
(***************************************************************************)
EXTENDS ResearchSession, TLAPS

\* The types TypeOK leaves out.
Paths == Owning \cup Reserving \cup {"new", "releasing", "unlocking", "ended", "failed"}

Tasks == [pc : Paths, mode : AllModes \cup {"none"}, key : Keys \cup {Nobody},
          print : Prints \cup {Nobody}, doc : Docs \cup Runs \cup {Nobody}, expected : Nat,
          index : Nat, fresh : BOOLEAN, sawArtifact : Seq(SUBSET Nat),
          sawRefs : Seq(SUBSET (Nat \cup Docs \cup Runs)), answer : Nat]

Entries == [index : Nat, key : Keys \cup {Nobody}, print : Prints \cup {Nobody}]

Metas(n) ==
  [exists : BOOLEAN, step_count : {n}, next_step_index : Nat, revision : Nat,
   research_attachment_revision : Nat, research_attachment_run : Runs \cup {Nobody}]

Typed ==
  /\ TypeOK
  /\ log \in Seq(Entries)
  /\ req \in [Requests -> Tasks]
  /\ IsFiniteSet(docs)

\* A task by its place: the serialized ones have a mode of their own, the
\* independent ones a key, nobody has an answer before the step is published.
ShapedTask(q) ==
  /\ q.pc \in Owning \cup {"unlocking"} => q.mode # "parallel"
  /\ q.pc \in Owning => q.doc \in Subjects(q.mode)
  /\ q.pc \in Reserving \cup {"releasing"} =>
       q.mode = "parallel" /\ q.key \in Keys /\ q.print \in Prints
  /\ q.pc \in (Owning \cup Reserving \cup {"new", "releasing"}) \ {"returning"} => q.answer = 0
  /\ q.pc = "owning" => q.sawArtifact = <<>> /\ q.sawRefs = <<>>
  /\ q.pc = "adding" =>
       q.mode = "attach" /\ q.sawRefs # <<>> /\ ~OverQuota(q.sawRefs[2], q.doc)
  /\ q.pc = "attaching" => q.mode = "root"

Shaped == \A r \in Requests : ShapedTask(req[r])

\* The last index given out: either counter may be ahead.
High == Max({meta.next_step_index, meta.step_count})

\* No index was given out beyond the counters.
Bounded ==
  /\ \A i \in Indices : i <= High
  /\ \A k \in Keys : idem[k].status = "pending" => idem[k].index <= High

\* The task q has not finished with reservation i of key k, or its call raised.
Keeps(q, k, i) ==
  \/ q.pc = "failed"
  \/ /\ q.pc \in {"working", "committing", "releasing"}
     /\ q.key = k /\ q.index = i.index /\ q.print = i.print

\* A pending reservation is that of a request which has not finished with it.
Reserved ==
  \A k \in Keys : idem[k].status = "pending" => Keeps(req[idem[k].token], k, idem[k])

\* A step with this index, key and fingerprint is in the history h.
Logged(h, i, k, p) == \E j \in DOMAIN h : h[j] = [index |-> i, key |-> k, print |-> p]

\* The idempotency hash and the history agree on the steps published under keys.
KeysLogged ==
  /\ \A i \in DOMAIN log : log[i].key # Nobody =>
       log[i].key \in Keys /\ idem[log[i].key].status = "committed"
  /\ \A k \in Keys : idem[k].status = "committed" =>
       /\ Logged(log, idem[k].result, k, idem[k].print)
       /\ idem[k].result \in refs \cap artifact

\* Once it has seen that no reservation is pending, the owner of the lock knows
\* that none is live.
NoneLive ==
  \A r \in Requests : lock = r /\ req[r].pc \in Owning \ {"owning"} => \A k \in Keys : ~Live(k)

\* Until the owner writes references itself, it has seen all there are but the
\* late ones.
RefsSeen ==
  \A r \in Requests :
    /\ lock = r /\ meta.exists /\ req[r].pc \in Owning \ {"sectioning"}
    /\ req[r].sawRefs # <<>>
    => refs \ req[r].sawRefs[1] \subseteq late

\* What has been answered, or is being written, is in the history.
Written ==
  meta.exists => \A r \in Requests : LET q == req[r] IN
    /\ q.answer # 0 => /\ q.answer \in Indices \cap artifact
                       /\ q.mode # "query" => q.answer \in refs
    /\ q.pc \in {"referring", "sectioning"} => q.index \in Indices
    /\ q.pc = "sectioning" /\ q.mode # "query" => q.index \in refs

\* The owner of the lock is a request between its acquisition and its release, or
\* one whose acquisition or release raised.
Holds ==
  \A r \in Requests : lock = r => req[r].pc \in Owning \cup {"unlocking", "failed"}

\* Nothing is left of a session that is gone.
Gone == ~meta.exists => log = <<>> /\ refs = {} /\ artifact = {} /\ docs = {}

\* Every index names one step or one reservation, and the next is new.
Numbered == IndicesUnique /\ IsFiniteSet(Indices) /\ Bounded

IInv ==
  /\ Typed /\ Shaped /\ Reserved /\ Numbered /\ KeysLogged /\ OneStepPerKey
  /\ Holds /\ NoneLive /\ RefsSeen /\ OwnerReadsCurrent /\ Written /\ Gone

-----------------------------------------------------------------------------
(***************************************************************************)
(* What the actions do, field by field.  Only(r): no other task moves.     *)
(***************************************************************************)
Only(r) == req' \in [Requests -> Tasks] /\ \A o \in Requests \ {r} : req'[o] = req[o]

\* Nothing but tasks changes.
Still == UNCHANGED <<meta, content, idem, lock, late>>

\* r goes from one place to another and keeps everything but its answer.
Same(r) ==
  /\ req'[r].mode = req[r].mode /\ req'[r].key = req[r].key /\ req'[r].print = req[r].print
  /\ req'[r].doc = req[r].doc /\ req'[r].index = req[r].index
  /\ req'[r].sawArtifact = req[r].sawArtifact /\ req'[r].sawRefs = req[r].sawRefs

\* r ends with answer a.
Gives(r, m, k, p, a) ==
  /\ req'[r].pc = "ended" /\ req'[r].mode = m /\ req'[r].key = k /\ req'[r].print = p
  /\ req'[r].answer = a

\* A refusal at the door.
Quits(r) == At(r, "new") /\ Gives(r, "none", Nobody, Nobody, 0) /\ Still

\* The key was committed before.
Repeats(r) ==
  /\ At(r, "new") /\ Still
  /\ \E k \in Keys : idem[k].status = "committed" /\ Gives(r, "parallel", k, idem[k].print, idem[k].result)

Reserves(r) ==
  /\ At(r, "new") /\ meta.exists /\ lock = Nobody
  /\ \E k \in Keys, p \in Prints :
       /\ idem[k].status # "committed"
       /\ idem' = [idem EXCEPT ![k] = [status |-> "pending", token |-> r, index |-> NextIndex,
                                       revision |-> meta.revision, live |-> TRUE, print |-> p]]
       /\ req'[r].key = k /\ req'[r].print = p
  /\ meta' = [meta EXCEPT !.next_step_index = NextIndex]
  /\ req'[r].pc = "working" /\ req'[r].mode = "parallel" /\ req'[r].index = NextIndex
  /\ req'[r].answer = 0
  /\ UNCHANGED <<content, lock, late>>

\* Every step that only moves the task on, refused writes and Cancel included.
Advances(r) ==
  /\ Still /\ Same(r) /\ req'[r].answer = 0
  /\ \/ At(r, "working") /\ req'[r].pc = "committing"
     \/ req[r].pc \in Reserving /\ req'[r].pc = "releasing"
     \/ req[r].pc \in Owning /\ req'[r].pc = "unlocking"
     \/ At(r, "owning") /\ Pending = {} /\ req'[r].pc = AfterCheck(req[r].mode)

\* A call that took, or was to return, the lock or a reservation raises.
Breaks(r) ==
  /\ req[r].pc \in {"owning", "working", "releasing", "unlocking"} /\ Still
  /\ req'[r].pc = "failed" /\ req'[r].answer = 0

\* commit_step finds the step committed by another worker.
Collects(r) ==
  /\ At(r, "committing") /\ Still /\ Same(r)
  /\ Item(r).status = "committed" /\ Item(r).print = req[r].print
  /\ req'[r].pc = "returning" /\ req'[r].answer = Item(r).result

Publishes(r) ==
  /\ At(r, "committing") /\ meta.exists /\ Mine(r) /\ Item(r).print = req[r].print
  /\ log' = Append(log, [index |-> req[r].index, key |-> req[r].key, print |-> req[r].print])
  /\ refs' = refs \cup {req[r].index}
  /\ artifact' = artifact \cup {req[r].index}
  /\ meta' = [meta EXCEPT !.step_count = @ + 1, !.revision = @ + 1]
  /\ idem' = [idem EXCEPT ![req[r].key] =
                [status |-> "committed", result |-> req[r].index, print |-> req[r].print]]
  /\ ~Live(req[r].key) => late' = late \cup {req[r].index}
  /\ Live(req[r].key) => late' = late
  /\ Same(r) /\ req'[r].pc = "returning" /\ req'[r].answer = req[r].index
  /\ UNCHANGED <<docs, lock>>

Finishes(r) ==
  At(r, "returning") /\ Gives(r, req[r].mode, req[r].key, req[r].print, req[r].answer) /\ Still

Releases(r) ==
  /\ At(r, "releasing") /\ Gives(r, "none", Nobody, Nobody, 0)
  /\ \/ Mine(r) /\ idem' = [idem EXCEPT ![req[r].key] = NoItem]
     \/ ~Mine(r) /\ idem' = idem
  /\ UNCHANGED <<meta, content, lock, late>>

Locks(r) ==
  /\ At(r, "new") /\ lock = Nobody /\ lock' = r
  /\ req'[r].pc = "owning" /\ req'[r].mode \in AllModes \ {"parallel"}
  /\ req'[r].doc \in Subjects(req'[r].mode)
  /\ req'[r].sawArtifact = <<>> /\ req'[r].sawRefs = <<>> /\ req'[r].answer = 0
  /\ UNCHANGED <<meta, content, idem, late>>

Reads(r) ==
  /\ At(r, "reading") /\ Still
  /\ req'[r].mode = req[r].mode /\ req'[r].doc = req[r].doc /\ req'[r].index = req[r].index
  /\ req'[r].key = req[r].key /\ req'[r].print = req[r].print
  /\ req'[r].answer = req[r].answer
  /\ req'[r].sawArtifact \in {req[r].sawArtifact, <<artifact>>}
  /\ req'[r].sawRefs \in {req[r].sawRefs, <<refs, docs>>}
  /\ req'[r].pc \in {"reading", "unlocking", "adding", "gathered"}
  /\ req'[r].pc = "adding" =>
       /\ req[r].mode = "attach" /\ req'[r].sawRefs # <<>>
       /\ ~OverQuota(req'[r].sawRefs[2], req[r].doc)

Steps(r) ==
  /\ At(r, "gathered") /\ MayWrite(r)
  /\ meta' = [meta EXCEPT !.next_step_index = NextIndex, !.step_count = @ + 1]
  /\ log' = Append(log, [index |-> NextIndex, key |-> Nobody, print |-> Nobody])
  /\ req'[r].mode = req[r].mode /\ req'[r].doc = req[r].doc
  /\ req'[r].key = req[r].key /\ req'[r].print = req[r].print
  /\ req'[r].sawArtifact = req[r].sawArtifact /\ req'[r].sawRefs = req[r].sawRefs
  /\ req'[r].answer = req[r].answer /\ req'[r].index = NextIndex
  /\ \/ req[r].mode = "query" /\ req'[r].pc = "sectioning"
     \/ req[r].mode # "query" /\ req'[r].pc = "referring"
  /\ UNCHANGED <<refs, artifact, docs, idem, lock, late>>

Refers(r) ==
  /\ At(r, "referring") /\ MayWrite(r) /\ Same(r)
  /\ req'[r].pc = "sectioning" /\ req'[r].answer = req[r].answer
  /\ refs' = refs \cup {req[r].index}
  /\ UNCHANGED <<meta, log, artifact, docs, idem, lock, late>>

Sections(r) ==
  /\ At(r, "sectioning") /\ MayWrite(r) /\ Same(r)
  /\ req'[r].pc = "unlocking" /\ req'[r].answer = req[r].index
  /\ artifact' = artifact \cup {req[r].index}
  /\ UNCHANGED <<meta, log, refs, docs, idem, lock, late>>

Documents(r) ==
  /\ MayWrite(r) /\ Same(r) /\ req'[r].answer = req[r].answer /\ req'[r].pc = "unlocking"
  /\ \/ At(r, "adding") /\ docs' = docs \cup {req[r].doc}
     \/ At(r, "removing") /\ docs' = docs \ {req[r].doc}
     \/ At(r, "attaching") /\ docs' = docs \cup {req[r].doc}
  /\ meta'.exists = meta.exists /\ meta'.step_count = meta.step_count
  /\ meta'.next_step_index = meta.next_step_index /\ meta' \in Metas(Len(log))
  /\ UNCHANGED <<log, refs, artifact, idem, lock, late>>

Unlocks(r) ==
  /\ At(r, "unlocking") /\ req'[r].pc = "ended" /\ req'[r].answer = req[r].answer
  /\ req'[r].answer # 0 => req'[r].mode = req[r].mode
  /\ req'[r].mode = req[r].mode \/ req'[r].mode = "none"
  /\ lock' # r /\ lock' \in {lock, Nobody}
  /\ UNCHANGED <<meta, content, idem, late>>

Turn(r) ==
  \/ Quits(r) \/ Repeats(r) \/ Reserves(r) \/ Advances(r) \/ Collects(r) \/ Publishes(r)
  \/ Finishes(r) \/ Releases(r) \/ Locks(r) \/ Reads(r) \/ Steps(r) \/ Refers(r)
  \/ Sections(r) \/ Documents(r) \/ Unlocks(r) \/ Breaks(r)

-----------------------------------------------------------------------------
LEMMA MaxOfTwo ==
  ASSUME NEW a \in Nat, NEW b \in Nat
  PROVE  /\ Max({a, b}) \in Nat
         /\ Max({a, b}) >= a /\ Max({a, b}) >= b
         /\ Max({a, b}) = a \/ Max({a, b}) = b
<1>1. \E x \in {a, b} : \A y \in {a, b} : x >= y
  <2>1. CASE a >= b BY <2>1
  <2>2. CASE b >= a BY <2>2
  <2> QED BY <2>1, <2>2
<1>2. Max({a, b}) \in {a, b} /\ \A y \in {a, b} : Max({a, b}) >= y
  BY Zenon, <1>1 DEF Max
<1> QED BY Zenon, <1>2

LEMMA Counters ==
  ASSUME Typed
  PROVE  /\ High \in Nat /\ NextIndex = High + 1 /\ NextIndex \in Nat
         /\ Len(log) <= High /\ meta.next_step_index <= High
         /\ High = Len(log) \/ High = meta.next_step_index
<1>1. meta.next_step_index \in Nat /\ meta.step_count = Len(log) /\ Len(log) \in Nat
  BY DEF Typed, TypeOK
<1>2. High \in Nat /\ High >= meta.next_step_index /\ High >= meta.step_count
      /\ (High = meta.next_step_index \/ High = meta.step_count)
  BY Zenon, <1>1, MaxOfTwo DEF High
<1> QED BY <1>1, <1>2 DEF High, NextIndex

LEMMA TaskSet ==
  ASSUME Typed, NEW r \in Requests, NEW q \in Tasks, req' = [req EXCEPT ![r] = q]
  PROVE  Only(r) /\ req'[r] = q
BY Zenon DEF Typed, Only

LEMMA EndsTask ==
  ASSUME Typed, NEW r \in Requests, req' = Ends(r)
  PROVE  Only(r) /\ Gives(r, "none", Nobody, Nobody, 0)
<1> DEFINE q == [NoReq EXCEPT !.pc = "ended"]
<1>1. q \in Tasks
  <2>1. <<>> \in Seq(SUBSET Nat) /\ <<>> \in Seq(SUBSET (Nat \cup Docs \cup Runs))
    OBVIOUS
  <2> QED BY Zenon, <2>1 DEF NoReq, Tasks, Paths
<1>2. q.pc = "ended" /\ q.mode = "none" /\ q.key = Nobody /\ q.print = Nobody /\ q.answer = 0
  BY Zenon DEF NoReq
<1>3. req' = [req EXCEPT ![r] = q]
  BY Zenon DEF Ends
<1> HIDE DEF q
<1> QED BY Zenon, <1>1, <1>2, <1>3, TaskSet DEF Gives

LEMMA AnsweredTask ==
  ASSUME Typed, NEW r \in Requests, NEW m \in AllModes \cup {"none"}, NEW k \in Keys \cup {Nobody},
         NEW p \in Prints \cup {Nobody}, NEW a \in Nat,
         req' = [req EXCEPT ![r] = Answered(m, k, p, a)]
  PROVE  Only(r) /\ Gives(r, m, k, p, a)
<1> DEFINE q == Answered(m, k, p, a)
<1>1. q \in Tasks
  <2>1. <<>> \in Seq(SUBSET Nat) /\ <<>> \in Seq(SUBSET (Nat \cup Docs \cup Runs))
    OBVIOUS
  <2> QED BY Zenon, <2>1 DEF NoReq, Tasks, Paths, Answered
<1>2. q.pc = "ended" /\ q.mode = m /\ q.key = k /\ q.print = p /\ q.answer = a
  BY Zenon DEF NoReq, Answered
<1>3. req' = [req EXCEPT ![r] = q]
  BY Zenon
<1> HIDE DEF q
<1> QED BY Zenon, <1>1, <1>2, <1>3, TaskSet DEF Gives

\* A task that goes to pc, with its answer set.
LEMMA MovesTask ==
  ASSUME Typed, NEW r \in Requests, NEW pc \in Paths, NEW a \in Nat,
         req' = [req EXCEPT ![r].pc = pc, ![r].answer = a]
  PROVE  Only(r) /\ Same(r) /\ req'[r].pc = pc /\ req'[r].answer = a
<1> DEFINE q == [req[r] EXCEPT !.pc = pc, !.answer = a]
<1>1. req[r] \in Tasks
  BY Zenon DEF Typed
<1>2. q \in Tasks
  BY Zenon, <1>1 DEF Tasks
<1>3. /\ q.pc = pc /\ q.answer = a /\ q.mode = req[r].mode /\ q.key = req[r].key
      /\ q.print = req[r].print /\ q.doc = req[r].doc /\ q.index = req[r].index
      /\ q.sawArtifact = req[r].sawArtifact /\ q.sawRefs = req[r].sawRefs
  BY Zenon, <1>1 DEF Tasks
<1>4. req' = [req EXCEPT ![r] = q]
  BY Zenon
<1> HIDE DEF q
<1> QED BY Zenon, <1>2, <1>3, <1>4, TaskSet DEF Same

LEMMA MovedTask ==
  ASSUME Typed, NEW r \in Requests, NEW pc \in Paths, req' = Moved(r, pc)
  PROVE  Only(r) /\ Same(r) /\ req'[r].pc = pc /\ req'[r].answer = req[r].answer
<1> DEFINE q == [req[r] EXCEPT !.pc = pc]
<1>1. req[r] \in Tasks
  BY Zenon DEF Typed
<1>2. q \in Tasks
  BY Zenon, <1>1 DEF Tasks
<1>3. /\ q.pc = pc /\ q.answer = req[r].answer /\ q.mode = req[r].mode /\ q.key = req[r].key
      /\ q.print = req[r].print /\ q.doc = req[r].doc /\ q.index = req[r].index
      /\ q.sawArtifact = req[r].sawArtifact /\ q.sawRefs = req[r].sawRefs
  BY Zenon, <1>1 DEF Tasks
<1>4. req' = [req EXCEPT ![r] = q]
  BY Zenon DEF Moved
<1> HIDE DEF q
<1> QED BY Zenon, <1>2, <1>3, <1>4, TaskSet DEF Same

-----------------------------------------------------------------------------
(***************************************************************************)
(* Every action is one of the turns.                                       *)
(***************************************************************************)
LEMMA ItemTypes ==
  ASSUME Typed, NEW k \in Keys
  PROVE  /\ idem[k].status \in {"absent", "pending", "committed"}
         /\ idem[k].status = "absent" => idem[k] = NoItem
         /\ idem[k].status = "pending" =>
              idem[k] \in [status : {"pending"}, token : Requests, index : Nat, revision : Nat,
                             live : BOOLEAN, print : Prints]
         /\ idem[k].status = "committed" =>
              idem[k] \in [status : {"committed"}, result : Nat, print : Prints]
<1>1. idem[k] \in Item_
  BY Zenon DEF Typed, TypeOK
<1> QED BY Zenon, <1>1 DEF Item_, NoItem

LEMMA ReserveTurn ==
  ASSUME SessionConstants, Typed, NEW r \in Requests, Reserve(r)
  PROVE  Only(r) /\ (Quits(r) \/ Repeats(r) \/ Reserves(r))
<1> PICK k \in Keys, p \in Prints :
      /\ At(r, "new") /\ "parallel" \in Modes
      /\ \/ /\ ~meta.exists \/ Conflict(k, p) \/ (~Committed(k, p) /\ Busy(k))
            /\ req' = Ends(r)
            /\ UNCHANGED <<meta, idem>>
         \/ /\ meta.exists /\ Committed(k, p)
            /\ req' = [req EXCEPT ![r] = Answered("parallel", k, p, idem[k].result)]
            /\ UNCHANGED <<meta, idem>>
         \/ /\ meta.exists /\ ~Conflict(k, p) /\ ~Committed(k, p) /\ ~Busy(k)
            /\ meta' = [meta EXCEPT !.next_step_index = NextIndex]
            /\ idem' = [idem EXCEPT ![k] =
                          [status |-> "pending", token |-> r, index |-> NextIndex,
                           revision |-> meta.revision, live |-> TRUE, print |-> p]]
            /\ req' = [req EXCEPT ![r] = [NoReq EXCEPT !.pc = "working", !.mode = "parallel",
                                            !.key = k, !.print = p, !.index = NextIndex]]
      /\ UNCHANGED <<content, lock, late>>
  BY Zenon DEF Reserve
<1>1. CASE /\ req' = Ends(r)
           /\ UNCHANGED <<meta, idem>>
  BY Zenon, <1>1, EndsTask DEF Quits, Still
<1>2. CASE /\ meta.exists /\ Committed(k, p)
           /\ req' = [req EXCEPT ![r] = Answered("parallel", k, p, idem[k].result)]
           /\ UNCHANGED <<meta, idem>>
  <2>1. idem[k].status = "committed" /\ idem[k].print = p /\ idem[k].result \in Nat
    BY Zenon, <1>2, ItemTypes DEF Committed
  <2>2. Only(r) /\ Gives(r, "parallel", k, p, idem[k].result)
    BY Zenon, <1>2, <2>1, AnsweredTask DEF AllModes
  <2> QED BY Zenon, <1>2, <2>1, <2>2 DEF Repeats, Still
<1>3. CASE /\ meta.exists /\ ~Conflict(k, p) /\ ~Committed(k, p) /\ ~Busy(k)
           /\ meta' = [meta EXCEPT !.next_step_index = NextIndex]
           /\ idem' = [idem EXCEPT ![k] =
                         [status |-> "pending", token |-> r, index |-> NextIndex,
                          revision |-> meta.revision, live |-> TRUE, print |-> p]]
           /\ req' = [req EXCEPT ![r] = [NoReq EXCEPT !.pc = "working", !.mode = "parallel",
                                           !.key = k, !.print = p, !.index = NextIndex]]
  <2> DEFINE q == [NoReq EXCEPT !.pc = "working", !.mode = "parallel",
                                !.key = k, !.print = p, !.index = NextIndex]
  <2>1. q \in Tasks
    <3>1. <<>> \in Seq(SUBSET Nat) /\ <<>> \in Seq(SUBSET (Nat \cup Docs \cup Runs))
      OBVIOUS
    <3>2. NextIndex \in Nat
      BY Zenon, Counters
    <3> QED BY Zenon, <3>1, <3>2 DEF NoReq, Tasks, Paths, Reserving, AllModes
  <2>2. /\ q.pc = "working" /\ q.mode = "parallel" /\ q.key = k /\ q.print = p
        /\ q.index = NextIndex /\ q.answer = 0
    BY Zenon DEF NoReq
  <2>3. req' = [req EXCEPT ![r] = q]
    BY Zenon, <1>3
  <2> HIDE DEF q
  <2>4. Only(r) /\ req'[r] = q
    BY Zenon, <2>1, <2>3, TaskSet
  <2>5. lock = Nobody
    BY Zenon, <1>3 DEF Busy
  <2>6. idem[k].status # "committed"
    BY Zenon, <1>3 DEF Conflict, Committed
  <2>7. Reserves(r)
    BY <1>3, <2>2, <2>4, <2>5, <2>6, Zenon DEF Reserves
  <2> QED BY Zenon, <2>4, <2>7
<1> QED BY Zenon, <1>1, <1>2, <1>3

LEMMA WorkEndsTurn ==
  ASSUME Typed, Shaped, NEW r \in Requests, WorkEnds(r)
  PROVE  Only(r) /\ Advances(r)
<1> DEFINE f == Mine(r) /\ Live(req[r].key)
           q == [req[r] EXCEPT !.pc = "committing", !.fresh = f]
<1>1. req[r] \in Tasks
  BY Zenon DEF Typed
<1>2. f \in BOOLEAN
  BY Zenon DEF Mine, Live
<1>3. req' = [req EXCEPT ![r] = q]
  BY Zenon, <1>1 DEF WorkEnds
<1> HIDE DEF f
<1>4. q \in Tasks
  BY Zenon, <1>1, <1>2 DEF Tasks, Paths, Reserving
<1>5. /\ q.pc = "committing" /\ q.answer = req[r].answer /\ q.mode = req[r].mode
      /\ q.key = req[r].key /\ q.print = req[r].print /\ q.doc = req[r].doc
      /\ q.index = req[r].index /\ q.sawArtifact = req[r].sawArtifact
      /\ q.sawRefs = req[r].sawRefs
  BY Zenon, <1>1 DEF Tasks
<1>6. At(r, "working") /\ Still
  BY Zenon DEF WorkEnds, Still
<1>7. req[r].answer = 0
  BY Zenon, <1>6 DEF Shaped, ShapedTask, At, Reserving
<1> HIDE DEF q
<1> QED BY Zenon, <1>3, <1>4, <1>5, <1>6, <1>7, TaskSet DEF Same, Advances

LEMMA CommitTurn ==
  ASSUME Typed, Shaped, NEW r \in Requests, Commit(r)
  PROVE  Only(r) /\ (Advances(r) \/ Collects(r) \/ Publishes(r))
<1>1. /\ At(r, "committing") /\ req[r].answer = 0 /\ req[r].key \in Keys
      /\ UNCHANGED lock
  BY Zenon DEF Commit, Shaped, ShapedTask, At, Reserving
<1>2. CASE /\ req' = Moved(r, "releasing")
           /\ UNCHANGED <<meta, content, idem, late>>
  <2>1. Only(r) /\ Same(r) /\ req'[r].pc = "releasing" /\ req'[r].answer = 0
    BY Zenon, <1>1, <1>2, MovedTask DEF Paths
  <2> QED BY Zenon, <1>1, <1>2, <2>1 DEF Advances, Still, At, Reserving
<1>3. CASE /\ meta.exists /\ Committed(req[r].key, req[r].print)
           /\ req' = [req EXCEPT ![r].pc = "returning", ![r].answer = Item(r).result]
           /\ UNCHANGED <<meta, content, idem, late>>
  <2>1. Item(r).status = "committed" /\ Item(r).print = req[r].print /\ Item(r).result \in Nat
    BY Zenon, <1>1, <1>3, ItemTypes DEF Committed, Item
  <2>2. /\ Only(r) /\ Same(r) /\ req'[r].pc = "returning" /\ req'[r].answer = Item(r).result
    BY Zenon, <1>3, <2>1, MovesTask DEF Paths, Reserving
  <2> QED BY Zenon, <1>1, <1>3, <2>1, <2>2 DEF Collects, Still
<1>4. CASE /\ meta.exists /\ ~Conflict(req[r].key, req[r].print) /\ Publishable(r)
           /\ log' = Append(log, [index |-> req[r].index, key |-> req[r].key, print |-> req[r].print])
           /\ refs' = refs \cup {req[r].index}
           /\ artifact' = artifact \cup {req[r].index}
           /\ meta' = [meta EXCEPT !.step_count = @ + 1, !.revision = @ + 1]
           /\ idem' = [idem EXCEPT ![req[r].key] =
                         [status |-> "committed", result |-> req[r].index, print |-> req[r].print]]
           /\ late' = IF req[r].fresh /\ ~Live(req[r].key) THEN late \cup {req[r].index} ELSE late
           /\ req' = [req EXCEPT ![r].pc = "returning", ![r].answer = req[r].index]
           /\ UNCHANGED docs
  <2>1. Mine(r) /\ Item(r).print = req[r].print /\ req[r].fresh
    BY Zenon, <1>4 DEF Publishable, Conflict, Mine, Item
  <2>2. req[r].index \in Nat
    BY Zenon DEF Typed, Tasks
  <2>3. /\ Only(r) /\ Same(r) /\ req'[r].pc = "returning" /\ req'[r].answer = req[r].index
    BY Zenon, <1>4, <2>2, MovesTask DEF Paths, Reserving
  <2>4. /\ ~Live(req[r].key) => late' = late \cup {req[r].index}
        /\ Live(req[r].key) => late' = late
    BY Zenon, <1>4, <2>1
  <2>5. Publishes(r)
    BY <1>1, <1>4, <2>1, <2>3, <2>4, Zenon DEF Publishes
  <2> QED BY Zenon, <2>3, <2>5
<1> QED BY <1>2, <1>3, <1>4, Zenon DEF Commit

LEMMA ReturnTurn ==
  ASSUME Typed, NEW r \in Requests, Return(r)
  PROVE  Only(r) /\ Finishes(r)
<1>1. /\ req[r].mode \in AllModes \cup {"none"} /\ req[r].key \in Keys \cup {Nobody}
      /\ req[r].print \in Prints \cup {Nobody} /\ req[r].answer \in Nat
  BY Zenon DEF Typed, Tasks
<1>2. /\ At(r, "returning") /\ Still
      /\ req' = [req EXCEPT ![r] = Answered(req[r].mode, req[r].key, req[r].print, req[r].answer)]
  BY Zenon DEF Return, Answers, Still
<1> QED BY Zenon, <1>1, <1>2, AnsweredTask DEF Finishes

LEMMA ReleaseTurn ==
  ASSUME Typed, NEW r \in Requests, ReleaseReservation(r)
  PROVE  Only(r) /\ Releases(r)
BY Zenon, EndsTask DEF ReleaseReservation, Releases

LEMMA AcquireTurn ==
  ASSUME SessionConstants, Typed, NEW r \in Requests, AcquireLock(r)
  PROVE  Only(r) /\ (Quits(r) \/ Locks(r))
<1> PICK m \in Modes \ {"parallel"} : \E d \in Subjects(m), e \in Expectable(m) :
      /\ At(r, "new")
      /\ \/ /\ lock = Nobody
            /\ lock' = r
            /\ req' = [req EXCEPT ![r] = [NoReq EXCEPT !.pc = "owning", !.mode = m,
                                                      !.doc = d, !.expected = e]]
         \/ lock # Nobody /\ lock' = lock /\ req' = Ends(r)
      /\ UNCHANGED <<meta, content, idem, late>>
  BY Zenon DEF AcquireLock
<1> PICK d \in Subjects(m), e \in Expectable(m) :
      /\ At(r, "new")
      /\ \/ /\ lock = Nobody
            /\ lock' = r
            /\ req' = [req EXCEPT ![r] = [NoReq EXCEPT !.pc = "owning", !.mode = m,
                                                      !.doc = d, !.expected = e]]
         \/ lock # Nobody /\ lock' = lock /\ req' = Ends(r)
      /\ UNCHANGED <<meta, content, idem, late>>
  BY Zenon
<1>1. CASE lock # Nobody /\ lock' = lock /\ req' = Ends(r)
  BY Zenon, <1>1, EndsTask DEF Quits, Still
<1>2. CASE /\ lock = Nobody
           /\ lock' = r
           /\ req' = [req EXCEPT ![r] = [NoReq EXCEPT !.pc = "owning", !.mode = m,
                                                     !.doc = d, !.expected = e]]
  <2> DEFINE q == [NoReq EXCEPT !.pc = "owning", !.mode = m, !.doc = d, !.expected = e]
  <2>1. m \in AllModes \ {"parallel"} /\ d \in Docs \cup Runs \cup {Nobody} /\ e \in Nat
    <3>1. meta.research_attachment_revision \in Nat
      BY Zenon DEF Typed, TypeOK
    <3>2. e \in Nat
      BY <3>1 DEF Expectable
    <3> QED BY Zenon, <3>2 DEF SessionConstants, Subjects
  <2>2. q \in Tasks
    <3>1. <<>> \in Seq(SUBSET Nat) /\ <<>> \in Seq(SUBSET (Nat \cup Docs \cup Runs))
      OBVIOUS
    <3> QED BY Zenon, <2>1, <3>1 DEF NoReq, Tasks, Paths, Owning
  <2>3. /\ q.pc = "owning" /\ q.mode = m /\ q.doc = d /\ q.sawArtifact = <<>>
        /\ q.sawRefs = <<>> /\ q.answer = 0
    BY Zenon DEF NoReq
  <2>4. req' = [req EXCEPT ![r] = q]
    BY Zenon, <1>2
  <2> HIDE DEF q
  <2>5. Only(r) /\ req'[r] = q
    BY Zenon, <2>2, <2>4, TaskSet
  <2>6. Locks(r)
    BY Zenon, <1>2, <2>1, <2>3, <2>5 DEF Locks
  <2> QED BY Zenon, <2>5, <2>6
<1> QED BY Zenon, <1>1, <1>2

LEMMA CheckTurn ==
  ASSUME Typed, Shaped, NEW r \in Requests, CheckPending(r)
  PROVE  Only(r) /\ Advances(r)
<1> DEFINE pc == IF Pending # {} \/ (req[r].doc # Nobody /\ ~meta.exists)
                   THEN "unlocking" ELSE AfterCheck(req[r].mode)
<1>1. At(r, "owning") /\ Still /\ req' = Moved(r, pc) /\ req[r].pc \in Owning
  BY Zenon DEF CheckPending, Still, Owning, At
<1>2. req[r].answer = 0
  BY Zenon, <1>1 DEF Shaped, ShapedTask, At, Reserving
<1>3. pc \in Paths
  BY Zenon DEF Paths, AfterCheck, Owning
<1>4. pc = "unlocking" \/ (Pending = {} /\ pc = AfterCheck(req[r].mode))
  BY Zenon
<1> HIDE DEF pc
<1> QED BY Zenon, <1>1, <1>2, <1>3, <1>4, MovedTask DEF Advances

LEMMA ReadTurn ==
  ASSUME Typed, NEW r \in Requests, ReadArtifact(r) \/ ReadRefs(r)
  PROVE  Only(r) /\ Reads(r)
<1>1. PICK q : /\ Read(r, q)
               /\ \/ q = [req[r] EXCEPT !.sawArtifact = <<artifact>>]
                  \/ q = [req[r] EXCEPT !.sawRefs = <<refs, docs>>]
  BY Zenon DEF ReadArtifact, ReadRefs
<1>2. req[r] \in Tasks
  BY Zenon DEF Typed
<1>3. <<artifact>> \in Seq(SUBSET Nat) /\ <<refs, docs>> \in Seq(SUBSET (Nat \cup Docs \cup Runs))
  <2>1. artifact \in SUBSET Nat /\ refs \in SUBSET (Nat \cup Docs \cup Runs)
        /\ docs \in SUBSET (Nat \cup Docs \cup Runs)
    BY Zenon DEF Typed, TypeOK
  <2> QED BY <2>1
<1>4. /\ q \in Tasks
      /\ q.mode = req[r].mode /\ q.doc = req[r].doc /\ q.index = req[r].index
      /\ q.key = req[r].key /\ q.print = req[r].print /\ q.answer = req[r].answer
      /\ q.sawArtifact \in {req[r].sawArtifact, <<artifact>>}
      /\ q.sawRefs \in {req[r].sawRefs, <<refs, docs>>}
  <2>1. CASE q = [req[r] EXCEPT !.sawArtifact = <<artifact>>]
    BY Zenon, <1>2, <1>3, <2>1 DEF Tasks
  <2>2. CASE q = [req[r] EXCEPT !.sawRefs = <<refs, docs>>]
    BY Zenon, <1>2, <1>3, <2>2 DEF Tasks
  <2> QED BY Zenon, <1>1, <2>1, <2>2
<1>5. /\ AfterRead(q) \in {"reading", "unlocking", "adding", "gathered"}
      /\ AfterRead(q) = "adding" =>
           q.mode = "attach" /\ q.sawRefs # <<>> /\ ~OverQuota(q.sawRefs[2], q.doc)
  <2> DEFINE None == q.sawRefs = <<>> \/ (q.mode = "query" /\ q.sawArtifact = <<>>)
             Over == q.doc \in q.sawRefs[2] \/ OverQuota(q.sawRefs[2], q.doc)
             Bare == q.sawArtifact = <<{}>> /\ q.sawRefs = <<{}, {}>>
  <2>1. AfterRead(q) = IF None THEN "reading"
                       ELSE CASE q.mode = "attach" -> IF Over THEN "unlocking" ELSE "adding"
                              [] q.mode = "query" -> IF Bare THEN "unlocking" ELSE "gathered"
                              [] OTHER -> "gathered"
    BY ONLY Zenon DEF AfterRead
  <2>2. ~None => q.sawRefs # <<>>
    BY Zenon
  <2>3. ~Over => ~OverQuota(q.sawRefs[2], q.doc)
    BY Zenon
  <2> HIDE DEF None, Over, Bare
  <2>4. CASE None
    BY ONLY Zenon, <2>1, <2>4
  <2>5. CASE ~None
    BY ONLY Zenon, <2>1, <2>2, <2>3, <2>5
  <2> QED BY Zenon, <2>4, <2>5
<1> DEFINE w == [q EXCEPT !.pc = AfterRead(q)]
<1>6. /\ w \in Tasks /\ w.pc = AfterRead(q)
      /\ w.mode = q.mode /\ w.doc = q.doc /\ w.index = q.index
      /\ w.key = q.key /\ w.print = q.print /\ w.answer = q.answer
      /\ w.sawArtifact = q.sawArtifact /\ w.sawRefs = q.sawRefs
  <2>1. AfterRead(q) \in Paths
    BY Zenon, <1>5 DEF Paths, Owning
  <2> HIDE <1>1
  <2> QED BY ONLY Zenon, <1>4, <2>1 DEF Tasks
<1>7. At(r, "reading") /\ Still /\ req' = [req EXCEPT ![r] = w]
  BY Zenon, <1>1 DEF Read, Still
<1> HIDE DEF w
<1>8. Only(r) /\ req'[r] = w
  BY Zenon, <1>6, <1>7, TaskSet
<1>9. Reads(r)
  BY ONLY Zenon, <1>4, <1>5, <1>6, <1>7, <1>8 DEF Reads
<1> QED BY Zenon, <1>8, <1>9

\* A write of a serialized operation that is refused only moves the task on.
LEMMA RefusedTurn ==
  ASSUME Typed, Shaped, NEW r \in Requests, req[r].pc \in Owning, Still,
         req' = Moved(r, "unlocking")
  PROVE  Only(r) /\ Advances(r)
<1>1. req[r].answer = 0
  BY Zenon DEF Shaped, ShapedTask, Owning, Reserving
<1> QED BY Zenon, <1>1, MovedTask DEF Advances, Paths

LEMMA AppendStepTurn ==
  ASSUME Typed, Shaped, NEW r \in Requests, AppendStep(r)
  PROVE  Only(r) /\ (Advances(r) \/ Steps(r))
<1>1. At(r, "gathered") /\ req[r].pc \in Owning
  BY Zenon DEF AppendStep, At, Owning
<1>2. CASE ~MayWrite(r)
  BY Zenon, <1>1, <1>2, RefusedTurn DEF AppendStep, Still, content
<1>3. CASE MayWrite(r)
  <2> DEFINE pc == IF req[r].mode = "query" THEN "sectioning" ELSE "referring"
             q == [req[r] EXCEPT !.index = NextIndex, !.pc = pc]
  <2>1. req[r] \in Tasks /\ NextIndex \in Nat
    BY Zenon, Counters DEF Typed
  <2>2. pc \in Paths /\ \/ req[r].mode = "query" /\ pc = "sectioning"
                        \/ req[r].mode # "query" /\ pc = "referring"
    BY Zenon DEF Paths, Owning
  <2>3. req' = [req EXCEPT ![r] = q]
    BY Zenon, <1>3 DEF AppendStep
  <2> HIDE DEF pc
  <2>4. /\ q \in Tasks /\ q.pc = pc /\ q.index = NextIndex
        /\ q.mode = req[r].mode /\ q.doc = req[r].doc
        /\ q.key = req[r].key /\ q.print = req[r].print
        /\ q.sawArtifact = req[r].sawArtifact /\ q.sawRefs = req[r].sawRefs
        /\ q.answer = req[r].answer
    BY ONLY Zenon, <2>1, <2>2 DEF Tasks
  <2> HIDE DEF q
  <2>5. Only(r) /\ req'[r] = q
    BY Zenon, <2>3, <2>4, TaskSet
  <2>6. /\ meta' = [meta EXCEPT !.next_step_index = NextIndex, !.step_count = @ + 1]
        /\ log' = Append(log, [index |-> NextIndex, key |-> Nobody, print |-> Nobody])
        /\ UNCHANGED <<refs, artifact, docs, idem, lock, late>>
    BY Zenon, <1>3 DEF AppendStep
  <2>7. Steps(r)
    BY ONLY Zenon, <1>1, <1>3, <2>2, <2>4, <2>5, <2>6 DEF Steps
  <2> QED BY Zenon, <2>5, <2>7
<1> QED BY Zenon, <1>2, <1>3

LEMMA AddRefsTurn ==
  ASSUME Typed, Shaped, NEW r \in Requests, AddRefs(r)
  PROVE  Only(r) /\ (Advances(r) \/ Refers(r))
<1>1. At(r, "referring") /\ req[r].pc \in Owning
  BY Zenon DEF AddRefs, At, Owning
<1>2. CASE ~MayWrite(r)
  BY Zenon, <1>1, <1>2, RefusedTurn DEF AddRefs, Write, Still, content
<1>3. CASE MayWrite(r)
  <2>1. req' = Moved(r, "sectioning")
    BY Zenon, <1>3 DEF AddRefs, Write
  <2>2. Only(r) /\ Same(r) /\ req'[r].pc = "sectioning" /\ req'[r].answer = req[r].answer
    BY Zenon, <2>1, MovedTask DEF Paths, Owning
  <2> QED BY Zenon, <1>1, <1>3, <2>2 DEF AddRefs, Refers
<1> QED BY <1>2, <1>3

LEMMA AppendArtifactTurn ==
  ASSUME Typed, Shaped, NEW r \in Requests, AppendArtifact(r)
  PROVE  Only(r) /\ (Advances(r) \/ Sections(r))
<1> DEFINE a == IF MayWrite(r) THEN req[r].index ELSE 0
<1>1. At(r, "sectioning") /\ req[r].pc \in Owning /\ req[r].index \in Nat
  BY Zenon DEF AppendArtifact, At, Owning, Typed, Tasks
<1>2. req' = [req EXCEPT ![r].pc = "unlocking", ![r].answer = a]
  BY Zenon DEF AppendArtifact
<1>3. a \in Nat
  BY Zenon, <1>1
<1>4. (MayWrite(r) => a = req[r].index) /\ (~MayWrite(r) => a = 0)
  BY Zenon
<1> HIDE DEF a
<1>5. Only(r) /\ Same(r) /\ req'[r].pc = "unlocking" /\ req'[r].answer = a
  BY Zenon, <1>2, <1>3, MovesTask DEF Paths
<1> QED BY Zenon, <1>1, <1>4, <1>5 DEF AppendArtifact, Advances, Sections, Still, content

LEMMA DocumentTurn ==
  ASSUME Typed, Shaped, NEW r \in Requests,
         AddDocument(r) \/ RemoveDocument(r) \/ AttachResearch(r)
  PROVE  Only(r) /\ (Advances(r) \/ Documents(r))
<1>1. req' = Moved(r, "unlocking") /\ req[r].pc \in Owning
  BY Zenon DEF AddDocument, RemoveDocument, AttachResearch, At, Owning
<1>2. Only(r) /\ Same(r) /\ req'[r].pc = "unlocking" /\ req'[r].answer = req[r].answer
  BY Zenon, <1>1, MovedTask DEF Paths
<1>3. ASSUME docs' = docs, meta' = meta, UNCHANGED <<log, refs, artifact, idem, lock, late>>
      PROVE  Advances(r)
  BY Zenon, <1>1, <1>3, RefusedTurn DEF Still, content
<1>4. meta \in Metas(Len(log))
  BY Zenon DEF Metas, Typed, TypeOK
<1>5. CASE AddDocument(r)
  BY Zenon, <1>2, <1>3, <1>4, <1>5 DEF AddDocument, Documents
<1>6. CASE RemoveDocument(r)
  BY Zenon, <1>2, <1>3, <1>4, <1>6 DEF RemoveDocument, Documents
<1>7. CASE AttachResearch(r)
  <2>1. CASE UNCHANGED <<docs, meta>>
    BY Zenon, <1>2, <1>3, <1>7, <2>1 DEF AttachResearch
  <2>2. CASE /\ MayWrite(r)
             /\ docs' = docs \cup {req[r].doc}
             /\ meta' = [meta EXCEPT !.research_attachment_revision = @ + 1,
                                     !.research_attachment_run = req[r].doc]
    <3>1. req[r].doc \in Runs
      BY Zenon, <1>1, <1>7 DEF AttachResearch, At, Shaped, ShapedTask, Subjects
    <3>2. /\ meta'.exists = meta.exists /\ meta'.step_count = meta.step_count
          /\ meta'.next_step_index = meta.next_step_index /\ meta' \in Metas(Len(log))
      <4>1. meta.research_attachment_revision + 1 \in Nat
        BY <1>4 DEF Metas
      <4> QED BY ONLY Zenon, <1>4, <2>2, <3>1, <4>1 DEF Metas
    <3> QED BY Zenon, <1>2, <1>7, <2>2, <3>2 DEF AttachResearch, Documents
  <2> QED BY Zenon, <1>7, <2>1, <2>2 DEF AttachResearch
<1> QED BY Zenon, <1>2, <1>5, <1>6, <1>7

LEMMA UnlockTurn ==
  ASSUME SessionConstants, Typed, NEW r \in Requests, Unlock(r)
  PROVE  Only(r) /\ Unlocks(r)
<1>1. /\ req[r].mode \in AllModes \cup {"none"} /\ req[r].key \in Keys \cup {Nobody}
      /\ req[r].print \in Prints \cup {Nobody} /\ req[r].answer \in Nat
  BY Zenon DEF Typed, Tasks
<1>2. /\ At(r, "unlocking") /\ lock' # r /\ lock' \in {lock, Nobody}
      /\ UNCHANGED <<meta, content, idem, late>>
  BY Zenon DEF Unlock, SessionConstants
<1>3. CASE req[r].answer = 0
  BY Zenon, <1>2, <1>3, EndsTask DEF Unlock, Unlocks, Gives
<1>4. CASE req[r].answer # 0
  <2>1. req' = [req EXCEPT ![r] = Answered(req[r].mode, req[r].key, req[r].print, req[r].answer)]
    BY Zenon, <1>4 DEF Unlock, Answers
  <2>2. Only(r) /\ Gives(r, req[r].mode, req[r].key, req[r].print, req[r].answer)
    BY Zenon, <1>1, <2>1, AnsweredTask
  <2> QED BY Zenon, <1>2, <2>2 DEF Unlocks, Gives
<1> QED BY Zenon, <1>3, <1>4

LEMMA CancelTurn ==
  ASSUME Typed, NEW r \in Requests, Cancel(r)
  PROVE  Only(r) /\ Advances(r)
<1> DEFINE pc == IF req[r].pc \in Owning THEN "unlocking" ELSE "releasing"
<1>1. Still /\ req' = [req EXCEPT ![r].pc = pc, ![r].answer = 0]
  BY Zenon DEF Cancel, Still
<1>2. /\ pc \in Paths
      /\ \/ req[r].pc \in Reserving /\ pc = "releasing"
         \/ req[r].pc \in Owning /\ pc = "unlocking"
  BY Zenon DEF Cancel, Paths
<1> HIDE DEF pc
<1>3. Only(r) /\ Same(r) /\ req'[r].pc = pc /\ req'[r].answer = 0
  BY Zenon, <1>1, <1>2, MovesTask
<1> QED BY Zenon, <1>1, <1>2, <1>3 DEF Advances

LEMMA RaisesTurn ==
  ASSUME Typed, NEW r \in Requests, Raises(r)
  PROVE  Only(r) /\ Breaks(r)
<1> DEFINE q == [NoReq EXCEPT !.pc = "failed"]
<1>1. q \in Tasks
  <2>1. <<>> \in Seq(SUBSET Nat) /\ <<>> \in Seq(SUBSET (Nat \cup Docs \cup Runs))
    OBVIOUS
  <2> QED BY Zenon, <2>1 DEF NoReq, Tasks, Paths
<1>2. q.pc = "failed" /\ q.answer = 0
  BY Zenon DEF NoReq
<1>3. /\ req' = [req EXCEPT ![r] = q] /\ Still
      /\ req[r].pc \in {"owning", "working", "releasing", "unlocking"}
  BY Zenon DEF Raises, Still
<1> HIDE DEF q
<1> QED BY Zenon, <1>1, <1>2, <1>3, TaskSet DEF Breaks

LEMMA Turns ==
  ASSUME SessionConstants, Typed, Shaped, [Next]_vars
  PROVE  \/ UNCHANGED vars
         \/ \E r \in Requests : Only(r) /\ Turn(r)
         \/ LockLapses
         \/ \E k \in Keys : ReservationLapses(k)
         \/ \E l \in {Nobody, lock} : Vanish(l)
<1>1. ASSUME NEW r \in Requests, Step(r) PROVE Only(r) /\ Turn(r)
  BY Zenon, <1>1, ReserveTurn, WorkEndsTurn, CommitTurn, ReturnTurn, ReleaseTurn, AcquireTurn, CheckTurn,
     ReadTurn, AppendStepTurn, AddRefsTurn, AppendArtifactTurn, DocumentTurn, UnlockTurn
     DEF Step, Turn
<1>2. ASSUME NEW r \in Requests, Cancel(r) PROVE Only(r) /\ Turn(r)
  BY Zenon, <1>2, CancelTurn DEF Turn
<1>3. ASSUME NEW r \in Requests, Raises(r) PROVE Only(r) /\ Turn(r)
  BY Zenon, <1>3, RaisesTurn DEF Turn
<1> QED BY Zenon, <1>1, <1>2, <1>3 DEF Next, Delete, Expire

-----------------------------------------------------------------------------
(***************************************************************************)
(* Typed and Shaped.                                                       *)
(***************************************************************************)
LEMMA LogGrows ==
  ASSUME Typed, NEW e \in Entries, log' = Append(log, e)
  PROVE  /\ log' \in Seq(Entries) /\ Len(log) \in Nat /\ Len(log') = Len(log) + 1
         /\ Len(log) + 1 \notin DOMAIN log /\ DOMAIN log' = DOMAIN log \cup {Len(log) + 1}
         /\ \A i \in DOMAIN log : log'[i] = log[i]
         /\ log'[Len(log) + 1] = e
         /\ Indices' = Indices \cup {e.index}
<1>1. /\ log' \in Seq(Entries) /\ Len(log') = Len(log) + 1 /\ Len(log) \in Nat
      /\ DOMAIN log = 1..Len(log) /\ DOMAIN log' = 1..Len(log')
      /\ \A i \in 1..Len(log) : log'[i] = log[i]
      /\ log'[Len(log) + 1] = e
  BY DEF Typed
<1>2. Len(log) + 1 \notin DOMAIN log /\ DOMAIN log' = DOMAIN log \cup {Len(log) + 1}
  BY <1>1
<1>3. Indices' = Indices \cup {e.index}
  BY ONLY <1>1, <1>2 DEF Indices
<1> QED BY Zenon, <1>1, <1>2, <1>3

LEMMA ShapedTurn ==
  ASSUME SessionConstants, Typed, Shaped, NEW r \in Requests, Only(r), Turn(r)
  PROVE  Shaped'
<1>1. ShapedTask(req[r])
  BY Zenon DEF Shaped
<1>2. ShapedTask(req'[r])
  <2>1. CASE Quits(r) \/ Repeats(r) \/ Finishes(r) \/ Releases(r) \/ Unlocks(r) \/ Breaks(r)
    BY Zenon, <2>1 DEF Breaks, Quits, Repeats, Finishes, Releases, Unlocks, Gives, ShapedTask, Owning, Reserving
  <2>2. CASE Reserves(r)
    BY Zenon, <2>2 DEF Reserves, ShapedTask, Owning, Reserving
  <2>3. CASE Advances(r)
    <3>1. CASE At(r, "owning") /\ Pending = {} /\ req'[r].pc = AfterCheck(req[r].mode)
      BY Zenon, <1>1, <2>3, <3>1 DEF Advances, Same, At, AfterCheck, ShapedTask, Owning, Reserving
    <3>2. CASE req'[r].pc \in {"committing", "releasing", "unlocking"}
      BY Zenon, <1>1, <2>3, <3>2 DEF Advances, Same, At, AfterCheck, ShapedTask, Owning, Reserving
    <3> QED BY Zenon, <2>3, <3>1, <3>2 DEF Advances
  <2>4. CASE Collects(r) \/ Publishes(r)
    BY Zenon, <1>1, <2>4 DEF Collects, Publishes, Same, At, ShapedTask, Owning, Reserving
  <2>5. CASE Locks(r)
    BY Zenon, <2>5 DEF Locks, ShapedTask, Owning, Reserving
  <2>6. CASE Reads(r)
    BY Zenon, <1>1, <2>6 DEF Reads, At, ShapedTask, Owning, Reserving
  <2>7. CASE Steps(r)
    BY Zenon, <1>1, <2>7 DEF Steps, At, ShapedTask, Owning, Reserving
  <2>8. CASE Refers(r) \/ Sections(r) \/ Documents(r)
    BY Zenon, <1>1, <2>8 DEF Refers, Sections, Documents, Same, At, ShapedTask, Owning, Reserving
  <2> QED BY Zenon, <2>1, <2>2, <2>3, <2>4, <2>5, <2>6, <2>7, <2>8 DEF Turn
<1> QED BY <1>2, Zenon DEF Shaped, Only

\* A reservation that lapses keeps everything but its lease.
LEMMA LapseKeeps ==
  ASSUME Typed, NEW k \in Keys, ReservationLapses(k)
  PROVE  /\ \A j \in Keys :
              /\ idem'[j].status = idem[j].status
              /\ idem[j].status = "pending" =>
                   idem'[j].token = idem[j].token /\ idem'[j].index = idem[j].index
                   /\ idem'[j].print = idem[j].print
              /\ idem[j].status = "committed" => idem'[j] = idem[j]
              /\ Live(j)' => Live(j)
         /\ UNCHANGED <<meta, content, lock, req, late>>
<1> DEFINE w == [idem[k] EXCEPT !.live = FALSE]
<1>1. idem[k] \in [status : {"pending"}, token : Requests, index : Nat, revision : Nat,
                     live : BOOLEAN, print : Prints]
  BY Zenon, ItemTypes DEF ReservationLapses, Live
<1>2. /\ w.status = "pending" /\ w.token = idem[k].token /\ w.index = idem[k].index
      /\ w.print = idem[k].print /\ w.live = FALSE /\ idem[k].status = "pending"
  BY Zenon, <1>1
<1>3. idem' = [idem EXCEPT ![k] = w]
  BY Zenon DEF ReservationLapses
<1> HIDE DEF w
<1>4. idem'[k] = w /\ \A j \in Keys \ {k} : idem'[j] = idem[j]
  BY Zenon, <1>3 DEF Typed, TypeOK
<1>5. \A j \in Keys : Live(j)' => Live(j)
  BY Zenon, <1>2, <1>4 DEF Live
<1> QED BY Zenon, <1>2, <1>4, <1>5 DEF ReservationLapses

-----------------------------------------------------------------------------
(***************************************************************************)
(* Reservations and indices.                                               *)
(***************************************************************************)
\* What a turn of r leaves of the idempotency hash, key by key.
LEMMA ReservesItems ==
  ASSUME Typed, NEW r \in Requests, Reserves(r)
  PROVE  \E k \in Keys :
           /\ idem[k].status # "committed"
           /\ \A j \in Keys \ {k} : idem'[j] = idem[j]
           /\ idem'[k].status = "pending" /\ idem'[k].token = r /\ idem'[k].index = NextIndex
           /\ req'[r].key = k /\ req'[r].print = idem'[k].print
<1>1. idem \in [Keys -> Item_]
  BY Zenon DEF Typed, TypeOK
<1>2. PICK k \in Keys, p \in Prints :
        /\ idem[k].status # "committed"
        /\ idem' = [idem EXCEPT ![k] = [status |-> "pending", token |-> r, index |-> NextIndex,
                                        revision |-> meta.revision, live |-> TRUE, print |-> p]]
        /\ req'[r].key = k /\ req'[r].print = p
  BY Zenon DEF Reserves
<1> DEFINE v == [status |-> "pending", token |-> r, index |-> NextIndex,
                 revision |-> meta.revision, live |-> TRUE, print |-> p]
<1>3. v.status = "pending" /\ v.token = r /\ v.index = NextIndex /\ v.print = p
  BY Zenon
<1>4. idem' = [idem EXCEPT ![k] = v]
  BY Zenon, <1>2
<1> HIDE DEF v
<1>5. idem'[k] = v /\ \A j \in Keys \ {k} : idem'[j] = idem[j]
  BY ONLY Zenon, <1>1, <1>4, k \in Keys
<1> QED BY <1>2, <1>3, <1>5

LEMMA PublishesItems ==
  ASSUME Typed, Shaped, NEW r \in Requests, Publishes(r)
  PROVE  /\ req[r].key \in Keys
         /\ \A j \in Keys \ {req[r].key} : idem'[j] = idem[j]
         /\ idem'[req[r].key].status = "committed"
         /\ idem'[req[r].key].result = req[r].index
         /\ idem'[req[r].key].print = req[r].print
<1>1. idem \in [Keys -> Item_]
  BY Zenon DEF Typed, TypeOK
<1>2. req[r].key \in Keys
  BY Zenon DEF Publishes, At, Shaped, ShapedTask, Reserving
<1> DEFINE v == [status |-> "committed", result |-> req[r].index, print |-> req[r].print]
<1>3. v.status = "committed" /\ v.result = req[r].index /\ v.print = req[r].print
  BY Zenon
<1>4. idem' = [idem EXCEPT ![req[r].key] = v]
  BY Zenon DEF Publishes
<1> HIDE DEF v
<1>5. idem'[req[r].key] = v /\ \A j \in Keys \ {req[r].key} : idem'[j] = idem[j]
  BY ONLY Zenon, <1>1, <1>2, <1>4
<1> QED BY Zenon, <1>2, <1>3, <1>5

LEMMA ReleasesItems ==
  ASSUME Typed, Shaped, NEW r \in Requests, Releases(r)
  PROVE  \/ ~Mine(r) /\ idem' = idem
         \/ /\ Mine(r) /\ req[r].key \in Keys
            /\ \A j \in Keys \ {req[r].key} : idem'[j] = idem[j]
            /\ idem'[req[r].key].status = "absent"
<1>1. idem \in [Keys -> Item_]
  BY DEF Typed, TypeOK
<1>2. req[r].key \in Keys
  BY Zenon DEF Releases, At, Shaped, ShapedTask, Reserving
<1>3. CASE Mine(r) /\ idem' = [idem EXCEPT ![req[r].key] = NoItem]
  <2>1. idem'[req[r].key] = NoItem /\ \A j \in Keys \ {req[r].key} : idem'[j] = idem[j]
    BY ONLY Zenon, <1>1, <1>2, <1>3
  <2> QED BY <1>2, <1>3, <2>1 DEF NoItem
<1> QED BY Zenon, <1>3 DEF Releases

LEMMA OtherItems ==
  ASSUME NEW r \in Requests, Turn(r)
  PROVE  Reserves(r) \/ Publishes(r) \/ Releases(r) \/ idem' = idem
BY Zenon DEF Turn, Breaks, Still, Quits, Repeats, Advances, Collects, Finishes, Locks, Reads, Steps, Refers,
       Sections, Documents, Unlocks

LEMMA ReservedTurn ==
  ASSUME SessionConstants, Typed, Shaped, Reserved, NEW r \in Requests, Only(r), Turn(r)
  PROVE  Reserved'
<1> SUFFICES ASSUME NEW k \in Keys, idem'[k].status = "pending"
             PROVE  Keeps(req'[idem'[k].token], k, idem'[k])
  BY Zenon DEF Reserved
<1>1. CASE idem'[k] # idem[k]
  <2>1. Reserves(r)
    BY Zenon, <1>1, OtherItems, PublishesItems, ReleasesItems
  <2>2. req'[r].key = k /\ req'[r].print = idem'[k].print
        /\ idem'[k].token = r /\ idem'[k].index = NextIndex
    BY <1>1, <2>1, ReservesItems
  <2> QED BY Zenon, <2>1, <2>2 DEF Reserves, Keeps
<1>2. CASE idem'[k] = idem[k]
  <2>1. idem[k].token \in Requests /\ Keeps(req[idem[k].token], k, idem[k])
    BY Zenon, <1>2, ItemTypes DEF Reserved
  <2>2. CASE idem[k].token # r
    BY Zenon, <1>2, <2>1, <2>2 DEF Only
  <2>3. CASE idem[k].token = r /\ At(r, "failed")
    BY Zenon, <2>3
       DEF Turn, Breaks, At, Owning, Reserving, Quits, Repeats, Reserves, Advances, Collects, Publishes,
           Finishes, Releases, Locks, Reads, Steps, Refers, Sections, Documents, Unlocks
  <2>4. CASE idem[k].token = r /\ ~At(r, "failed")
    <3>1. /\ req[r].pc \in {"working", "committing", "releasing"} /\ req[r].key = k
          /\ req[r].index = idem[k].index /\ req[r].print = idem[k].print
      BY Zenon, <2>1, <2>4 DEF Keeps, At
    <3>2. Mine(r) /\ Item(r).status = "pending"
      BY Zenon, <1>2, <2>4, <3>1 DEF Mine, Item
    <3>3. ~Collects(r)
      BY Zenon, <3>2 DEF Collects
    <3>4. ~Publishes(r)
      BY Zenon, <1>2, <3>1, <3>2, PublishesItems
    <3>5. ~Releases(r)
      BY Zenon, <1>2, <3>1, <3>2, ReleasesItems
    <3>6. Advances(r) \/ Breaks(r)
      BY Zenon, <3>1, <3>3, <3>4, <3>5
         DEF Turn, At, Quits, Repeats, Reserves, Finishes, Locks, Reads, Steps, Refers, Sections,
             Documents, Unlocks
    <3>7. CASE Advances(r)
      BY <1>2, <2>4, <3>1, <3>7 DEF Advances, Same, At, Owning, Reserving, Keeps
    <3>8. CASE Breaks(r)
      BY Zenon, <1>2, <2>4, <3>8 DEF Breaks, Keeps
    <3> QED BY Zenon, <3>6, <3>7, <3>8
  <2> QED BY Zenon, <2>2, <2>3, <2>4
<1> QED BY Zenon, <1>1, <1>2

LEMMA ReservedFault ==
  ASSUME SessionConstants, Typed, Shaped, Reserved, req' = req,
         \/ LockLapses
         \/ \E k \in Keys : ReservationLapses(k)
         \/ \E l \in {Nobody, lock} : Vanish(l)
  PROVE  Reserved'
<1>1. CASE LockLapses
  BY <1>1 DEF LockLapses, Reserved
<1>2. CASE \E k \in Keys : ReservationLapses(k)
  BY <1>2, LapseKeeps DEF Reserved, Keeps
<1>3. CASE \E l \in {Nobody, lock} : Vanish(l)
  BY <1>3 DEF Vanish, NoItem, Reserved
<1> QED BY Zenon, <1>1, <1>2, <1>3

LEMMA LogEntries ==
  ASSUME Typed
  PROVE  /\ \A i \in DOMAIN log : log[i] \in Entries
         /\ Indices \subseteq Nat
<1>1. DOMAIN log = 1..Len(log)
  BY DEF Typed
<1>2. \A i \in DOMAIN log : log[i] \in Entries
  BY <1>1 DEF Typed
<1>3. \A i \in DOMAIN log : log[i].index \in Nat
  BY Zenon, <1>2 DEF Entries
<1> QED BY Zenon, <1>2, <1>3 DEF Indices

LEMMA HighNext ==
  ASSUME Typed, Typed', meta'.next_step_index >= meta.next_step_index, Len(log') >= Len(log)
  PROVE  High \in Nat /\ High' \in Nat /\ High' >= High /\ High' >= meta'.next_step_index
<1>1. meta'.next_step_index \in Nat /\ meta'.step_count = Len(log') /\ Len(log') \in Nat
  BY DEF Typed, TypeOK
<1>2. High' \in Nat /\ High' >= meta'.next_step_index /\ High' >= meta'.step_count
  BY Zenon, <1>1, MaxOfTwo DEF High
<1>3. meta.next_step_index \in Nat /\ Len(log) \in Nat
  BY DEF Typed, TypeOK
<1> QED BY <1>1, <1>2, <1>3, Counters

\* No step is published, no reservation made, and the counters do not go back.
LEMMA NumberedStill ==
  ASSUME Typed, Typed', Numbered, log' = log, meta'.next_step_index >= meta.next_step_index,
         \A k \in Keys : idem'[k].status = "pending" =>
           idem[k].status = "pending" /\ idem'[k].index = idem[k].index
  PROVE  Numbered'
<1>1. Indices' = Indices
  BY Zenon DEF Indices
<1>2. High' >= High /\ High \in Nat /\ High' \in Nat
  <2>1. Len(log') >= Len(log)
    BY DEF Typed
  <2> QED BY Zenon, <2>1, HighNext
<1>3. \A i \in Indices : i \in Nat
  BY Zenon, LogEntries
<1>4. \A k \in Keys : idem[k].status = "pending" => idem[k].index \in Nat
  BY Zenon, ItemTypes
<1>5. Bounded'
  BY <1>1, <1>2, <1>3, <1>4 DEF Numbered, Bounded
<1>6. IndicesUnique'
  BY Zenon, <1>1 DEF Numbered, IndicesUnique, Typed
<1> QED BY Zenon, <1>1, <1>5, <1>6 DEF Numbered

LEMMA NumberedReserves ==
  ASSUME Typed, Typed', Numbered, NEW r \in Requests, Reserves(r)
  PROVE  Numbered'
<1>1. log' = log /\ Indices' = Indices
  BY DEF Reserves, content, Indices
<1>2. High \in Nat /\ NextIndex = High + 1 /\ meta.next_step_index <= High
      /\ meta.next_step_index \in Nat
  BY Zenon, Counters DEF Typed, TypeOK
<1>3. meta'.next_step_index = NextIndex
  BY Zenon DEF Reserves, Typed, TypeOK
<1>4. High' >= High + 1 /\ High' \in Nat
  <2>1. Len(log') >= Len(log)
    BY <1>1 DEF Typed
  <2> QED BY <1>2, <1>3, <2>1, HighNext
<1>5. PICK k \in Keys :
        /\ \A j \in Keys \ {k} : idem'[j] = idem[j]
        /\ idem'[k].status = "pending" /\ idem'[k].index = NextIndex
  BY Zenon, ReservesItems
<1>6. \A i \in Indices : i \in Nat /\ i <= High
  BY Zenon, LogEntries DEF Numbered, Bounded
<1>7. \A j \in Keys : idem[j].status = "pending" => idem[j].index \in Nat /\ idem[j].index <= High
  BY Zenon, ItemTypes DEF Numbered, Bounded
<1>8. Bounded'
  BY <1>1, <1>2, <1>4, <1>5, <1>6, <1>7 DEF Bounded
<1>9. IndicesUnique'
  <2>1. NextIndex \notin Indices
    BY <1>2, <1>6
  <2>2. \A j \in Keys \ {k} : idem[j].status = "pending" => idem[j].index # NextIndex
    BY <1>2, <1>7
  <2> QED BY <1>1, <1>5, <2>1, <2>2 DEF Numbered, IndicesUnique, Typed
<1> QED BY Zenon, <1>1, <1>8, <1>9 DEF Numbered

-----------------------------------------------------------------------------
(***************************************************************************)
(* The history, the idempotency hash and what was answered.                *)
(***************************************************************************)
\* A step that is published stays published, and the new one is.
LEMMA LoggedGrows ==
  ASSUME Typed, NEW e \in Entries, log' = Append(log, e)
  PROVE  /\ \A i, k, p : Logged(log, i, k, p) => Logged(log', i, k, p)
         /\ \A i, k, p : e = [index |-> i, key |-> k, print |-> p] => Logged(log', i, k, p)
         /\ Indices \subseteq Indices'
<1>1. /\ DOMAIN log' = DOMAIN log \cup {Len(log) + 1}
      /\ \A i \in DOMAIN log : log'[i] = log[i]
      /\ log'[Len(log) + 1] = e
      /\ Indices' = Indices \cup {e.index}
  BY Zenon, LogGrows
<1>2. ASSUME NEW i, NEW k, NEW p, Logged(log, i, k, p) PROVE Logged(log', i, k, p)
  <2>1. PICK j \in DOMAIN log : log[j] = [index |-> i, key |-> k, print |-> p]
    BY Zenon, <1>2 DEF Logged
  <2>2. j \in DOMAIN log' /\ log'[j] = [index |-> i, key |-> k, print |-> p]
    BY Zenon, <1>1, <2>1
  <2> QED BY Zenon, <2>2 DEF Logged
<1>3. ASSUME NEW i, NEW k, NEW p, e = [index |-> i, key |-> k, print |-> p] PROVE Logged(log', i, k, p)
  <2>1. Len(log) + 1 \in DOMAIN log' /\ log'[Len(log) + 1] = [index |-> i, key |-> k, print |-> p]
    BY Zenon, <1>1, <1>3
  <2> QED BY Zenon, <2>1 DEF Logged
<1> QED BY Zenon, <1>1, <1>2, <1>3

LEMMA TurnGrows ==
  ASSUME Typed, Shaped, NEW r \in Requests, Turn(r)
  PROVE  /\ meta'.exists = meta.exists
         /\ ~meta.exists => UNCHANGED content
         /\ refs \subseteq refs' /\ artifact \subseteq artifact' /\ Indices \subseteq Indices'
         /\ \A i, k, p : Logged(log, i, k, p) => Logged(log', i, k, p)
         /\ Publishes(r) => Logged(log', req[r].index, req[r].key, req[r].print)
<1>1. CASE Publishes(r)
  <2> DEFINE e == [index |-> req[r].index, key |-> req[r].key, print |-> req[r].print]
  <2>1. e \in Entries
    BY Zenon DEF Entries, Typed, Tasks
  <2>2. log' = Append(log, e)
    BY Zenon, <1>1 DEF Publishes
  <2>3. /\ \A i, k, p : Logged(log, i, k, p) => Logged(log', i, k, p)
        /\ Logged(log', req[r].index, req[r].key, req[r].print) /\ Indices \subseteq Indices'
    BY Zenon, <2>1, <2>2, LoggedGrows
  <2>4. meta'.exists = meta.exists /\ meta.exists
    BY Zenon, <1>1 DEF Publishes, Typed, TypeOK
  <2>5. refs \subseteq refs' /\ artifact \subseteq artifact'
    BY Zenon, <1>1 DEF Publishes
  <2> QED BY Zenon, <2>3, <2>4, <2>5
<1>2. CASE Steps(r)
  <2> DEFINE e == [index |-> NextIndex, key |-> Nobody, print |-> Nobody]
  <2>1. e \in Entries
    BY Zenon, Counters DEF Entries
  <2>2. log' = Append(log, e)
    BY Zenon, <1>2 DEF Steps
  <2> HIDE DEF e
  <2>3. (\A i, k, p : Logged(log, i, k, p) => Logged(log', i, k, p)) /\ Indices \subseteq Indices'
    BY Zenon, <2>1, <2>2, LoggedGrows
  <2>4. meta'.exists = meta.exists /\ meta.exists /\ refs' = refs /\ artifact' = artifact
    BY Zenon, <1>2 DEF Steps, MayWrite, Typed, TypeOK
  <2> QED BY Zenon, <1>2, <2>3, <2>4 DEF Steps, Publishes, At
<1>3. CASE ~Publishes(r) /\ ~Steps(r)
  <2>1. /\ log' = log /\ refs \subseteq refs' /\ artifact \subseteq artifact'
        /\ ~meta.exists => UNCHANGED content
    BY Zenon, <1>3 DEF Turn, Breaks, Still, content, Quits, Repeats, Reserves, Advances, Collects, Finishes, Releases,
                Locks, Reads, Refers, Sections, Documents, MayWrite, Unlocks
  <2>2. meta'.exists = meta.exists
    BY Zenon, <1>3 DEF Turn, Breaks, Still, Quits, Repeats, Reserves, Advances, Collects, Finishes, Releases,
                Locks, Reads, Refers, Sections, Documents, Unlocks, Typed, TypeOK
  <2>3. Indices' = Indices /\ \A i, k, p : Logged(log', i, k, p) <=> Logged(log, i, k, p)
    BY Zenon, <2>1 DEF Indices, Logged
  <2> QED BY Zenon, <1>3, <2>1, <2>2, <2>3
<1> QED BY Zenon, <1>1, <1>2, <1>3

\* The entries of the history after a turn: those of before, and at most one.
LEMMA TurnEntries ==
  ASSUME Typed, Shaped, NEW r \in Requests, Turn(r), NEW i \in DOMAIN log'
  PROVE  \/ i \in DOMAIN log /\ log'[i] = log[i]
         \/ i = Len(log) + 1 /\ Publishes(r) /\ log'[i].key = req[r].key
         \/ log'[i].key = Nobody
<1>1. CASE Publishes(r)
  <2> DEFINE e == [index |-> req[r].index, key |-> req[r].key, print |-> req[r].print]
  <2>1. e \in Entries /\ e.key = req[r].key
    BY Zenon DEF Entries, Typed, Tasks
  <2>2. log' = Append(log, e)
    BY Zenon, <1>1 DEF Publishes
  <2> HIDE DEF e
  <2> QED BY Zenon, <1>1, <2>1, <2>2, LogGrows
<1>2. CASE Steps(r)
  <2> DEFINE e == [index |-> NextIndex, key |-> Nobody, print |-> Nobody]
  <2>1. e \in Entries /\ e.key = Nobody
    BY Zenon, Counters DEF Entries
  <2>2. log' = Append(log, e)
    BY Zenon, <1>2 DEF Steps
  <2> HIDE DEF e
  <2> QED BY Zenon, <2>1, <2>2, LogGrows
<1>3. CASE ~Publishes(r) /\ ~Steps(r)
  BY Zenon, <1>3 DEF Turn, Breaks, Still, content, Quits, Repeats, Reserves, Advances, Collects, Finishes, Releases,
              Locks, Reads, Refers, Sections, Documents, Unlocks
<1> QED BY Zenon, <1>1, <1>2, <1>3

LEMMA KeysLoggedTurn ==
  ASSUME SessionConstants, Typed, Shaped, Reserved, KeysLogged, NEW r \in Requests, Only(r), Turn(r)
  PROVE  KeysLogged'
<1>1. \A k \in Keys : idem[k].status = "committed" => idem'[k] = idem[k]
  <2>1. CASE Reserves(r)
    BY Zenon, <2>1, ReservesItems
  <2>2. CASE Publishes(r) \/ Releases(r)
    BY Zenon, <2>2, PublishesItems, ReleasesItems DEF Publishes, Mine, Item
  <2> QED BY Zenon, <2>1, <2>2, OtherItems
<1>2. ASSUME NEW i \in DOMAIN log', log'[i].key # Nobody
      PROVE  log'[i].key \in Keys /\ idem'[log'[i].key].status = "committed"
  BY <1>1, <1>2, TurnEntries, PublishesItems DEF KeysLogged
<1>3. ASSUME NEW k \in Keys, idem'[k].status = "committed"
      PROVE  /\ Logged(log', idem'[k].result, k, idem'[k].print)
             /\ idem'[k].result \in refs' \cap artifact'
  <2>1. CASE idem'[k] = idem[k]
    BY Zenon, <1>3, <2>1, TurnGrows DEF KeysLogged
  <2>2. CASE idem'[k] # idem[k]
    <3>1. Publishes(r) /\ k = req[r].key
      BY Zenon, <1>3, <2>2, OtherItems, ReservesItems, PublishesItems, ReleasesItems
    <3>2. idem'[k].result = req[r].index /\ idem'[k].print = req[r].print
      BY Zenon, <3>1, PublishesItems
    <3>3. Logged(log', req[r].index, k, req[r].print)
      BY Zenon, <3>1, TurnGrows
    <3> QED BY <3>1, <3>2, <3>3 DEF Publishes
  <2> QED BY Zenon, <2>1, <2>2
<1> QED BY Zenon, <1>2, <1>3 DEF KeysLogged

\* What the answer of r is after its turn.
LEMMA TurnAnswer ==
  ASSUME SessionConstants, Typed, Shaped, Reserved, KeysLogged,
         NEW r \in Requests, Only(r), Turn(r), req'[r].answer # 0
  PROVE  \/ /\ req'[r].mode = "parallel"
            /\ Logged(log', req'[r].answer, req'[r].key, req'[r].print)
            /\ req'[r].answer \in refs' \cap artifact'
         \/ /\ req'[r].mode = req[r].mode /\ req'[r].answer = req[r].answer
            /\ req'[r].mode = "parallel" =>
                 req'[r].key = req[r].key /\ req'[r].print = req[r].print
         \/ /\ Sections(r) /\ req'[r].answer = req[r].index
            /\ req'[r].mode = req[r].mode /\ req'[r].mode # "parallel"
<1>1. ShapedTask(req[r])
  BY Zenon DEF Shaped
<1>2. \A k \in Keys : idem[k].status = "committed" =>
        /\ Logged(log', idem[k].result, k, idem[k].print)
        /\ idem[k].result \in refs' \cap artifact'
  BY Zenon, TurnGrows DEF KeysLogged
<1>3. CASE Repeats(r)
  BY Zenon, <1>2, <1>3 DEF Repeats, Gives
<1>4. CASE Collects(r)
  <2>1. req[r].mode = "parallel" /\ req[r].key \in Keys
    BY Zenon, <1>1, <1>4 DEF Collects, At, ShapedTask, Reserving
  <2> QED BY Zenon, <1>2, <1>4, <2>1 DEF Collects, Same, Item
<1>5. CASE Publishes(r)
  <2>1. req[r].mode = "parallel"
    BY Zenon, <1>1, <1>5 DEF Publishes, At, ShapedTask, Reserving
  <2>2. Logged(log', req[r].index, req[r].key, req[r].print)
    BY Zenon, <1>5, TurnGrows
  <2> QED BY Zenon, <1>5, <2>1, <2>2 DEF Publishes, Same
<1>6. CASE Sections(r)
  BY Zenon, <1>1, <1>6 DEF Sections, Same, At, ShapedTask, Owning
<1>7. CASE Finishes(r) \/ Reads(r) \/ Steps(r) \/ Refers(r) \/ Documents(r)
  BY Zenon, <1>7 DEF Finishes, Gives, Reads, Steps, Refers, Documents, Same
<1>8. CASE Unlocks(r)
  BY Zenon, <1>1, <1>8 DEF Unlocks, At, ShapedTask
<1>9. ~Quits(r) /\ ~Reserves(r) /\ ~Advances(r) /\ ~Releases(r) /\ ~Locks(r) /\ ~Breaks(r)
  BY Zenon DEF Breaks, Quits, Gives, Reserves, Advances, Releases, Locks
<1> QED BY Zenon, <1>3, <1>4, <1>5, <1>6, <1>7, <1>8, <1>9 DEF Turn

LEMMA OneStepTurn ==
  ASSUME SessionConstants, Typed, Shaped, Reserved, KeysLogged, OneStepPerKey,
         NEW r \in Requests, Only(r), Turn(r)
  PROVE  OneStepPerKey'
<1>1. ASSUME NEW i \in DOMAIN log', NEW j \in DOMAIN log', log'[i].key = log'[j].key,
             log'[i].key # Nobody
      PROVE  i = j
  <2>1. \A n \in DOMAIN log : log[n].key # Nobody /\ Publishes(r) => log[n].key # req[r].key
    BY Zenon DEF KeysLogged, Publishes, Mine, Item
  <2> QED BY <1>1, <2>1, TurnEntries DEF OneStepPerKey
<1>2. ASSUME meta'.exists, NEW o \in Requests, req'[o].mode = "parallel", req'[o].answer # 0
      PROVE  Logged(log', req'[o].answer, req'[o].key, req'[o].print)
  <2>1. meta.exists /\ \A i, k, p : Logged(log, i, k, p) => Logged(log', i, k, p)
    BY Zenon, <1>2, TurnGrows
  <2>2. req[o].mode = "parallel" /\ req[o].answer # 0 =>
          Logged(log, req[o].answer, req[o].key, req[o].print)
    BY Zenon, <2>1 DEF OneStepPerKey, Logged
  <2>3. CASE o # r
    BY Zenon, <1>2, <2>1, <2>2, <2>3 DEF Only
  <2>4. CASE o = r
    BY Zenon, <1>2, <2>1, <2>2, <2>4, TurnAnswer
  <2> QED BY Zenon, <2>3, <2>4
<1> QED BY Zenon, <1>1, <1>2 DEF OneStepPerKey, Logged

LEMMA LoggedIndexNext ==
  ASSUME NEW i, NEW k, NEW p, Logged(log', i, k, p)
  PROVE  i \in Indices'
<1>1. PICK j \in DOMAIN log' : log'[j] = [index |-> i, key |-> k, print |-> p]
  BY Zenon DEF Logged
<1>2. log'[j].index = i
  BY <1>1
<1> QED BY Zenon, <1>2 DEF Indices

LEMMA WrittenTurn ==
  ASSUME SessionConstants, Typed, Shaped, Reserved, KeysLogged, Written,
         NEW r \in Requests, Only(r), Turn(r)
  PROVE  Written'
<1> SUFFICES ASSUME meta'.exists, NEW o \in Requests
             PROVE  /\ req'[o].answer # 0 =>
                         /\ req'[o].answer \in Indices' \cap artifact'
                         /\ req'[o].mode # "query" => req'[o].answer \in refs'
                    /\ req'[o].pc \in {"referring", "sectioning"} => req'[o].index \in Indices'
                    /\ req'[o].pc = "sectioning" /\ req'[o].mode # "query" => req'[o].index \in refs'
  BY Zenon DEF Written
<1>1. meta.exists /\ refs \subseteq refs' /\ artifact \subseteq artifact' /\ Indices \subseteq Indices'
  BY Zenon, TurnGrows
<1>2. /\ req[o].answer # 0 => /\ req[o].answer \in Indices \cap artifact
                              /\ req[o].mode # "query" => req[o].answer \in refs
      /\ req[o].pc \in {"referring", "sectioning"} => req[o].index \in Indices
      /\ req[o].pc = "sectioning" /\ req[o].mode # "query" => req[o].index \in refs
  BY Zenon, <1>1 DEF Written
<1>3. CASE o # r
  BY Zenon, <1>1, <1>2, <1>3 DEF Only
<1>4. CASE o = r
  <2>1. ASSUME req'[r].answer # 0
        PROVE  /\ req'[r].answer \in Indices' \cap artifact'
               /\ req'[r].mode # "query" => req'[r].answer \in refs'
    <3>1. CASE Logged(log', req'[r].answer, req'[r].key, req'[r].print)
               /\ req'[r].answer \in refs' \cap artifact'
      <4>1. req'[r].answer \in Indices'
        BY Zenon, <3>1, LoggedIndexNext
      <4> QED BY Zenon, <3>1, <4>1
    <3>2. CASE req'[r].mode = req[r].mode /\ req'[r].answer = req[r].answer
      BY Zenon, <1>1, <1>2, <1>4, <2>1, <3>2
    <3>3. CASE Sections(r) /\ req'[r].answer = req[r].index /\ req'[r].mode = req[r].mode
      BY Zenon, <1>1, <1>2, <1>4, <3>3 DEF Sections, At
    <3> QED BY Zenon, <2>1, <3>1, <3>2, <3>3, TurnAnswer
  <2>2. ASSUME req'[r].pc \in {"referring", "sectioning"}
        PROVE  /\ req'[r].index \in Indices'
               /\ req'[r].pc = "sectioning" /\ req'[r].mode # "query" => req'[r].index \in refs'
    <3>1. Steps(r) \/ Refers(r)
      BY Zenon, <2>2 DEF Turn, Breaks, Quits, Repeats, Reserves, Advances, Collects, Publishes, Finishes, Releases,
                  Locks, Reads, Sections, Documents, Unlocks, Gives, AfterCheck
    <3>2. CASE Refers(r)
      BY Zenon, <1>1, <1>2, <1>4, <3>2 DEF Refers, Same, At
    <3>3. CASE Steps(r)
      <4> DEFINE e == [index |-> NextIndex, key |-> Nobody, print |-> Nobody]
      <4>1. e \in Entries /\ e.index = NextIndex
        BY Zenon, Counters DEF Entries
      <4>2. log' = Append(log, e)
        BY Zenon, <3>3 DEF Steps
      <4> HIDE DEF e
      <4>3. NextIndex \in Indices'
        BY Zenon, <4>1, <4>2, LogGrows
      <4> QED BY Zenon, <3>3, <4>3 DEF Steps
    <3> QED BY Zenon, <3>1, <3>2, <3>3
  <2> QED BY Zenon, <1>4, <2>1, <2>2
<1> QED BY Zenon, <1>3, <1>4

LEMMA GoneTurn ==
  ASSUME Typed, Shaped, Gone, NEW r \in Requests, Turn(r)
  PROVE  Gone'
BY Zenon, TurnGrows DEF Gone, content

LEMMA HistoryFault ==
  ASSUME SessionConstants, Typed, KeysLogged, OneStepPerKey, Written, Gone, req' = req,
         \/ LockLapses
         \/ \E k \in Keys : ReservationLapses(k)
         \/ \E l \in {Nobody, lock} : Vanish(l)
  PROVE  KeysLogged' /\ OneStepPerKey' /\ Written' /\ Gone'
<1>1. CASE UNCHANGED <<meta, content>>
           /\ \A k \in Keys : idem'[k].status = idem[k].status
                              /\ (idem[k].status = "committed" => idem'[k] = idem[k])
  <2>1. KeysLogged'
    BY Zenon, <1>1 DEF KeysLogged, content
  <2>2. OneStepPerKey'
    BY Zenon, <1>1 DEF OneStepPerKey, content
  <2>3. Written'
    BY <1>1 DEF Written, Indices, content
  <2>4. Gone'
    BY Zenon, <1>1 DEF Gone, content
  <2> QED BY Zenon, <2>1, <2>2, <2>3, <2>4
<1>2. CASE LockLapses
  BY Zenon, <1>1, <1>2 DEF LockLapses
<1>3. CASE \E k \in Keys : ReservationLapses(k)
  BY Zenon, <1>1, <1>3, LapseKeeps
<1>4. CASE \E l \in {Nobody, lock} : Vanish(l)
  <2>1. /\ log' = <<>> /\ DOMAIN log' = {} /\ ~meta'.exists /\ refs' = {} /\ artifact' = {} /\ docs' = {}
        /\ \A k \in Keys : idem'[k].status = "absent"
    BY <1>4 DEF Vanish, NoItem, NoMeta
  <2> QED BY Zenon, <2>1 DEF KeysLogged, OneStepPerKey, Written, Gone
<1> QED BY Zenon, <1>2, <1>3, <1>4

-----------------------------------------------------------------------------
(***************************************************************************)
(* The lock and what its owner has read.                                   *)
(***************************************************************************)
LEMMA HoldsTurn ==
  ASSUME SessionConstants, Typed, Shaped, Holds, NEW r \in Requests, Only(r), Turn(r)
  PROVE  Holds'
<1> SUFFICES ASSUME NEW o \in Requests, lock' = o
             PROVE  req'[o].pc \in Owning \cup {"unlocking", "failed"}
  BY Zenon DEF Holds
<1>1. o # Nobody
  BY Zenon DEF SessionConstants
<1>2. CASE Locks(r)
  BY Zenon, <1>2 DEF Locks, Owning
<1>3. CASE Unlocks(r)
  BY Zenon, <1>1, <1>3 DEF Unlocks, Only, Holds
<1>4. CASE ~Locks(r) /\ ~Unlocks(r)
  <2>1. lock' = lock
    BY Zenon, <1>4 DEF Turn, Breaks, Still, Quits, Repeats, Reserves, Advances, Collects, Publishes, Finishes, Releases,
                Reads, Steps, Refers, Sections, Documents
  <2>2. req[o].pc \in Owning \cup {"unlocking", "failed"}
    BY Zenon, <2>1 DEF Holds
  <2>3. CASE o # r \/ Breaks(r)
    BY Zenon, <2>2, <2>3 DEF Only, Breaks
  <2>4. CASE o = r /\ ~Breaks(r)
    <3>1. Advances(r) \/ Reads(r) \/ Steps(r) \/ Refers(r) \/ Sections(r) \/ Documents(r)
      BY Zenon, <1>4, <2>2, <2>4
         DEF Turn, At, Owning, Quits, Repeats, Reserves, Collects, Publishes, Finishes, Releases
    <3>2. CASE Advances(r)
      BY Zenon, <2>2, <2>4, <3>2 DEF Advances, At, AfterCheck, Owning, Reserving
    <3>3. CASE ~Advances(r)
      BY Zenon, <2>4, <3>1, <3>3 DEF Reads, Steps, Refers, Sections, Documents, Owning
    <3> QED BY Zenon, <3>2, <3>3
  <2> QED BY Zenon, <2>3, <2>4
<1> QED BY Zenon, <1>2, <1>3, <1>4

\* Another's lock is not taken, and while it is held nobody else writes but
\* commit_step.
LEMMA OthersTurn ==
  ASSUME SessionConstants, Typed, Shaped, Holds, NEW r \in Requests, Only(r), Turn(r),
         NEW o \in Requests \ {r}, lock' = o
  PROVE  /\ lock = o /\ req'[o] = req[o] /\ ~Reserves(r)
         /\ Publishes(r) \/ UNCHANGED <<content, late>>
<1>1. o # Nobody
  BY Zenon DEF SessionConstants
<1>2. lock = o /\ req'[o] = req[o]
  BY Zenon, <1>1 DEF Turn, Breaks, Still, Quits, Repeats, Reserves, Advances, Collects, Publishes, Finishes, Releases,
              Locks, Reads, Steps, Refers, Sections, Documents, Unlocks, Only
<1>3. ~Reserves(r) /\ ~Steps(r) /\ ~Refers(r) /\ ~Sections(r) /\ ~Documents(r)
  BY Zenon, <1>1, <1>2 DEF Reserves, Steps, Refers, Sections, Documents, MayWrite
<1> QED BY Zenon, <1>2, <1>3
        DEF Turn, Breaks, Still, Quits, Repeats, Advances, Collects, Finishes, Releases, Locks, Reads, Unlocks

\* The steps of an owner that stays one.
LEMMA OwnerTurn ==
  ASSUME SessionConstants, Typed, Shaped, Holds, NEW r \in Requests, Only(r), Turn(r),
         lock' = r, req'[r].pc \in Owning
  PROVE  \/ Locks(r)
         \/ lock = r /\ Advances(r) /\ At(r, "owning") /\ Pending = {}
         \/ lock = r /\ (Reads(r) \/ Steps(r) \/ Refers(r))
<1>1. r # Nobody
  BY Zenon DEF SessionConstants
<1>2. CASE ~Locks(r)
  <2>1. lock = r
    BY Zenon, <1>1, <1>2
       DEF Turn, Breaks, Still, Quits, Repeats, Reserves, Advances, Collects, Publishes, Finishes, Releases,
           Reads, Steps, Refers, Sections, Documents, Unlocks
  <2>2. req[r].pc \in Owning \cup {"unlocking", "failed"}
    BY Zenon, <2>1 DEF Holds
  <2>3. Advances(r) \/ Reads(r) \/ Steps(r) \/ Refers(r)
    BY Zenon, <1>2, <2>2
       DEF Turn, Breaks, At, Owning, Quits, Repeats, Reserves, Collects, Publishes, Finishes, Releases,
           Sections, Documents, Unlocks
  <2>4. Advances(r) => At(r, "owning") /\ Pending = {}
    BY Zenon DEF Advances, Owning
  <2> QED BY Zenon, <2>1, <2>3, <2>4
<1> QED BY Zenon, <1>2

LEMMA NoneLiveTurn ==
  ASSUME SessionConstants, Typed, Shaped, Holds, NoneLive, NEW r \in Requests, Only(r), Turn(r)
  PROVE  NoneLive'
<1> SUFFICES ASSUME NEW o \in Requests, lock' = o, req'[o].pc \in Owning \ {"owning"}, NEW k \in Keys
             PROVE  ~(idem'[k].status = "pending" /\ idem'[k].live)
  BY Zenon DEF NoneLive, Live
<1>1. ~Reserves(r) => (idem'[k].status = "pending" => idem'[k] = idem[k])
  BY Zenon, OtherItems, PublishesItems, ReleasesItems
<1>2. CASE o # r
  BY <1>1, <1>2, OthersTurn DEF NoneLive, Live
<1>3. CASE o = r
  <2>1. ~Locks(r)
    BY Zenon, <1>3 DEF Locks
  <2>2. ~Live(k)
    <3>1. CASE lock = r /\ Advances(r) /\ At(r, "owning") /\ Pending = {}
      BY Zenon, <3>1 DEF Pending
    <3>2. CASE lock = r /\ (Reads(r) \/ Steps(r) \/ Refers(r))
      BY Zenon, <3>2 DEF NoneLive, Reads, Steps, Refers, At, Owning
    <3> QED BY Zenon, <1>3, <2>1, <3>1, <3>2, OwnerTurn
  <2>3. ~Reserves(r)
    BY Zenon, <1>3 DEF Reserves, Owning
  <2> QED BY Zenon, <1>1, <2>2, <2>3 DEF Live
<1> QED BY Zenon, <1>2, <1>3

LEMMA RefsSeenTurn ==
  ASSUME SessionConstants, Typed, Shaped, Holds, NoneLive, RefsSeen,
         NEW r \in Requests, Only(r), Turn(r)
  PROVE  RefsSeen'
<1> SUFFICES ASSUME NEW o \in Requests, lock' = o, meta'.exists,
                    req'[o].pc \in Owning \ {"sectioning"}, req'[o].sawRefs # <<>>
             PROVE  refs' \ req'[o].sawRefs[1] \subseteq late'
  BY Zenon DEF RefsSeen
<1>1. meta.exists
  BY Zenon, TurnGrows
<1>2. CASE o # r
  <2>1. lock = o /\ req'[o] = req[o] /\ (Publishes(r) \/ UNCHANGED <<content, late>>)
    BY Zenon, <1>2, OthersTurn
  <2>2. refs \ req[o].sawRefs[1] \subseteq late
    BY Zenon, <1>1, <2>1 DEF RefsSeen
  <2>3. CASE Publishes(r)
    <3>1. req[o].pc # "owning"
      BY Zenon, <2>1 DEF Shaped, ShapedTask
    <3>2. ~Live(req[r].key)
      BY Zenon, <2>1, <2>3, <3>1, PublishesItems DEF NoneLive
    <3> QED BY Zenon, <2>1, <2>2, <2>3, <3>2 DEF Publishes
  <2> QED BY Zenon, <2>1, <2>2, <2>3 DEF content
<1>3. CASE o = r
  <2>1. ShapedTask(req[r])
    BY Zenon DEF Shaped
  <2>2. ~Locks(r) /\ ~(Advances(r) /\ At(r, "owning")) /\ ~Refers(r)
    BY Zenon, <1>3, <2>1 DEF Locks, Advances, Same, ShapedTask, At, Refers
  <2>3. lock = r /\ (Reads(r) \/ Steps(r))
    BY Zenon, <1>3, <2>2, OwnerTurn
  <2>4. CASE Reads(r)
    <3>1. refs' = refs /\ late' = late
      BY Zenon, <2>4 DEF Reads, Still, content
    <3>2. CASE req'[r].sawRefs = <<refs, docs>>
      BY <1>3, <3>1, <3>2
    <3>3. CASE req'[r].sawRefs = req[r].sawRefs
      BY Zenon, <1>1, <1>3, <2>3, <2>4, <3>1, <3>3 DEF Reads, At, Owning, RefsSeen
    <3> QED BY Zenon, <2>4, <3>2, <3>3 DEF Reads
  <2>5. CASE Steps(r)
    BY Zenon, <1>1, <1>3, <2>3, <2>5 DEF Steps, At, Owning, RefsSeen
  <2> QED BY Zenon, <2>3, <2>4, <2>5
<1> QED BY Zenon, <1>2, <1>3

-----------------------------------------------------------------------------
(***************************************************************************)
(* The lemmas that need the finiteness or the size of a set: the documents *)
(* and the indices of the history are finite, and the owner's quota holds. *)
(***************************************************************************)
INSTANCE FiniteSetTheorems

LEMMA TypedTurn ==
  ASSUME SessionConstants, Typed, Shaped, NEW r \in Requests, Only(r), Turn(r)
  PROVE  Typed'
<1>1. req' \in [Requests -> Tasks]
  BY Zenon DEF Only
<1>2. CASE Still
  BY <1>1, <1>2 DEF Still, content, Typed, TypeOK
<1>3. CASE Reserves(r)
  <2>1. NextIndex \in Nat
    BY Zenon, Counters
  <2>2. meta' \in Metas(Len(log))
    BY Zenon, <1>3, <2>1 DEF Reserves, Metas, Typed, TypeOK
  <2>3. idem' \in [Keys -> Item_]
    <3>1. PICK k \in Keys, p \in Prints :
            idem' = [idem EXCEPT ![k] = [status |-> "pending", token |-> r, index |-> NextIndex,
                                         revision |-> meta.revision, live |-> TRUE, print |-> p]]
      BY <1>3, Zenon DEF Reserves
    <3>2. [status |-> "pending", token |-> r, index |-> NextIndex,
           revision |-> meta.revision, live |-> TRUE, print |-> p] \in Item_
      BY Zenon, <2>1 DEF Item_, Typed, TypeOK
    <3> QED BY Zenon, <3>1, <3>2 DEF Typed, TypeOK
  <2> QED BY <1>1, <1>3, <2>2, <2>3 DEF Reserves, Metas, content, Typed, TypeOK
<1>4. CASE Publishes(r)
  <2>1. req[r].key \in Keys /\ req[r].print \in Prints /\ req[r].index \in Nat
    BY Zenon, <1>4 DEF Publishes, At, Reserving, Shaped, ShapedTask, Typed, Tasks
  <2> DEFINE e == [index |-> req[r].index, key |-> req[r].key, print |-> req[r].print]
  <2>2. e \in Entries
    BY Zenon, <2>1 DEF Entries
  <2>3. log' = Append(log, e)
    BY Zenon, <1>4 DEF Publishes
  <2> HIDE DEF e
  <2>4. log' \in Seq(Entries) /\ Len(log') = Len(log) + 1 /\ Len(log) \in Nat
    BY <2>2, <2>3, LogGrows
  <2>5. meta' \in Metas(Len(log'))
    <3>1. meta \in Metas(Len(log))
      BY Zenon DEF Metas, Typed, TypeOK
    <3>2. meta.revision + 1 \in Nat /\ meta.step_count + 1 = Len(log')
      BY <2>4, <3>1 DEF Metas
    <3>3. meta' = [meta EXCEPT !.step_count = @ + 1, !.revision = @ + 1]
      BY Zenon, <1>4 DEF Publishes
    <3> QED BY ONLY Zenon, <3>1, <3>2, <3>3 DEF Metas
  <2>6. idem' \in [Keys -> Item_]
    <3>1. [status |-> "committed", result |-> req[r].index, print |-> req[r].print] \in Item_
      BY Zenon, <2>1 DEF Item_
    <3> QED BY Zenon, <1>4, <3>1 DEF Publishes, Typed, TypeOK
  <2>7. /\ refs' \subseteq Nat /\ artifact' \subseteq Nat
        /\ docs' = docs /\ lock' = lock
    BY Zenon, <1>4, <2>1 DEF Publishes, Typed, TypeOK
  <2> QED BY <1>1, <2>4, <2>5, <2>6, <2>7 DEF Metas, Typed, TypeOK
<1>5. CASE Releases(r)
  <2>1. idem' \in [Keys -> Item_]
    BY <1>5 DEF Releases, NoItem, Item_, Typed, TypeOK
  <2> QED BY <1>1, <1>5, <2>1 DEF Releases, content, Typed, TypeOK
<1>6. CASE Locks(r) \/ Unlocks(r)
  <2>1. lock' \in Requests \cup {Nobody}
    BY Zenon, <1>6 DEF Locks, Unlocks, Typed, TypeOK
  <2> QED BY Zenon, <1>1, <1>6, <2>1 DEF Locks, Unlocks, content, Typed, TypeOK
<1>7. CASE Steps(r)
  <2>1. NextIndex \in Nat
    BY Counters
  <2> DEFINE e == [index |-> NextIndex, key |-> Nobody, print |-> Nobody]
  <2>2. e \in Entries
    BY Zenon, <2>1 DEF Entries
  <2>3. log' = Append(log, e)
    BY <1>7 DEF Steps
  <2> HIDE DEF e
  <2>4. log' \in Seq(Entries) /\ Len(log') = Len(log) + 1 /\ Len(log) \in Nat
    BY <2>2, <2>3, LogGrows
  <2>5. meta' \in Metas(Len(log'))
    BY Zenon, <1>7, <2>1, <2>4 DEF Steps, Metas, Typed, TypeOK
  <2> QED BY <1>1, <1>7, <2>4, <2>5 DEF Steps, Metas, Typed, TypeOK
<1>8. CASE Refers(r) \/ Sections(r)
  <2>1. req[r].index \in Nat
    BY Zenon DEF Typed, Tasks
  <2> QED BY Zenon, <1>1, <1>8, <2>1 DEF Refers, Sections, Typed, TypeOK
<1>9. CASE Documents(r)
  <2>1. req[r].pc \in {"adding", "attaching"} => req[r].doc \in Docs \cup Runs
    BY Zenon DEF Shaped, ShapedTask, Subjects, Owning
  <2>2. docs' \subseteq Docs \cup Runs
    BY <1>9, <2>1 DEF Documents, At, Typed, TypeOK
  <2>3. IsFiniteSet(docs \cup {req[r].doc}) /\ IsFiniteSet(docs \ {req[r].doc})
    BY Zenon, FS_AddElement, FS_RemoveElement DEF Typed
  <2>4. IsFiniteSet(docs')
    BY Zenon, <1>9, <2>3 DEF Documents
  <2> QED BY <1>1, <1>9, <2>2, <2>4 DEF Documents, Metas, Typed, TypeOK
<1> QED BY Zenon, <1>2, <1>3, <1>4, <1>5, <1>6, <1>7, <1>8, <1>9
        DEF Turn, Breaks, Quits, Repeats, Advances, Collects, Finishes, Reads

\* The lock or a reservation lapses, or the session goes.
LEMMA TypedFault ==
  ASSUME SessionConstants, Typed, Shaped,
         \/ LockLapses
         \/ \E k \in Keys : ReservationLapses(k)
         \/ \E l \in {Nobody, lock} : Vanish(l)
  PROVE  Typed' /\ Shaped' /\ req' = req
<1>1. CASE LockLapses
  BY Zenon, <1>1 DEF LockLapses, content, Typed, TypeOK, Shaped
<1>2. CASE \E k \in Keys : ReservationLapses(k)
  <2>1. PICK k \in Keys : ReservationLapses(k)
    BY Zenon, <1>2
  <2> DEFINE w == [idem[k] EXCEPT !.live = FALSE]
  <2>2. w \in Item_
    BY Zenon, <2>1, ItemTypes DEF ReservationLapses, Live, Item_
  <2>3. idem' = [idem EXCEPT ![k] = w]
    BY Zenon, <2>1 DEF ReservationLapses
  <2> HIDE DEF w
  <2>4. idem' \in [Keys -> Item_]
    BY <2>2, <2>3 DEF Typed, TypeOK
  <2> QED BY Zenon, <2>1, <2>4 DEF ReservationLapses, content, Typed, TypeOK, Shaped
<1>3. CASE \E l \in {Nobody, lock} : Vanish(l)
  <2>1. PICK l \in {Nobody, lock} : Vanish(l)
    BY <1>3
  <2>2. log' \in Seq(Entries) /\ Len(log') = 0
    BY <2>1 DEF Vanish
  <2>3. meta' \in Metas(Len(log'))
    BY Zenon, <2>1, <2>2 DEF Vanish, NoMeta, Metas
  <2>4. idem' \in [Keys -> Item_]
    BY Zenon, <2>1 DEF Vanish, NoItem, Item_
  <2>5. IsFiniteSet(docs')
    BY Zenon, <2>1, FS_EmptySet DEF Vanish
  <2> QED BY <2>1, <2>2, <2>3, <2>4, <2>5 DEF Vanish, Metas, Typed, TypeOK, Shaped
<1> QED BY <1>1, <1>2, <1>3

LEMMA TypedInit ==
  ASSUME SessionConstants, Init
  PROVE  Typed /\ Shaped
<1>1. \A i \in 1..Legacy : log[i] = [index |-> i, key |-> Nobody, print |-> Nobody]
  BY Zenon DEF Init
<1>2. log \in Seq(Entries) /\ Len(log) = Legacy
  <2> DEFINE F == [i \in 1..Legacy |-> [index |-> i, key |-> Nobody, print |-> Nobody]]
  <2>1. Legacy \in Nat
    BY Zenon DEF SessionConstants
  <2>2. F \in [1..Legacy -> Entries]
    BY <2>1 DEF Entries
  <2>3. log = F
    BY Zenon DEF Init
  <2> HIDE DEF F
  <2>4. DOMAIN log = 1..Legacy
    BY Zenon, <2>2, <2>3
  <2>5. log \in Seq(Entries)
    BY <2>1, <2>2, <2>3
  <2>6. Len(log) \in Nat /\ DOMAIN log = 1..Len(log)
    BY <2>5
  <2>7. Len(log) = Legacy
    BY ONLY <2>1, <2>4, <2>6
  <2> QED BY Zenon, <2>5, <2>7
<1>3. meta \in Metas(Len(log))
  BY Zenon, <1>2 DEF Init, NoMeta, Metas, SessionConstants
<1>4. NoReq \in Tasks
  <2>1. <<>> \in Seq(SUBSET Nat) /\ <<>> \in Seq(SUBSET (Nat \cup Docs \cup Runs))
    OBVIOUS
  <2> QED BY Zenon, <2>1 DEF NoReq, Tasks, Paths
<1>5. req \in [Requests -> Tasks] /\ \A r \in Requests : req[r] = NoReq
  BY Zenon, <1>4 DEF Init
<1>6. ShapedTask(NoReq)
  BY Zenon DEF NoReq, ShapedTask, Owning, Reserving
<1>7. idem \in [Keys -> Item_]
  BY Zenon DEF Init, NoItem, Item_
<1>8. refs \subseteq Nat /\ artifact \subseteq Nat /\ docs = {} /\ lock = Nobody /\ IsFiniteSet({})
  BY FS_EmptySet DEF Init, SessionConstants
<1> QED BY <1>2, <1>3, <1>5, <1>6, <1>7, <1>8 DEF Typed, TypeOK, Metas, Shaped

\* A published step whose index nobody has.
LEMMA NumberedGrows ==
  ASSUME Typed, Typed', Numbered, NEW e \in Entries, log' = Append(log, e),
         e.index \notin Indices, meta'.next_step_index >= meta.next_step_index,
         e.index <= High \/ e.index = meta'.next_step_index,
         \A k \in Keys : idem'[k].status = "pending" =>
           /\ idem[k].status = "pending" /\ idem'[k].index = idem[k].index
           /\ idem[k].index # e.index
  PROVE  Numbered'
<1>1. /\ Len(log) \in Nat /\ Len(log') = Len(log) + 1
      /\ Indices' = Indices \cup {e.index}
  BY Zenon, LogGrows
<1>2. High' >= High /\ High \in Nat /\ High' \in Nat /\ High' >= meta'.next_step_index
  BY <1>1, HighNext
<1>3. \A i \in Indices : i \in Nat /\ i <= High
  BY Zenon, LogEntries DEF Numbered, Bounded
<1>4. \A k \in Keys : idem[k].status = "pending" => idem[k].index \in Nat /\ idem[k].index <= High
  BY Zenon, ItemTypes DEF Numbered, Bounded
<1>5. e.index \in Nat /\ meta'.next_step_index \in Nat
  BY Zenon DEF Entries, Typed, TypeOK
<1>6. Bounded'
  BY <1>1, <1>2, <1>3, <1>4, <1>5 DEF Bounded
<1>7. IsFiniteSet(Indices') /\ Cardinality(Indices') = Len(log')
  <2>1. IsFiniteSet(Indices) /\ Cardinality(Indices) = Len(log)
    BY Zenon DEF Numbered, IndicesUnique
  <2>2. IsFiniteSet(Indices \cup {e.index}) /\ Cardinality(Indices \cup {e.index}) = Len(log) + 1
    BY Zenon, <2>1, FS_AddElement
  <2> QED BY Zenon, <1>1, <2>2
<1>8. IndicesUnique'
  BY <1>1, <1>7 DEF Numbered, IndicesUnique, Typed
<1> QED BY Zenon, <1>6, <1>7, <1>8 DEF Numbered

LEMMA NumberedTurn ==
  ASSUME SessionConstants, Typed, Typed', Shaped, Reserved, Numbered,
         NEW r \in Requests, Only(r), Turn(r)
  PROVE  Numbered'
<1>1. CASE Reserves(r)
  BY Zenon, <1>1, NumberedReserves
<1>2. CASE Publishes(r)
  <2> DEFINE e == [index |-> req[r].index, key |-> req[r].key, print |-> req[r].print]
  <2>1. req[r].key \in Keys
    BY Zenon, <1>2, PublishesItems
  <2>2. idem[req[r].key].status = "pending" /\ req[r].index = idem[req[r].key].index
    BY <1>2, <2>1 DEF Publishes, Mine, Item, At, Reserved, Keeps
  <2>3. e \in Entries /\ e.index = req[r].index
    BY Zenon DEF Entries, Typed, Tasks
  <2>4. log' = Append(log, e)
    BY Zenon, <1>2 DEF Publishes
  <2> HIDE DEF e
  <2>5. req[r].index \notin Indices /\ req[r].index <= High
    BY <2>1, <2>2 DEF Numbered, IndicesUnique, Bounded
  <2>6. meta'.next_step_index = meta.next_step_index /\ meta.next_step_index \in Nat
    BY Zenon, <1>2 DEF Publishes, Typed, TypeOK
  <2>7. \A k \in Keys : idem'[k].status = "pending" =>
          /\ idem[k].status = "pending" /\ idem'[k].index = idem[k].index
          /\ idem[k].index # req[r].index
    <3>1. \A k \in Keys : idem'[k].status = "pending" =>
            idem[k].status = "pending" /\ idem'[k].index = idem[k].index /\ k # req[r].key
      BY Zenon, <1>2, PublishesItems
    <3>2. \A k \in Keys : \A j \in Keys \ {k} :
            idem[k].status = "pending" /\ idem[j].status = "pending" =>
              idem[j].index # idem[k].index
      BY Zenon DEF Numbered, IndicesUnique
    <3> QED BY <2>1, <2>2, <3>1, <3>2
  <2> QED BY <2>3, <2>4, <2>5, <2>6, <2>7, NumberedGrows
<1>3. CASE Steps(r)
  <2> DEFINE e == [index |-> NextIndex, key |-> Nobody, print |-> Nobody]
  <2>1. High \in Nat /\ NextIndex = High + 1 /\ meta.next_step_index <= High
        /\ meta.next_step_index \in Nat
    BY Zenon, Counters DEF Typed, TypeOK
  <2>2. e \in Entries /\ e.index = NextIndex
    BY <2>1 DEF Entries
  <2>3. log' = Append(log, e) /\ idem' = idem
    BY Zenon, <1>3 DEF Steps
  <2> HIDE DEF e
  <2>4. meta'.next_step_index = NextIndex
    BY Zenon, <1>3 DEF Steps, Typed, TypeOK
  <2>5. \A i \in Indices : i \in Nat /\ i <= High
    BY Zenon, LogEntries DEF Numbered, Bounded
  <2>6. \A j \in Keys : idem[j].status = "pending" => idem[j].index \in Nat /\ idem[j].index <= High
    BY Zenon, ItemTypes DEF Numbered, Bounded
  <2>7. NextIndex \notin Indices /\ meta'.next_step_index >= meta.next_step_index
    BY <2>1, <2>4, <2>5
  <2>8. \A k \in Keys : idem'[k].status = "pending" =>
          /\ idem[k].status = "pending" /\ idem'[k].index = idem[k].index
          /\ idem[k].index # NextIndex
    BY <2>1, <2>3, <2>6
  <2> QED BY <2>2, <2>3, <2>4, <2>7, <2>8, NumberedGrows
<1>4. CASE ~Reserves(r) /\ ~Publishes(r) /\ ~Steps(r)
  <2>1. log' = log /\ meta'.next_step_index = meta.next_step_index
    BY Zenon, <1>4 DEF Turn, Breaks, Still, content, Quits, Repeats, Advances, Collects, Finishes, Releases, Locks,
                Reads, Refers, Sections, Documents, Unlocks
  <2>2. \A k \in Keys : idem'[k].status = "pending" => idem'[k] = idem[k]
    BY <1>4, OtherItems, ReleasesItems
  <2>3. meta.next_step_index \in Nat
    BY Zenon DEF Typed, TypeOK
  <2> QED BY <2>1, <2>2, <2>3, NumberedStill
<1> QED BY <1>1, <1>2, <1>3, <1>4

LEMMA NumberedFault ==
  ASSUME SessionConstants, Typed, Typed', Numbered,
         \/ LockLapses
         \/ \E k \in Keys : ReservationLapses(k)
         \/ \E l \in {Nobody, lock} : Vanish(l)
  PROVE  Numbered'
<1>1. meta.next_step_index \in Nat
  BY Zenon DEF Typed, TypeOK
<1>2. CASE LockLapses
  BY <1>1, <1>2, NumberedStill DEF LockLapses, content
<1>3. CASE \E k \in Keys : ReservationLapses(k)
  BY <1>1, <1>3, LapseKeeps, NumberedStill DEF content
<1>4. CASE \E l \in {Nobody, lock} : Vanish(l)
  <2>1. log' = <<>> /\ \A k \in Keys : idem'[k].status = "absent"
    BY <1>4 DEF Vanish, NoItem
  <2>2. DOMAIN log' = {} /\ Len(log') = 0
    BY <2>1
  <2>3. Indices' = {}
    BY Zenon, <2>2 DEF Indices
  <2>4. IsFiniteSet(Indices') /\ Cardinality(Indices') = 0
    BY Zenon, <2>3, FS_EmptySet
  <2> QED BY Zenon, <2>1, <2>2, <2>3, <2>4 DEF Numbered, IndicesUnique, Bounded, Typed
<1> QED BY <1>2, <1>3, <1>4

LEMMA QuotaTurn ==
  ASSUME SessionConstants, Typed, Shaped, OwnerReadsCurrent, NEW r \in Requests, Only(r), Turn(r)
  PROVE  Cardinality(docs' \cap Docs) <= MaxDocs
<1>1. IsFiniteSet(docs \cap Docs) /\ Cardinality(docs \cap Docs) <= MaxDocs
  BY Zenon, FS_Subset DEF Typed, OwnerReadsCurrent
<1>2. CASE docs' \cap Docs = docs \cap Docs
  BY Zenon, <1>1, <1>2
<1>3. CASE Documents(r)
  <2>1. ShapedTask(req[r]) /\ MayWrite(r)
    BY Zenon, <1>3 DEF Shaped, Documents
  <2>2. CASE At(r, "adding") /\ docs' = docs \cup {req[r].doc}
    <3>1. req[r].doc \in Docs /\ req[r].sawRefs # <<>> /\ ~OverQuota(req[r].sawRefs[2], req[r].doc)
      BY Zenon, <2>1, <2>2 DEF ShapedTask, At, Subjects, Owning
    <3>2. docs = req[r].sawRefs[2]
      BY Zenon, <2>1, <2>2, <3>1 DEF OwnerReadsCurrent, MayWrite, At, Owning
    <3>3. docs' \cap Docs = (docs \cap Docs) \cup {req[r].doc}
      BY Zenon, <2>2, <3>1
    <3>4. ~(Cardinality((docs \cap Docs) \cup {req[r].doc}) > MaxDocs)
      BY Zenon, <3>1, <3>2 DEF OverQuota
    <3>5. Cardinality((docs \cap Docs) \cup {req[r].doc}) \in Nat
      BY SMTT(30), <1>1, FS_AddElement, FS_CardinalityType
    <3> QED BY <3>3, <3>4, <3>5 DEF SessionConstants
  <2>3. CASE At(r, "removing") /\ docs' = docs \ {req[r].doc}
    <3>1. docs' \cap Docs \subseteq docs \cap Docs
      BY Zenon, <2>3
    <3>2. Cardinality(docs' \cap Docs) <= Cardinality(docs \cap Docs)
          /\ Cardinality(docs' \cap Docs) \in Nat /\ Cardinality(docs \cap Docs) \in Nat
      BY Zenon, <1>1, <3>1, FS_Subset, FS_CardinalityType
    <3> QED BY <1>1, <3>2 DEF SessionConstants
  <2>4. CASE At(r, "attaching") /\ docs' = docs \cup {req[r].doc}
    <3>1. req[r].doc \in Runs
      BY Zenon, <2>1, <2>4 DEF ShapedTask, At, Subjects, Owning
    <3>2. docs' \cap Docs = docs \cap Docs
      BY Zenon, <2>4, <3>1 DEF SessionConstants
    <3> QED BY Zenon, <1>2, <3>2
  <2> QED BY <1>3, <2>2, <2>3, <2>4 DEF Documents
<1>4. CASE ~Documents(r)
  <2>1. docs' = docs
    BY Zenon, <1>4 DEF Turn, Breaks, Still, content, Quits, Repeats, Reserves, Advances, Collects, Publishes, Finishes,
                Releases, Locks, Reads, Steps, Refers, Sections, Unlocks
  <2> QED BY <1>2, <2>1
<1> QED BY Zenon, <1>3, <1>4

LEMMA OwnerReadsTurn ==
  ASSUME SessionConstants, Typed, Shaped, Holds, NoneLive, RefsSeen, OwnerReadsCurrent,
         NEW r \in Requests, Only(r), Turn(r)
  PROVE  OwnerReadsCurrent'
<1> SUFFICES ASSUME NEW o \in Requests, lock' = o, meta'.exists, req'[o].pc \in Owning
             PROVE  /\ req'[o].sawArtifact # <<>> =>
                         artifact' \ req'[o].sawArtifact[1] \subseteq late'
                    /\ req'[o].sawRefs # <<>> =>
                         /\ refs' \ req'[o].sawRefs[1] \subseteq late' \cup {req'[o].index}
                         /\ docs' = req'[o].sawRefs[2]
  BY Zenon, QuotaTurn DEF OwnerReadsCurrent
<1>1. meta.exists
  BY Zenon, TurnGrows
<1>2. lock = o /\ req[o].pc \in Owning =>
        /\ req[o].sawArtifact # <<>> => artifact \ req[o].sawArtifact[1] \subseteq late
        /\ req[o].sawRefs # <<>> =>
             /\ refs \ req[o].sawRefs[1] \subseteq late \cup {req[o].index}
             /\ docs = req[o].sawRefs[2]
  BY Zenon, <1>1 DEF OwnerReadsCurrent
<1>3. CASE o # r
  <2>1. lock = o /\ req'[o] = req[o] /\ (Publishes(r) \/ UNCHANGED <<content, late>>)
    BY Zenon, <1>3, OthersTurn
  <2>2. CASE Publishes(r)
    <3>1. CASE req[o].pc = "owning"
      BY Zenon, <2>1, <3>1 DEF Shaped, ShapedTask
    <3>2. CASE req[o].pc # "owning"
      <4>1. ~Live(req[r].key)
        BY Zenon, <2>1, <2>2, <3>2, PublishesItems DEF NoneLive
      <4> QED BY <1>2, <2>1, <2>2, <4>1 DEF Publishes
    <3> QED BY Zenon, <3>1, <3>2
  <2> QED BY <1>2, <2>1, <2>2 DEF content
<1>4. CASE o = r
  <2>1. CASE Locks(r)
    BY <1>4, <2>1 DEF Locks
  <2>2. CASE Advances(r) /\ At(r, "owning")
    BY Zenon, <1>4, <2>2 DEF Advances, Same, At, Shaped, ShapedTask
  <2>3. CASE lock = r /\ Reads(r)
    <3>1. req[r].pc \in Owning /\ UNCHANGED <<refs, artifact, docs, late>>
          /\ req'[r].index = req[r].index
      BY Zenon, <2>3 DEF Reads, Still, content, At, Owning
    <3>2. req'[r].sawArtifact = <<artifact>> => req'[r].sawArtifact[1] = artifact
      OBVIOUS
    <3>3. req'[r].sawRefs = <<refs, docs>> =>
            req'[r].sawRefs[1] = refs /\ req'[r].sawRefs[2] = docs
      OBVIOUS
    <3>4. req'[r].sawArtifact = req[r].sawArtifact \/ req'[r].sawArtifact = <<artifact>>
      BY Zenon, <2>3 DEF Reads
    <3>5. req'[r].sawRefs = req[r].sawRefs \/ req'[r].sawRefs = <<refs, docs>>
      BY Zenon, <2>3 DEF Reads
    <3> QED BY Zenon, <1>2, <1>4, <2>3, <3>1, <3>2, <3>3, <3>4, <3>5
  <2>4. CASE lock = r /\ Steps(r)
    <3>1. refs \ req[r].sawRefs[1] \subseteq late \/ req[r].sawRefs = <<>>
      BY <1>1, <1>4, <2>4 DEF Steps, At, Owning, RefsSeen
    <3> QED BY <1>2, <1>4, <2>4, <3>1 DEF Steps, At, Owning
  <2>5. CASE lock = r /\ Refers(r)
    BY <1>2, <1>4, <2>5 DEF Refers, Same, At, Owning
  <2> QED BY Zenon, <1>4, <2>1, <2>2, <2>3, <2>4, <2>5, OwnerTurn
<1> QED BY Zenon, <1>3, <1>4

LEMMA LockFault ==
  ASSUME SessionConstants, Typed, Holds, NoneLive, RefsSeen, OwnerReadsCurrent, req' = req,
         \/ LockLapses
         \/ \E k \in Keys : ReservationLapses(k)
         \/ \E l \in {Nobody, lock} : Vanish(l)
  PROVE  Holds' /\ NoneLive' /\ RefsSeen' /\ OwnerReadsCurrent'
<1>1. Nobody \notin Requests /\ MaxDocs \in Nat
  BY Zenon DEF SessionConstants
<1>2. CASE LockLapses
  BY Zenon, <1>1, <1>2 DEF LockLapses, content, Holds, NoneLive, RefsSeen, OwnerReadsCurrent
<1>3. CASE \E k \in Keys : ReservationLapses(k)
  <2>1. (\A j \in Keys : Live(j)' => Live(j)) /\ UNCHANGED <<meta, content, lock, req, late>>
    BY Zenon, <1>3, LapseKeeps
  <2>2. NoneLive'
    BY Zenon, <2>1 DEF NoneLive
  <2> QED BY Zenon, <2>1, <2>2 DEF content, Holds, RefsSeen, OwnerReadsCurrent
<1>4. CASE \E l \in {Nobody, lock} : Vanish(l)
  <2>1. /\ ~meta'.exists /\ docs' = {} /\ lock' \in {Nobody, lock}
        /\ \A k \in Keys : idem'[k].status = "absent"
    BY <1>4 DEF Vanish, NoItem, NoMeta
  <2>2. Cardinality(docs' \cap Docs) <= MaxDocs
    <3>1. docs' \cap Docs = {}
      BY Zenon, <2>1
    <3> QED BY <1>1, <3>1, FS_EmptySet
  <2> QED BY <1>1, <2>1, <2>2 DEF Holds, NoneLive, Live, RefsSeen, OwnerReadsCurrent
<1> QED BY Zenon, <1>2, <1>3, <1>4

-----------------------------------------------------------------------------
(***************************************************************************)
(* The invariant and what follows from it.                                 *)
(***************************************************************************)
LEMMA SessionInit ==
  ASSUME SessionConstants, Init
  PROVE  IInv
<1>1. Typed /\ Shaped
  BY Zenon, TypedInit
<1>2. /\ DOMAIN log = 1..Legacy /\ Legacy \in Nat
      /\ \A i \in 1..Legacy : log[i] = [index |-> i, key |-> Nobody, print |-> Nobody]
  BY Zenon DEF Init, SessionConstants
<1>3. \A i \in 1..Legacy : log[i].index = i /\ log[i].key = Nobody
  BY <1>2
<1>4. Indices = 1..Legacy
  BY Zenon, <1>2, <1>3 DEF Indices
<1>5. IsFiniteSet(Indices) /\ Cardinality(Indices) = Legacy
  BY <1>2, <1>4, FS_Interval
<1>6. Len(log) = Legacy
  BY <1>1, <1>2 DEF Typed
<1>7. \A k \in Keys : idem[k].status = "absent"
  BY Zenon DEF Init, NoItem
<1>8. Numbered
  <2>1. Legacy <= High /\ High \in Nat
    BY Zenon, <1>1, <1>6, Counters
  <2> QED BY <1>1, <1>2, <1>4, <1>5, <1>6, <1>7, <2>1 DEF Numbered, IndicesUnique, Bounded, Typed
<1>9. \A r \in Requests : req[r].answer = 0 /\ req[r].pc = "new"
  BY Zenon DEF Init, NoReq
<1>10. lock = Nobody /\ Nobody \notin Requests /\ meta.exists /\ docs = {}
  BY Zenon DEF Init, NoMeta, SessionConstants
<1>11. Reserved /\ KeysLogged /\ OneStepPerKey
  BY ZenonT(30), <1>2, <1>3, <1>7, <1>9 DEF Reserved, KeysLogged, OneStepPerKey
<1>12. Holds /\ NoneLive /\ RefsSeen /\ Written /\ Gone
  BY ZenonT(30), <1>9, <1>10 DEF Holds, NoneLive, RefsSeen, Written, Gone
<1>13. OwnerReadsCurrent
  <2>1. docs \cap Docs = {} /\ MaxDocs \in Nat
    BY Zenon, <1>10 DEF SessionConstants
  <2> QED BY <1>10, <2>1, FS_EmptySet DEF OwnerReadsCurrent
<1> QED BY <1>1, <1>8, <1>11, <1>12, <1>13 DEF IInv

LEMMA SessionStep ==
  ASSUME SessionConstants, IInv, [Next]_vars
  PROVE  IInv'
<1>1. /\ Typed /\ Shaped /\ Reserved /\ Numbered /\ KeysLogged /\ OneStepPerKey
      /\ Holds /\ NoneLive /\ RefsSeen /\ OwnerReadsCurrent /\ Written /\ Gone
  BY Zenon DEF IInv
<1>2. CASE UNCHANGED vars
  <2>1. Typed' /\ Shaped' /\ Reserved'
    BY Zenon, <1>1, <1>2 DEF vars, Typed, TypeOK, Shaped, Reserved, Keeps
  <2>2. Numbered'
    <3>1. Indices' = Indices /\ High' = High
      BY Zenon, <1>2 DEF vars, Indices, High
    <3>2. IndicesUnique'
      BY <1>1, <1>2, <2>1, <3>1 DEF vars, Numbered, IndicesUnique, Typed
    <3> QED BY <1>1, <1>2, <3>1, <3>2 DEF vars, Numbered, Bounded
  <2>3. KeysLogged' /\ OneStepPerKey'
    BY ZenonT(30), <1>1, <1>2 DEF vars, KeysLogged, OneStepPerKey, Logged
  <2>5. Written' /\ Gone'
    BY Zenon, <1>1, <1>2 DEF vars, Written, Indices, Gone
  <2>4. Holds' /\ NoneLive' /\ RefsSeen' /\ OwnerReadsCurrent'
    BY Zenon, <1>1, <1>2 DEF vars, Holds, NoneLive, Live, RefsSeen, OwnerReadsCurrent
  <2> QED BY <2>1, <2>2, <2>3, <2>4, <2>5 DEF IInv
<1>3. ASSUME NEW r \in Requests, Only(r), Turn(r) PROVE IInv'
  <2>1. Typed' /\ Shaped' /\ Reserved'
    BY <1>1, <1>3, TypedTurn, ShapedTurn, ReservedTurn
  <2>2. Numbered' /\ KeysLogged' /\ OneStepPerKey'
    BY <1>1, <1>3, <2>1, NumberedTurn, KeysLoggedTurn, OneStepTurn
  <2>3. Holds' /\ NoneLive' /\ RefsSeen' /\ OwnerReadsCurrent'
    BY <1>1, <1>3, HoldsTurn, NoneLiveTurn, RefsSeenTurn, OwnerReadsTurn
  <2>4. Written' /\ Gone'
    BY <1>1, <1>3, WrittenTurn, GoneTurn
  <2> QED BY <2>1, <2>2, <2>3, <2>4 DEF IInv
<1>4. CASE \/ LockLapses
           \/ \E k \in Keys : ReservationLapses(k)
           \/ \E l \in {Nobody, lock} : Vanish(l)
  <2>1. Typed' /\ Shaped' /\ req' = req
    BY Zenon, <1>1, <1>4, TypedFault
  <2>2. Reserved' /\ Numbered'
    BY <1>1, <1>4, <2>1, ReservedFault, NumberedFault
  <2>3. KeysLogged' /\ OneStepPerKey' /\ Written' /\ Gone'
    BY <1>1, <1>4, <2>1, HistoryFault
  <2>4. Holds' /\ NoneLive' /\ RefsSeen' /\ OwnerReadsCurrent'
    BY <1>1, <1>4, <2>1, LockFault
  <2> QED BY <2>1, <2>2, <2>3, <2>4 DEF IInv
<1> QED BY Zenon, <1>1, <1>2, <1>3, <1>4, Turns

LEMMA SessionInvariant == Spec => []IInv
<1>1. Init => IInv
  BY Zenon, SessionConstants, SessionInit
<1>2. IInv /\ [Next]_vars => IInv'
  BY Zenon, SessionConstants, SessionStep
<1> QED BY <1>1, <1>2, PTL DEF Spec

(***************************************************************************)
(* The scripts of session_store.py give a step index out once, whatever    *)
(* the interleaving of reservations, commits, serialized appends, lapses   *)
(* and deletions, and also in a session whose counter was never stored.    *)
(***************************************************************************)
THEOREM SessionIndicesUnique == Spec => []IndicesUnique
<1>1. IInv => IndicesUnique
  BY Zenon DEF IInv, Numbered
<1> QED BY <1>1, SessionInvariant, PTL

(***************************************************************************)
(* reserve_step and commit_step publish a key at most once, and every      *)
(* request answered for a key has that step and asked for it.              *)
(***************************************************************************)
THEOREM SessionOneStepPerKey == Spec => []OneStepPerKey
<1>1. IInv => OneStepPerKey
  BY DEF IInv
<1> QED BY <1>1, SessionInvariant, PTL

(***************************************************************************)
(* While a serialized operation owns the lock, what it has read changes    *)
(* only by commits that read their clock before their lease lapsed, so the *)
(* quota check_document_quota evaluates on a snapshot holds at the write.  *)
(***************************************************************************)
THEOREM SessionOwnerReadsCurrent == Spec => []OwnerReadsCurrent
<1>1. IInv => OwnerReadsCurrent
  BY DEF IInv
<1> QED BY <1>1, SessionInvariant, PTL

(***************************************************************************)
(* A step answered as done is in the history with its section and its      *)
(* references.                                                             *)
(***************************************************************************)
THEOREM SessionAnsweredComplete == Spec => []AnsweredComplete
<1>1. IInv => AnsweredComplete
  BY DEF IInv, Written, AnsweredComplete
<1> QED BY <1>1, SessionInvariant, PTL

(***************************************************************************)
(* A request that has ended owns neither the lock nor a reservation,       *)
(* unless its own call to take or to return them raised, and a late write  *)
(* brings nothing of a deleted or expired session back.                    *)
(***************************************************************************)
THEOREM SessionNothingLeftBehind == Spec => []NothingLeftBehind
<1>1. IInv => NothingLeftBehind
  <2> SUFFICES ASSUME IInv PROVE NothingLeftBehind
    BY Zenon
  <2>1. \A r \in Requests : At(r, "ended") => lock # r
    BY Zenon DEF IInv, Holds, At, Owning
  <2>2. \A r \in Requests, k \in Keys :
          At(r, "ended") /\ idem[k].status = "pending" => idem[k].token # r
    BY Zenon DEF IInv, Reserved, Keeps, At
  <2> QED BY Zenon, <2>1, <2>2 DEF IInv, Gone, NothingLeftBehind
<1> QED BY <1>1, SessionInvariant, PTL
=============================================================================
