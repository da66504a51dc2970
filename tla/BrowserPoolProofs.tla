------------------------- MODULE BrowserPoolProofs -------------------------
(***************************************************************************)
(* Proofs about BrowserPool, for every number of requests, processes and   *)
(* fingerprints.                                                           *)
(*                                                                         *)
(* The pool decides on three numbers, the entries it has and the counters  *)
(* _launching and _closing_processes, while the processes themselves are   *)
(* in the hands of tasks that may be cancelled.  Counted says what the     *)
(* counters count: a launch that has not returned or a process nobody has  *)
(* registered yet, and a process that is closing or whose capacity is not  *)
(* released.  Bound says in whose hands a process is.  From both follow    *)
(* the bound on native processes, exact leases, and a pool that is empty   *)
(* when close() has returned.                                              *)
(***************************************************************************)
EXTENDS BrowserPool, FiniteSetTheorems, TLAPS

Places == {"new", "loop", "wait", "evict", "launch", "abandon", "launched", "setup", "drop",
           "leased", "release", "closing", "done"}
Calls == [pc : Places, fp : Fingerprints \cup {Absent},
          b : Browsers \cup {Absent, Gone}, healthy : BOOLEAN]
States == {"none", "native", "pooled", "closing", "exited"}
Processes == [state : States,
              fp : Fingerprints \cup {Absent}, leases : Nat, retiring : BOOLEAN]

\* Launches that have not returned, processes not yet registered, and processes
\* whose capacity is not released.
Waiting == {r \in Reqs : req[r].pc \in {"launch", "abandon"} /\ req[r].b = Absent}
Natives == {b \in Browsers : browser[b].state = "native"}
Closers == {b \in Browsers : browser[b].state \in {"closing", "exited"}}

\* What the pool's counters count, and that together they stay within capacity.
Counted ==
  /\ IsFiniteSet(Waiting)
  /\ launching = Cardinality(Waiting) + Cardinality(Natives)
  /\ closings = Cardinality(Closers)
  /\ ProcessCount <= MaxProcesses

\* r launched a process that is not registered.
Carries(r) == At(r, "launched") \/ (At(r, "abandon") /\ req[r].b # Absent)

Holding == {"setup", "drop", "leased", "release"}

\* In whose hands a process is.
Bound ==
  /\ \A r \in Reqs :
       /\ req[r].pc \in {"new", "loop", "wait", "launch"} => req[r].b = Absent
       /\ Carries(r) => req[r].b \in Natives
       /\ req[r].pc \in Holding => req[r].b \in Entries \cup {Gone}
  /\ \A r, s \in Reqs : Carries(r) /\ Carries(s) /\ req[r].b = req[s].b => r = s

\* The holders of a process are as many as its lease count says.
Leased == \A b \in Entries : IsFiniteSet(Holders(b)) /\ browser[b].leases = Cardinality(Holders(b))

\* After close() detached every process, none comes until the pool is started.
Drained ==
  /\ shut = "draining" => started /\ closing
  /\ ~started /\ shut \in {"closing", "done"} =>
       /\ closing /\ launching = 0 /\ Entries = {}
       /\ shut = "done" => closings = 0

IInv == TypeOK /\ Counted /\ Bound /\ Leased /\ Drained

-----------------------------------------------------------------------------
LEMMA Types ==
    TypeOK <=> /\ req \in [Reqs -> Calls] /\ browser \in [Browsers -> Processes]
               /\ launching \in Nat /\ closings \in Nat
               /\ started \in BOOLEAN /\ closing \in BOOLEAN
               /\ shut \in {"no", "draining", "closing", "done"}
  BY Zenon DEF TypeOK, Calls, Places, Processes, States

LEMMA TypesNext ==
    TypeOK' <=> /\ req' \in [Reqs -> Calls] /\ browser' \in [Browsers -> Processes]
                /\ launching' \in Nat /\ closings' \in Nat
                /\ started' \in BOOLEAN /\ closing' \in BOOLEAN
                /\ shut' \in {"no", "draining", "closing", "done"}
  BY Zenon DEF TypeOK, Calls, Places, Processes, States

\* A request goes where its own move takes it, but a waiting one is woken.
Moves(p, q) == q = p \/ (p = "wait" /\ q = "loop")

LEMMA WakeUp ==
    ASSUME NEW q \in [Reqs -> Calls]
    PROVE  /\ Woken(q) \in [Reqs -> Calls]
           /\ \A x \in Reqs : Woken(q)[x].b = q[x].b /\ Moves(q[x].pc, Woken(q)[x].pc)
  <1>1. \A c \in Calls : /\ [c EXCEPT !.pc = "loop"] \in Calls
                         /\ [c EXCEPT !.pc = "loop"].b = c.b
                         /\ [c EXCEPT !.pc = "loop"].pc = "loop"
    BY Zenon DEF Calls, Places
  <1> QED
    BY Zenon, <1>1 DEF Woken, Moves

\* Only r does something of its own.
Calm(r) ==
    /\ req' \in [Reqs -> Calls]
    /\ \A x \in Reqs \ {r} : req'[x].b = req[x].b /\ Moves(req[x].pc, req'[x].pc)

Keeps(b) ==
    /\ browser' \in [Browsers -> Processes]
    /\ \A c \in Browsers \ {b} : browser'[c] = browser[c]

\* r moves to pc with the process it had.
LEMMA CallMoves ==
    ASSUME TypeOK, NEW r \in Reqs, NEW pc \in Places,
           req' = Moved(r, pc) \/ (pc # "wait" /\ req' = Woken(Moved(r, pc)))
    PROVE  Calm(r) /\ req'[r].pc = pc /\ req'[r].b = req[r].b
  <1>1. req \in [Reqs -> Calls]
    BY Zenon, Types
  <1>2. /\ Moved(r, pc) \in [Reqs -> Calls]
        /\ Moved(r, pc)[r].pc = pc /\ Moved(r, pc)[r].b = req[r].b
        /\ \A x \in Reqs \ {r} : Moved(r, pc)[x] = req[x]
    BY Zenon, <1>1 DEF Moved, Calls
  <1> QED
    BY <1>2, WakeUp DEF Calm, Moves

\* r moves to pc with process b.
LEMMA CallTakes ==
    ASSUME TypeOK, NEW r \in Reqs, NEW pc \in Places \ {"wait"},
           NEW b \in Browsers \cup {Absent, Gone},
           \/ req' = [req EXCEPT ![r].pc = pc, ![r].b = b]
           \/ req' = [req EXCEPT ![r].b = b, ![r].pc = pc]
           \/ req' = Woken([req EXCEPT ![r].pc = pc, ![r].b = b])
    PROVE  Calm(r) /\ req'[r].pc = pc /\ req'[r].b = b
  <1>1. req \in [Reqs -> Calls]
    BY Zenon, Types
  <1> DEFINE q == [req EXCEPT ![r].pc = pc, ![r].b = b]
  <1>2. /\ q \in [Reqs -> Calls]
        /\ q[r].pc = pc /\ q[r].b = b
        /\ \A x \in Reqs \ {r} : q[x] = req[x]
    BY Zenon, <1>1 DEF Calls
  <1> DEFINE z == [req EXCEPT ![r].b = b, ![r].pc = pc]
  <1>3. /\ z \in [Reqs -> Calls]
        /\ z[r].pc = pc /\ z[r].b = b
        /\ \A x \in Reqs \ {r} : z[x] = req[x]
    BY Zenon, <1>1 DEF Calls
  <1>4. req' = q \/ req' = z \/ req' = Woken(q)
    BY Zenon
  <1> HIDE DEF q, z
  <1> QED
    BY <1>2, <1>3, <1>4, WakeUp DEF Calm, Moves

\* A process is detached from the pool, closed, replaced or registered.
LEMMA ProcessMoves ==
    ASSUME TypeOK, NEW b \in Browsers
    PROVE  /\ browser' = Detached(b) => Keeps(b) /\ browser'[b].state = "closing"
           /\ browser' = [browser EXCEPT ![b].state = "exited"] =>
                 Keeps(b) /\ browser'[b].state = "exited"
           /\ browser' = [browser EXCEPT ![b] = NoEntry] =>
                 Keeps(b) /\ browser'[b].state = "none"
           /\ browser' = [browser EXCEPT ![b].state = "pooled", ![b].leases = 1] =>
                 Keeps(b) /\ browser'[b].state = "pooled" /\ browser'[b].leases = 1
           /\ browser' = [browser EXCEPT ![b].leases = @ + 1] =>
                 /\ Keeps(b) /\ browser'[b].state = browser[b].state
                 /\ browser'[b].leases = browser[b].leases + 1
           /\ \A f \in Fingerprints \cup {Absent} :
                 browser' = [browser EXCEPT ![b].state = "native", ![b].fp = f] =>
                    Keeps(b) /\ browser'[b].state = "native"
  <1>1. browser \in [Browsers -> Processes] /\ browser[b] \in Processes
    BY Zenon, Types
  <1>2. NoEntry \in Processes /\ NoEntry.state = "none"
    BY Zenon DEF NoEntry, Processes, States
  <1>3. browser[b].leases \in Nat /\ browser[b].leases + 1 \in Nat /\ 1 \in Nat
    BY <1>1 DEF Processes
  <1>s. /\ "closing" \in States /\ "exited" \in States /\ TRUE \in BOOLEAN
        /\ "pooled" \in States /\ "native" \in States
    BY Zenon DEF States
  <1>4. browser' = Detached(b) => Keeps(b) /\ browser'[b].state = "closing"
    <2> DEFINE e == [browser[b] EXCEPT !.state = "closing", !.retiring = TRUE]
    <2>1. e \in Processes /\ e.state = "closing"
      BY Zenon, <1>1, <1>3, <1>s DEF Processes
    <2>2. Detached(b) = [browser EXCEPT ![b] = e]
      BY Zenon, <1>1 DEF Detached
    <2> HIDE DEF e
    <2> QED
      BY Zenon, <1>1, <2>1, <2>2 DEF Keeps
  <1>5. browser' = [browser EXCEPT ![b].state = "exited"] =>
           Keeps(b) /\ browser'[b].state = "exited"
    BY Zenon, <1>1, <1>s DEF Keeps, Processes
  <1>6. browser' = [browser EXCEPT ![b] = NoEntry] =>
           Keeps(b) /\ browser'[b].state = "none"
    BY Zenon, <1>1, <1>2 DEF Keeps
  <1>7. browser' = [browser EXCEPT ![b].state = "pooled", ![b].leases = 1] =>
           Keeps(b) /\ browser'[b].state = "pooled" /\ browser'[b].leases = 1
    <2> DEFINE e == [browser[b] EXCEPT !.state = "pooled", !.leases = 1]
    <2>1. e \in Processes /\ e.state = "pooled" /\ e.leases = 1
      BY Zenon, <1>1, <1>3, <1>s DEF Processes
    <2>2. [browser EXCEPT ![b].state = "pooled", ![b].leases = 1] = [browser EXCEPT ![b] = e]
      BY Zenon, <1>1
    <2> HIDE DEF e
    <2> QED
      BY <1>1, <2>1, <2>2 DEF Keeps
  <1>8. browser' = [browser EXCEPT ![b].leases = @ + 1] =>
           /\ Keeps(b) /\ browser'[b].state = browser[b].state
           /\ browser'[b].leases = browser[b].leases + 1
    BY ZenonT(30), <1>1, <1>3, <1>s DEF Keeps, Processes
  <1>9. \A f \in Fingerprints \cup {Absent} :
           browser' = [browser EXCEPT ![b].state = "native", ![b].fp = f] =>
              Keeps(b) /\ browser'[b].state = "native"
    <2> SUFFICES ASSUME NEW f \in Fingerprints \cup {Absent},
                        browser' = [browser EXCEPT ![b].state = "native", ![b].fp = f]
                 PROVE  Keeps(b) /\ browser'[b].state = "native"
      BY Zenon
    <2> DEFINE e == [browser[b] EXCEPT !.state = "native", !.fp = f]
    <2>1. e \in Processes /\ e.state = "native"
      BY Zenon, <1>1, <1>s DEF Processes
    <2>2. browser' = [browser EXCEPT ![b] = e]
      BY Zenon, <1>1
    <2> HIDE DEF e
    <2> QED
      BY Zenon, <1>1, <2>1, <2>2 DEF Keeps
  <1> QED
    BY Zenon, <1>4, <1>5, <1>6, <1>7, <1>8, <1>9

-----------------------------------------------------------------------------
(***************************************************************************)
(* What the sets become when request r and process b change.               *)
(***************************************************************************)
LEMMA RequestSets ==
    ASSUME TypeOK, NEW r \in Reqs, Calm(r)
    PROVE  /\ Waiting' = IF req'[r].pc \in {"launch", "abandon"} /\ req'[r].b = Absent
                         THEN Waiting \cup {r} ELSE Waiting \ {r}
           /\ \A c : Holders(c)' = IF req'[r].pc \in Holding /\ req'[r].b = c
                                   THEN Holders(c) \cup {r} ELSE Holders(c) \ {r}
           /\ \A x \in Reqs \ {r} : Carries(x)' = Carries(x)
  BY DEF Waiting, Holders, Holding, Carries, At, Calm, Moves

LEMMA ProcessSets ==
    ASSUME TypeOK, NEW b \in Browsers, Keeps(b)
    PROVE  /\ Entries' = IF browser'[b].state = "pooled" THEN Entries \cup {b} ELSE Entries \ {b}
           /\ Natives' = IF browser'[b].state = "native" THEN Natives \cup {b} ELSE Natives \ {b}
           /\ Closers' = IF browser'[b].state \in {"closing", "exited"}
                         THEN Closers \cup {b} ELSE Closers \ {b}
  BY Zenon DEF Entries, Natives, Closers, Keeps

\* One element more or less.
LEMMA Counting ==
    ASSUME NEW S, IsFiniteSet(S), NEW x
    PROVE  /\ IsFiniteSet(S \cup {x}) /\ IsFiniteSet(S \ {x}) /\ Cardinality(S) \in Nat
           /\ Cardinality(S \cup {x}) = IF x \in S THEN Cardinality(S) ELSE Cardinality(S) + 1
           /\ Cardinality(S \ {x}) = IF x \in S THEN Cardinality(S) - 1 ELSE Cardinality(S)
           /\ x \in S => Cardinality(S) >= 1
           /\ Cardinality(S) = 0 => S = {}
           /\ Cardinality(S) = 1 /\ x \in S => S \ {x} = {}
  <1>1. /\ IsFiniteSet(S \cup {x}) /\ IsFiniteSet(S \ {x}) /\ Cardinality(S) \in Nat
        /\ Cardinality(S \cup {x}) = IF x \in S THEN Cardinality(S) ELSE Cardinality(S) + 1
        /\ Cardinality(S \ {x}) = IF x \in S THEN Cardinality(S) - 1 ELSE Cardinality(S)
    BY Zenon, FS_AddElement, FS_RemoveElement, FS_CardinalityType
  <1>2. Cardinality(S \ {x}) \in Nat
    BY Zenon, <1>1, FS_CardinalityType
  <1>3. Cardinality(S) = 0 => S = {}
    BY Zenon, FS_EmptySet
  <1>4. Cardinality(S \ {x}) = 0 => S \ {x} = {}
    BY Zenon, <1>1, FS_EmptySet
  <1> QED
    BY <1>1, <1>2, <1>3, <1>4

LEMMA DisjointCount ==
    ASSUME NEW S, NEW T, IsFiniteSet(S), IsFiniteSet(T), S \cap T = {}
    PROVE  /\ IsFiniteSet(S \cup T) /\ Cardinality(S) \in Nat /\ Cardinality(T) \in Nat
           /\ Cardinality(S \cup T) = Cardinality(S) + Cardinality(T)
  <1>1. /\ IsFiniteSet(S \cup T)
        /\ Cardinality(S \cup T) = Cardinality(S) + Cardinality(T) - Cardinality(S \cap T)
    BY Zenon, FS_Union
  <1>2. Cardinality(S \cap T) = 0
    BY Zenon, FS_EmptySet
  <1>3. Cardinality(S) \in Nat /\ Cardinality(T) \in Nat
    BY Zenon, FS_CardinalityType
  <1> QED
    BY <1>1, <1>2, <1>3

LEMMA FiniteProcesses ==
    IsFiniteSet(Entries) /\ IsFiniteSet(Natives) /\ IsFiniteSet(Closers)
  BY Zenon, PoolConstants, FS_Subset DEF Entries, Natives, Closers

\* A free identity exists for a launch that has not returned.
LEMMA SpareProcess ==
    ASSUME TypeOK, Counted, Waiting # {}
    PROVE  \E b \in Browsers : browser[b].state = "none"
  <1> SUFFICES ASSUME \A b \in Browsers : browser[b].state # "none" PROVE FALSE
    BY Zenon
  <1>1. Browsers = (Entries \cup Natives) \cup Closers
    BY Zenon, Types DEF Entries, Natives, Closers, Processes, States
  <1>2. /\ IsFiniteSet(Entries \cup Natives)
        /\ Cardinality(Entries \cup Natives) = Cardinality(Entries) + Cardinality(Natives)
    <2>1. Entries \cap Natives = {}
      BY Zenon DEF Entries, Natives
    <2> QED
      BY Zenon, <2>1, FiniteProcesses, DisjointCount
  <1>3. Cardinality((Entries \cup Natives) \cup Closers)
           = Cardinality(Entries \cup Natives) + Cardinality(Closers)
    <2>1. (Entries \cup Natives) \cap Closers = {}
      BY Zenon DEF Entries, Natives, Closers
    <2> QED
      BY Zenon, <1>2, <2>1, FiniteProcesses, DisjointCount
  <1>4. Cardinality(Waiting) \in Nat /\ Cardinality(Waiting) # 0
    BY Zenon, FS_EmptySet, FS_CardinalityType DEF Counted
  <1>5. /\ Cardinality(Entries) \in Nat /\ Cardinality(Natives) \in Nat
        /\ Cardinality(Closers) \in Nat /\ Cardinality(Entries \cup Natives) \in Nat
        /\ Cardinality(Browsers) \in Nat
    BY Zenon, FiniteProcesses, <1>2, FS_CardinalityType, PoolConstants
  <1>6. Cardinality(Browsers) = Cardinality(Entries) + Cardinality(Natives) + Cardinality(Closers)
    BY Zenon, <1>1, <1>2, <1>3, <1>5
  <1> QED
    BY <1>4, <1>5, <1>6, PoolConstants DEF Counted, ProcessCount

-----------------------------------------------------------------------------
(***************************************************************************)
(* The turns of a request: what each does to its place, to one process and *)
(* to the counters.                                                        *)
(***************************************************************************)
Walks(r) ==
    /\ UNCHANGED <<browser, launching, closings>> /\ req'[r].b = req[r].b
    /\ \/ req[r].pc \in {"new", "loop", "wait"} /\ req'[r].pc \in {"loop", "wait", "done"}
       \/ req[r].pc = "evict" /\ req'[r].pc = "closing"
       \/ req[r].pc \in Holding /\ req'[r].pc \in Holding
       \/ req[r].pc \in {"drop", "release"} /\ req[r].b = Gone /\ req'[r].pc = "done"
       \/ req[r].pc \in {"launch", "launched"} /\ req'[r].pc = "abandon"

Shares(r, b) ==
    /\ req[r].pc = "loop" /\ req'[r].pc = "setup" /\ req'[r].b = b
    /\ b \in Entries /\ browser'[b].state = "pooled"
    /\ browser'[b].leases = browser[b].leases + 1
    /\ UNCHANGED <<launching, closings>>

Launches(r) ==
    /\ req[r].pc = "loop" /\ req'[r].pc = "launch" /\ req'[r].b = req[r].b
    /\ ~closing /\ ProcessCount < MaxProcesses
    /\ launching' = launching + 1 /\ UNCHANGED <<browser, closings>>

Evicts(r, b) ==
    /\ req[r].pc = "loop" /\ req'[r].pc = "evict"
    /\ b \in Unleased /\ browser'[b].state = "closing"
    /\ closings' = closings + 1 /\ UNCHANGED launching

Returns(r, b) ==
    /\ \/ req[r].pc = "launch" /\ req'[r].pc = "launched"
       \/ req[r].pc = "abandon" /\ req'[r].pc = "abandon"
    /\ req[r].b = Absent /\ req'[r].b = b
    /\ browser[b].state = "none" /\ browser'[b].state = "native"
    /\ UNCHANGED <<launching, closings>>

Fails(r) ==
    /\ req[r].pc \in {"launch", "abandon"} /\ req[r].b = Absent /\ req'[r].pc = "done"
    /\ launching' = launching - 1 /\ UNCHANGED <<browser, closings>>

Abandons(r, b) ==
    /\ Carries(r) /\ req[r].b = b /\ req'[r].pc = "done"
    /\ browser'[b].state = "none"
    /\ launching' = launching - 1 /\ UNCHANGED closings

RegistersLate(r, b) ==
    /\ Carries(r) /\ req[r].b = b /\ req'[r].pc = "closing"
    /\ browser'[b].state = "closing"
    /\ launching' = launching - 1 /\ closings' = closings + 1

Registers(r, b) ==
    /\ Carries(r) /\ req[r].b = b /\ req'[r].pc = "setup" /\ req'[r].b = b
    /\ browser'[b].state = "pooled" /\ browser'[b].leases = 1
    /\ launching' = launching - 1 /\ UNCHANGED closings

Gives(r, b) ==
    /\ req[r].pc \in Holding /\ req[r].b = b /\ req'[r].pc = "done"
    /\ browser'[b].state = "pooled" /\ browser'[b].leases = browser[b].leases - 1
    /\ UNCHANGED <<launching, closings>>

GivesLast(r, b) ==
    /\ req[r].pc \in Holding /\ req[r].b = b /\ req'[r].pc = "closing"
    /\ browser[b].leases = 1 /\ browser'[b].state = "closing"
    /\ closings' = closings + 1 /\ UNCHANGED launching

Turns(r) ==
    \/ Walks(r) \/ Launches(r) \/ Fails(r)
    \/ \E b \in Browsers :
          /\ Keeps(b)
          /\ \/ Shares(r, b) \/ Evicts(r, b) \/ Returns(r, b) \/ Abandons(r, b)
             \/ RegistersLate(r, b) \/ Registers(r, b) \/ Gives(r, b) \/ GivesLast(r, b)

\* A request starts the pool, or leaves its flags alone.
Flags ==
    /\ shut' = shut /\ started' \in BOOLEAN /\ closing' \in BOOLEAN
    /\ started' \/ (started' = started /\ closing' = closing)
    /\ started => started' /\ closing' = closing

\* A holder of a process has one of its leases.
LEMMA HolderCounts ==
    ASSUME TypeOK, Bound, Leased, NEW r \in Reqs, req[r].pc \in Holding, req[r].b # Gone
    PROVE  /\ req[r].b \in Entries /\ req[r].b \in Browsers /\ browser[req[r].b].leases \in Nat
           /\ browser[req[r].b].leases >= 1 /\ browser[req[r].b].state = "pooled"
           /\ IsFiniteSet(Holders(req[r].b)) /\ r \in Holders(req[r].b)
           /\ browser[req[r].b].leases = Cardinality(Holders(req[r].b))
  <1>1. req[r].b \in Entries /\ req[r].b \in Browsers /\ browser[req[r].b].state = "pooled"
    BY Zenon DEF Bound, Entries
  <1>2. r \in Holders(req[r].b)
    BY Zenon DEF Holders, Holding
  <1>3. /\ IsFiniteSet(Holders(req[r].b))
        /\ browser[req[r].b].leases = Cardinality(Holders(req[r].b))
    BY Zenon, <1>1 DEF Leased
  <1>4. Cardinality(Holders(req[r].b)) \in Nat /\ Cardinality(Holders(req[r].b)) >= 1
    BY Zenon, <1>2, <1>3, Counting
  <1> QED
    BY Zenon, <1>1, <1>2, <1>3, <1>4

\* Giving a lease back.
LEMMA GiveBackTurn ==
    ASSUME TypeOK, Bound, Leased, NEW r \in Reqs, NEW retire \in BOOLEAN,
           req[r].pc \in {"drop", "release"}, GiveBack(r, retire), UNCHANGED launching
    PROVE  Calm(r) /\ Turns(r) /\ browser' \in [Browsers -> Processes] /\ closings' \in Nat
  <1>0. req[r].pc \in Holding /\ "done" \in Places /\ "closing" \in Places
    BY Zenon DEF Holding, Places
  <1>1. CASE req[r].b = Gone
    <2>1. req' = Woken(Moved(r, "done")) /\ UNCHANGED <<browser, closings>>
      BY Zenon, <1>1 DEF GiveBack
    <2>2. Calm(r) /\ req'[r].pc = "done" /\ req'[r].b = req[r].b
      BY Zenon, <2>1, <1>0, CallMoves
    <2> QED
      BY Zenon, <1>1, <2>1, <2>2, Types DEF Turns, Walks
  <1>2. CASE req[r].b # Gone
    <2> DEFINE b == req[r].b
               e == [browser[b] EXCEPT !.leases = @ - 1, !.retiring = @ \/ retire]
               last == e.retiring /\ e.leases = 0
               f == [e EXCEPT !.state = "closing"]
    <2>1. /\ b \in Browsers /\ browser[b].leases \in Nat /\ browser[b].leases >= 1
          /\ browser[b].state = "pooled"
      BY Zenon, <1>0, <1>2, HolderCounts
    <2>2. browser \in [Browsers -> Processes] /\ browser[b] \in Processes
      BY Zenon, <2>1, Types
    <2>3. browser[b].leases - 1 \in Nat /\ (browser[b].retiring \/ retire) \in BOOLEAN
      BY <2>1, <2>2 DEF Processes
    <2>4. e \in Processes /\ e.state = "pooled" /\ e.leases = browser[b].leases - 1
      BY Zenon, <2>1, <2>2, <2>3 DEF Processes
    <2>5. f \in Processes /\ f.state = "closing"
      <3>1. "closing" \in States
        BY Zenon DEF States
      <3> HIDE DEF e
      <3> QED
        BY Zenon, <2>4, <3>1 DEF Processes
    <2>6. /\ browser' = [browser EXCEPT ![b] = IF last THEN f ELSE e]
          /\ closings' = IF last THEN closings + 1 ELSE closings
          /\ req' = Woken(Moved(r, IF last THEN "closing" ELSE "done"))
      BY Zenon, <1>2 DEF GiveBack, Moved
    <2>7. last => browser[b].leases = 1
      BY <2>1, <2>4
    <2> HIDE DEF last, e, f
    <2>8. CASE last
      <3>1. Keeps(b) /\ browser'[b].state = "closing"
        BY Zenon, <2>1, <2>2, <2>5, <2>6, <2>8 DEF Keeps
      <3>2. Calm(r) /\ req'[r].pc = "closing"
        BY Zenon, <1>0, <2>6, <2>8, CallMoves
      <3>3. closings' = closings + 1
        BY Zenon, <2>6, <2>8
      <3> QED
        BY <1>0, <2>1, <2>7, <2>8, <3>1, <3>2, <3>3, Types DEF Turns, GivesLast, Keeps
    <2>9. CASE ~last
      <3>1. /\ Keeps(b) /\ browser'[b].state = "pooled"
            /\ browser'[b].leases = browser[b].leases - 1
        BY Zenon, <2>1, <2>2, <2>4, <2>6, <2>9 DEF Keeps
      <3>2. Calm(r) /\ req'[r].pc = "done"
        BY Zenon, <1>0, <2>6, <2>9, CallMoves
      <3>3. closings' = closings
        BY Zenon, <2>6, <2>9
      <3> QED
        BY Zenon, <1>0, <2>1, <2>9, <3>1, <3>2, <3>3, Types DEF Turns, Gives, Keeps
    <2> QED
      BY Zenon, <2>8, <2>9
  <1> QED
    BY Zenon, <1>1, <1>2

\* Every action of a request is one of its turns.
LEMMA RequestTurns ==
    ASSUME IInv, NEW r \in Reqs, Arrive(r) \/ Work(r) \/ Cancel(r)
    PROVE  Calm(r) /\ Turns(r) /\ TypeOK' /\ Flags
  <1> USE DEF IInv
  <1>t. req \in [Reqs -> Calls] /\ browser \in [Browsers -> Processes]
    BY Zenon, Types
  <1>f. UNCHANGED <<started, closing, shut>> => Flags
    BY Types DEF Flags
  <1>k. ASSUME Calm(r), browser' \in [Browsers -> Processes], launching' \in Nat,
               closings' \in Nat, Flags
        PROVE  TypeOK'
    BY Zenon, <1>k, TypesNext, Types DEF Calm, Flags
  <1>w. ASSUME NEW pc \in Places, req' = Moved(r, pc), req[r].pc # pc,
               UNCHANGED <<browser, launching, closings, started, closing, shut>>,
               \/ req[r].pc \in {"loop", "wait"} /\ pc \in {"wait", "done"}
               \/ req[r].pc = "evict" /\ pc = "closing"
               \/ req[r].pc \in Holding /\ pc \in Holding
               \/ req[r].pc \in {"launch", "launched"} /\ pc = "abandon"
        PROVE  Calm(r) /\ Turns(r) /\ TypeOK' /\ Flags
    <2>1. Calm(r) /\ req'[r].pc = pc /\ req'[r].b = req[r].b
      BY Zenon, <1>w, CallMoves
    <2>2. Turns(r)
      BY Zenon, <1>w, <2>1 DEF Turns, Walks
    <2> QED
      BY Zenon, <1>w, <1>f, <1>k, <1>t, <2>1, <2>2, Types
  <1>0. Places = Places \cup {"loop", "wait", "evict", "launch", "abandon", "launched", "setup",
                              "drop", "leased", "release", "closing", "done"}
    BY Zenon DEF Places
  <1>n. launching = Cardinality(Waiting) + Cardinality(Natives) /\ IsFiniteSet(Waiting)
        /\ IsFiniteSet(Natives) /\ Cardinality(Waiting) \in Nat /\ Cardinality(Natives) \in Nat
    BY Zenon, FiniteProcesses, FS_CardinalityType DEF Counted
  <1>l. ASSUME Carries(r) \/ (req[r].pc \in {"launch", "abandon"} /\ req[r].b = Absent)
        PROVE  launching - 1 \in Nat
    <2>1. CASE Carries(r)
      <3>1. req[r].b \in Natives
        BY Zenon, <2>1 DEF Bound
      <3>2. Cardinality(Natives) >= 1
        BY Zenon, <1>n, <3>1, Counting
      <3> QED
        BY <1>n, <3>2
    <2>2. CASE req[r].pc \in {"launch", "abandon"} /\ req[r].b = Absent
      <3>1. r \in Waiting
        BY Zenon, <2>2 DEF Waiting
      <3>2. Cardinality(Waiting) >= 1
        BY Zenon, <1>n, <3>1, Counting
      <3> QED
        BY <1>n, <3>2
    <2> QED
      BY Zenon, <1>l, <2>1, <2>2
  <1>c. launching + 1 \in Nat /\ closings + 1 \in Nat
    BY Types
  <1>1. CASE Arrive(r)
    <2>1. PICK f \in Fingerprints, pc \in {"done", "loop"} :
             req' = [req EXCEPT ![r].fp = f, ![r].pc = pc]
      BY Zenon, <1>1 DEF Arrive
    <2>2. Calm(r) /\ req'[r].pc = pc /\ req'[r].b = req[r].b
      <3>1. pc \in Places
        BY Zenon, <1>0
      <3>2. /\ req' \in [Reqs -> Calls]
            /\ req'[r].pc = pc /\ req'[r].b = req[r].b
            /\ \A x \in Reqs \ {r} : req'[x] = req[x]
        BY Zenon, <1>t, <2>1, <3>1 DEF Calls
      <3> QED
        BY Zenon, <3>2 DEF Calm, Moves
    <2>3. Turns(r)
      BY Zenon, <1>1, <2>2 DEF Arrive, At, Turns, Walks
    <2>4. Flags
      BY Zenon, <1>1, Types DEF Arrive, Flags
    <2> QED
      BY Zenon, <1>1, <1>k, <1>t, <2>2, <2>3, <2>4, Types DEF Arrive
  <1>2. CASE Refused(r)
    BY Zenon, <1>2, <1>w, <1>0 DEF Refused, At
  <1>3. CASE Share(r)
    <2>1. PICK b \in Sharable(r) :
             /\ browser' = [browser EXCEPT ![b].leases = @ + 1]
             /\ req' = [req EXCEPT ![r].pc = "setup", ![r].b = b]
      BY Zenon, <1>3 DEF Share
    <2>2. b \in Entries /\ b \in Browsers /\ browser[b].state = "pooled"
      BY Zenon DEF Sharable, Entries
    <2>3. Calm(r) /\ req'[r].pc = "setup" /\ req'[r].b = b
      BY Zenon, <2>1, <2>2, <1>0, CallTakes
    <2>4. /\ Keeps(b) /\ browser'[b].state = "pooled"
          /\ browser'[b].leases = browser[b].leases + 1
      BY Zenon, <2>1, <2>2, ProcessMoves
    <2>5. Turns(r)
      BY Zenon, <1>3, <2>2, <2>3, <2>4 DEF Turns, Shares, Share, At
    <2> QED
      BY Zenon, <1>3, <1>f, <1>k, <2>3, <2>4, <2>5, Types DEF Share, Keeps
  <1>4. CASE Launch(r)
    <2>1. Calm(r) /\ req'[r].pc = "launch" /\ req'[r].b = req[r].b
      BY Zenon, <1>4, <1>0, CallMoves DEF Launch
    <2>2. Turns(r)
      BY Zenon, <1>4, <2>1 DEF Turns, Launches, Launch, At
    <2> QED
      BY Zenon, <1>4, <1>c, <1>f, <1>k, <1>t, <2>1, <2>2, Types DEF Launch
  <1>5. CASE Evict(r)
    <2>1. PICK b \in Unleased :
             /\ browser' = Detached(b)
             /\ req' = Woken([req EXCEPT ![r].pc = "evict", ![r].b = b])
      BY Zenon, <1>5 DEF Evict
    <2>2. b \in Browsers
      BY Zenon DEF Unleased, Entries
    <2>3. Calm(r) /\ req'[r].pc = "evict"
      BY Zenon, <2>1, <2>2, <1>0, CallTakes
    <2>4. Keeps(b) /\ browser'[b].state = "closing"
      BY Zenon, <2>1, <2>2, ProcessMoves
    <2>5. Turns(r)
      BY Zenon, <1>5, <2>2, <2>3, <2>4 DEF Turns, Evicts, Evict, Full, At
    <2> QED
      BY Zenon, <1>5, <1>c, <1>f, <1>k, <2>3, <2>4, <2>5, Types DEF Evict, Keeps
  <1>6. CASE Wait(r)
    BY Zenon, <1>6, <1>w, <1>0 DEF Wait, Full, At
  <1>7. CASE LaunchReturns(r)
    <2>1. r \in Waiting
      BY Zenon, <1>7 DEF LaunchReturns, Waiting
    <2>2. PICK b \in Browsers :
             /\ browser[b].state = "none"
             /\ browser' = [browser EXCEPT ![b].state = "native", ![b].fp = req[r].fp]
             /\ req' = [req EXCEPT ![r].b = b, ![r].pc = IF @ = "launch" THEN "launched" ELSE @]
      BY Zenon, <1>7, <2>1, SpareProcess DEF LaunchReturns
    <2> DEFINE pc == IF req[r].pc = "launch" THEN "launched" ELSE req[r].pc
    <2>3. req' = [req EXCEPT ![r].b = b, ![r].pc = pc] /\ pc \in Places \ {"wait"}
      BY Zenon, <1>7, <1>0, <1>t, <2>2 DEF LaunchReturns
    <2>4. Calm(r) /\ req'[r].pc = pc /\ req'[r].b = b
      <3> HIDE DEF pc
      <3> QED
        BY Zenon, <2>3, CallTakes
    <2>5. Keeps(b) /\ browser'[b].state = "native"
      <3>1. req[r].fp \in Fingerprints \cup {Absent}
        BY Zenon, <1>t DEF Calls
      <3> QED
        BY Zenon, <2>2, <3>1, ProcessMoves
    <2>6. Turns(r)
      BY Zenon, <1>7, <2>2, <2>4, <2>5 DEF Turns, Returns, LaunchReturns
    <2> QED
      BY Zenon, <1>7, <1>f, <1>k, <2>4, <2>5, <2>6, Types DEF LaunchReturns, Keeps
  <1>8. CASE LaunchFails(r)
    <2>1. Calm(r) /\ req'[r].pc = "done"
      BY Zenon, <1>8, <1>0, CallMoves DEF LaunchFails
    <2>2. Turns(r)
      BY Zenon, <1>8, <2>1 DEF Turns, Fails, LaunchFails
    <2> QED
      BY Zenon, <1>8, <1>l, <1>f, <1>k, <1>t, <2>1, <2>2, Types DEF LaunchFails
  <1>9. CASE Abandoned(r)
    <2>1. Carries(r) /\ req[r].b \in Browsers
      BY Zenon, <1>9 DEF Abandoned, Carries, Bound, Natives
    <2>2. Calm(r) /\ req'[r].pc = "done"
      BY Zenon, <1>9, <1>0, CallTakes DEF Abandoned
    <2>3. Keeps(req[r].b) /\ browser'[req[r].b].state = "none"
      BY Zenon, <1>9, <2>1, ProcessMoves DEF Abandoned
    <2>4. Turns(r)
      BY Zenon, <1>9, <2>1, <2>2, <2>3 DEF Turns, Abandons, Abandoned
    <2> QED
      BY Zenon, <1>9, <1>l, <1>f, <1>k, <2>1, <2>2, <2>3, <2>4, Types DEF Abandoned, Keeps
  <1>10. CASE Register(r)
    <2>1. Carries(r) /\ req[r].b \in Browsers
      BY Zenon, <1>10 DEF Register, Carries, Bound, Natives
    <2>2. launching' = launching - 1 /\ launching' \in Nat /\ Flags
      BY Zenon, <1>10, <1>l, <1>f, <2>1 DEF Register
    <2>3. CASE closing
      <3>1. /\ browser' = Detached(req[r].b) /\ closings' = closings + 1
            /\ req' = Woken(Moved(r, "closing"))
        BY Zenon, <1>10, <2>3 DEF Register
      <3>2. Calm(r) /\ req'[r].pc = "closing"
        BY Zenon, <3>1, <1>0, CallMoves
      <3>3. Keeps(req[r].b) /\ browser'[req[r].b].state = "closing"
        BY Zenon, <3>1, <2>1, ProcessMoves
      <3>4. Turns(r)
        BY Zenon, <2>1, <2>2, <3>1, <3>2, <3>3 DEF Turns, RegistersLate
      <3> QED
        BY Zenon, <1>c, <1>k, <2>2, <3>1, <3>2, <3>3, <3>4 DEF Keeps
    <2>4. CASE ~closing
      <3>1. /\ browser' = [browser EXCEPT ![req[r].b].state = "pooled", ![req[r].b].leases = 1]
            /\ closings' = closings
            /\ req' = Woken(Moved(r, "setup"))
        BY Zenon, <1>10, <2>4 DEF Register
      <3>2. Calm(r) /\ req'[r].pc = "setup" /\ req'[r].b = req[r].b
        BY Zenon, <3>1, <1>0, CallMoves
      <3>3. /\ Keeps(req[r].b) /\ browser'[req[r].b].state = "pooled"
            /\ browser'[req[r].b].leases = 1
        BY Zenon, <3>1, <2>1, ProcessMoves
      <3>4. Turns(r)
        BY Zenon, <2>1, <2>2, <3>1, <3>2, <3>3 DEF Turns, Registers
      <3> QED
        BY Zenon, <1>k, <2>2, <3>1, <3>2, <3>3, <3>4, Types DEF Keeps
    <2> QED
      BY Zenon, <2>3, <2>4
  <1>11. CASE ContextReady(r) \/ ContextFails(r)
    BY Zenon, <1>11, <1>w, <1>0 DEF ContextReady, ContextFails, At, Holding
  <1>12. CASE Drop(r) \/ Release(r)
    <2>1. PICK retire \in BOOLEAN : GiveBack(r, retire)
      BY Zenon, <1>12, <1>t DEF Drop, Release
    <2>2. /\ req[r].pc \in {"drop", "release"}
          /\ UNCHANGED <<launching, started, closing, shut>>
      BY Zenon, <1>12 DEF Drop, Release, At
    <2>3. Calm(r) /\ Turns(r) /\ browser' \in [Browsers -> Processes] /\ closings' \in Nat
      BY Zenon, <2>1, <2>2, GiveBackTurn
    <2> QED
      BY Zenon, <1>f, <1>k, <2>2, <2>3, Types
  <1>13. CASE FinishUse(r)
    <2>1. PICK h \in BOOLEAN : req' = [req EXCEPT ![r].pc = "release", ![r].healthy = h]
      BY Zenon, <1>13 DEF FinishUse
    <2>2. Calm(r) /\ req'[r].pc = "release" /\ req'[r].b = req[r].b
      <3>1. "release" \in Places
        BY Zenon DEF Places
      <3>2. /\ req' \in [Reqs -> Calls]
            /\ req'[r].pc = "release" /\ req'[r].b = req[r].b
            /\ \A x \in Reqs \ {r} : req'[x] = req[x]
        BY Zenon, <1>t, <2>1, <3>1 DEF Calls
      <3> QED
        BY Zenon, <3>2 DEF Calm, Moves
    <2>3. Turns(r)
      BY Zenon, <1>13, <2>2 DEF FinishUse, At, Turns, Walks, Holding
    <2> QED
      BY Zenon, <1>13, <1>f, <1>k, <1>t, <2>2, <2>3, Types DEF FinishUse
  <1>14. CASE Cancel(r)
    BY <1>14, <1>w, <1>0 DEF Cancel, At, Holding
  <1> QED
    BY <1>1, <1>2, <1>3, <1>4, <1>5, <1>6, <1>7, <1>8, <1>9, <1>10, <1>11, <1>12, <1>13, <1>14
       DEF Work

-----------------------------------------------------------------------------
(***************************************************************************)
(* A turn of a request keeps the invariant, conjunct by conjunct.          *)
(***************************************************************************)
LEMMA RequestCounted ==
    ASSUME IInv, NEW r \in Reqs, Calm(r), Turns(r), TypeOK'
    PROVE  Counted'
  <1> USE DEF IInv
  <1>1. /\ IsFiniteSet(Waiting) /\ Cardinality(Waiting) \in Nat
        /\ Cardinality(Waiting \cup {r}) =
              IF r \in Waiting THEN Cardinality(Waiting) ELSE Cardinality(Waiting) + 1
        /\ Cardinality(Waiting \ {r}) =
              IF r \in Waiting THEN Cardinality(Waiting) - 1 ELSE Cardinality(Waiting)
        /\ IsFiniteSet(Waiting')
    <2>1. IsFiniteSet(Waiting)
      BY Zenon DEF Counted
    <2>2. IsFiniteSet(Waiting \cup {r}) /\ IsFiniteSet(Waiting \ {r})
      BY Zenon, <2>1, Counting
    <2>3. IsFiniteSet(Waiting')
      BY Zenon, <2>2, RequestSets
    <2> QED
      BY Zenon, <2>1, <2>3, Counting
  <1>2. /\ launching = Cardinality(Waiting) + Cardinality(Natives)
        /\ closings = Cardinality(Closers) /\ ProcessCount <= MaxProcesses
    BY Zenon DEF Counted
  <1>3. r \in Waiting <=> req[r].pc \in {"launch", "abandon"} /\ req[r].b = Absent
    BY Zenon DEF Waiting
  <1>4. /\ Cardinality(Entries) \in Nat /\ Cardinality(Natives) \in Nat
        /\ Cardinality(Closers) \in Nat /\ launching \in Nat /\ closings \in Nat
        /\ MaxProcesses \in Nat
    BY Zenon, FiniteProcesses, FS_CardinalityType, Types, PoolConstants
  <1>5. CASE Walks(r) \/ Launches(r) \/ Fails(r)
    <2>1. UNCHANGED <<Entries, Natives, Closers>>
      BY Zenon, <1>5 DEF Entries, Natives, Closers, Walks, Launches, Fails
    <2>2. CASE Walks(r)
      <3>1. r \in Waiting <=> r \in Waiting'
        <4>1. req'[r].pc \in {"launch", "abandon"} /\ req'[r].b = Absent
                 <=> req[r].pc \in {"launch", "abandon"} /\ req[r].b = Absent
          BY Zenon, <2>2, PoolConstants DEF Walks, Bound, Carries, At, Natives, Holding, Absent
        <4> QED
          BY Zenon, <4>1, <1>3, RequestSets
      <3>2. Waiting' = Waiting
        BY <3>1, RequestSets
      <3> QED
        BY Zenon, <1>1, <1>2, <2>1, <2>2, <3>2 DEF Walks, Counted, ProcessCount
    <2>3. CASE Launches(r)
      <3>1. Waiting' = Waiting \cup {r} /\ r \notin Waiting
        BY Zenon, <1>3, <2>3, RequestSets DEF Launches, Bound
      <3> QED
        BY <1>1, <1>2, <1>4, <2>1, <2>3, <3>1 DEF Launches, Counted, ProcessCount
    <2>4. CASE Fails(r)
      <3>1. Waiting' = Waiting \ {r} /\ r \in Waiting
        BY Zenon, <1>3, <2>4, RequestSets DEF Fails
      <3> QED
        BY <1>1, <1>2, <1>4, <2>1, <2>4, <3>1 DEF Fails, Counted, ProcessCount
    <2> QED
      BY Zenon, <1>5, <2>2, <2>3, <2>4
  <1>6. ASSUME NEW b \in Browsers, Keeps(b),
               \/ Shares(r, b) \/ Evicts(r, b) \/ Returns(r, b) \/ Abandons(r, b)
               \/ RegistersLate(r, b) \/ Registers(r, b) \/ Gives(r, b) \/ GivesLast(r, b)
        PROVE  Counted'
    <2>1. /\ Cardinality(Entries \cup {b}) =
                IF b \in Entries THEN Cardinality(Entries) ELSE Cardinality(Entries) + 1
          /\ Cardinality(Entries \ {b}) =
                IF b \in Entries THEN Cardinality(Entries) - 1 ELSE Cardinality(Entries)
          /\ Cardinality(Natives \cup {b}) =
                IF b \in Natives THEN Cardinality(Natives) ELSE Cardinality(Natives) + 1
          /\ Cardinality(Natives \ {b}) =
                IF b \in Natives THEN Cardinality(Natives) - 1 ELSE Cardinality(Natives)
          /\ Cardinality(Closers \cup {b}) =
                IF b \in Closers THEN Cardinality(Closers) ELSE Cardinality(Closers) + 1
          /\ Cardinality(Closers \ {b}) =
                IF b \in Closers THEN Cardinality(Closers) - 1 ELSE Cardinality(Closers)
      BY Zenon, FiniteProcesses, Counting
    <2>2. /\ b \in Entries <=> browser[b].state = "pooled"
          /\ b \in Natives <=> browser[b].state = "native"
          /\ b \in Closers <=> browser[b].state \in {"closing", "exited"}
      BY Zenon DEF Entries, Natives, Closers
    <2>3. /\ Entries' = IF browser'[b].state = "pooled" THEN Entries \cup {b} ELSE Entries \ {b}
          /\ Natives' = IF browser'[b].state = "native" THEN Natives \cup {b} ELSE Natives \ {b}
          /\ Closers' = IF browser'[b].state \in {"closing", "exited"}
                        THEN Closers \cup {b} ELSE Closers \ {b}
      BY Zenon, <1>6, ProcessSets
    <2>4. /\ Waiting' = IF req'[r].pc \in {"launch", "abandon"} /\ req'[r].b = Absent
                        THEN Waiting \cup {r} ELSE Waiting \ {r}
          /\ b # Absent /\ b # Gone
      BY Zenon, RequestSets, PoolConstants DEF Absent, Gone
    <2>5. req[r].pc \in Holding /\ req[r].b = b => browser[b].state = "pooled"
      BY Zenon, <2>4, HolderCounts
    <2>6. Carries(r) /\ req[r].b = b => browser[b].state = "native"
      BY Zenon DEF Bound, Natives
    <2>c. Counted' <=> /\ IsFiniteSet(Waiting')
                       /\ launching' = Cardinality(Waiting') + Cardinality(Natives')
                       /\ closings' = Cardinality(Closers')
                       /\ Cardinality(Entries') + launching' + closings' <= MaxProcesses
      BY Zenon DEF Counted, ProcessCount
    <2>d. Cardinality(Entries) + launching + closings <= MaxProcesses
      BY Zenon, <1>2 DEF ProcessCount
    <2>7. CASE Shares(r, b)
      <3>1. b \in Entries /\ b \notin Natives /\ b \notin Closers /\ r \notin Waiting
        BY Zenon, <1>3, <2>2, <2>7 DEF Shares
      <3>2. Entries' = Entries /\ Natives' = Natives /\ Closers' = Closers /\ Waiting' = Waiting
        BY Zenon, <2>3, <2>4, <2>7, <3>1 DEF Shares
      <3> QED
        BY Zenon, <1>1, <1>2, <2>c, <2>d, <2>7, <3>2 DEF Shares
    <2>8. CASE Evicts(r, b)
      <3>1. b \in Entries /\ b \notin Natives /\ b \notin Closers /\ r \notin Waiting
        BY Zenon, <1>3, <2>2, <2>8 DEF Evicts, Unleased
      <3>2. /\ Entries' = Entries \ {b} /\ Natives' = Natives /\ Closers' = Closers \cup {b}
            /\ Waiting' = Waiting
        BY Zenon, <2>3, <2>4, <2>8, <3>1 DEF Evicts
      <3> QED
        BY <1>1, <1>2, <1>4, <2>1, <2>c, <2>d, <2>8, <3>1, <3>2 DEF Evicts
    <2>9. CASE Returns(r, b)
      <3>1. b \notin Entries /\ b \notin Natives /\ b \notin Closers /\ r \in Waiting
        BY Zenon, <1>3, <2>2, <2>9 DEF Returns
      <3>2. /\ Entries' = Entries /\ Natives' = Natives \cup {b} /\ Closers' = Closers
            /\ Waiting' = Waiting \ {r}
        BY Zenon, <2>3, <2>4, <2>9, <3>1 DEF Returns
      <3> QED
        BY <1>1, <1>2, <1>4, <2>1, <2>c, <2>d, <2>9, <3>1, <3>2 DEF Returns
    <2>10. CASE Abandons(r, b)
      <3>1. b \notin Entries /\ b \in Natives /\ b \notin Closers /\ r \notin Waiting
        BY Zenon, <1>3, <2>2, <2>4, <2>6, <2>10 DEF Abandons
      <3>2. /\ Entries' = Entries /\ Natives' = Natives \ {b} /\ Closers' = Closers
            /\ Waiting' = Waiting
        BY Zenon, <2>3, <2>4, <2>10, <3>1 DEF Abandons
      <3> QED
        BY <1>1, <1>2, <1>4, <2>1, <2>c, <2>d, <2>10, <3>1, <3>2 DEF Abandons
    <2>11. CASE RegistersLate(r, b)
      <3>1. b \notin Entries /\ b \in Natives /\ b \notin Closers /\ r \notin Waiting
        BY Zenon, <1>3, <2>2, <2>4, <2>6, <2>11 DEF RegistersLate
      <3>2. /\ Entries' = Entries /\ Natives' = Natives \ {b} /\ Closers' = Closers \cup {b}
            /\ Waiting' = Waiting
        BY Zenon, <2>3, <2>4, <2>11, <3>1 DEF RegistersLate
      <3> QED
        BY <1>1, <1>2, <1>4, <2>1, <2>c, <2>d, <2>11, <3>1, <3>2 DEF RegistersLate
    <2>12. CASE Registers(r, b)
      <3>1. b \notin Entries /\ b \in Natives /\ b \notin Closers /\ r \notin Waiting
        BY Zenon, <1>3, <2>2, <2>4, <2>6, <2>12 DEF Registers
      <3>2. /\ Entries' = Entries \cup {b} /\ Natives' = Natives \ {b} /\ Closers' = Closers
            /\ Waiting' = Waiting
        BY Zenon, <2>3, <2>4, <2>12, <3>1 DEF Registers
      <3> QED
        BY <1>1, <1>2, <1>4, <2>1, <2>c, <2>d, <2>12, <3>1, <3>2 DEF Registers
    <2>13. CASE Gives(r, b)
      <3>1. b \in Entries /\ b \notin Natives /\ b \notin Closers /\ r \notin Waiting
        BY Zenon, <1>3, <2>2, <2>5, <2>13 DEF Gives, Holding
      <3>2. Entries' = Entries /\ Natives' = Natives /\ Closers' = Closers /\ Waiting' = Waiting
        BY Zenon, <2>3, <2>4, <2>13, <3>1 DEF Gives
      <3> QED
        BY Zenon, <1>1, <1>2, <2>c, <2>d, <2>13, <3>2 DEF Gives
    <2>14. CASE GivesLast(r, b)
      <3>1. b \in Entries /\ b \notin Natives /\ b \notin Closers /\ r \notin Waiting
        BY Zenon, <1>3, <2>2, <2>5, <2>14 DEF GivesLast, Holding
      <3>2. /\ Entries' = Entries \ {b} /\ Natives' = Natives /\ Closers' = Closers \cup {b}
            /\ Waiting' = Waiting
        BY Zenon, <2>3, <2>4, <2>14, <3>1 DEF GivesLast
      <3> QED
        BY <1>1, <1>2, <1>4, <2>1, <2>c, <2>d, <2>14, <3>1, <3>2 DEF GivesLast
    <2> QED
      BY Zenon, <1>6, <2>7, <2>8, <2>9, <2>10, <2>11, <2>12, <2>13, <2>14
  <1> QED
    BY Zenon, <1>5, <1>6 DEF Turns

LEMMA RequestBound ==
    ASSUME IInv, NEW r \in Reqs, Calm(r), Turns(r), TypeOK'
    PROVE  Bound'
  <1> USE DEF IInv
  <1>0. Absent # Gone /\ \A b \in Browsers : b # Absent /\ b # Gone
    BY Zenon, PoolConstants DEF Absent, Gone
  <1>1. \A x \in Reqs \ {r} : /\ Carries(x)' = Carries(x) /\ req'[x].b = req[x].b
                              /\ Moves(req[x].pc, req'[x].pc)
    BY Zenon, RequestSets DEF Calm
  <1>2. \A x \in Reqs :
           /\ req[x].pc \in {"new", "loop", "wait", "launch"} => req[x].b = Absent
           /\ Carries(x) => req[x].b \in Natives
           /\ req[x].pc \in Holding => req[x].b \in Entries \cup {Gone}
    BY Zenon DEF Bound
  <1>3. \A x, y \in Reqs : Carries(x) /\ Carries(y) /\ req[x].b = req[y].b => x = y
    BY Zenon DEF Bound
  <1>c. Carries(r) <=> At(r, "launched") \/ (At(r, "abandon") /\ req[r].b # Absent)
    BY Zenon DEF Carries
  <1>d. Carries(r)' <=> req'[r].pc = "launched" \/ (req'[r].pc = "abandon" /\ req'[r].b # Absent)
    BY Zenon DEF Carries, At
  <1>4. ASSUME \A x \in Reqs \ {r} : Carries(x) => req[x].b \in Natives',
               \A x \in Reqs \ {r} : req[x].pc \in Holding => req[x].b \in Entries' \cup {Gone},
               req'[r].pc \in {"new", "loop", "wait", "launch"} => req'[r].b = Absent,
               Carries(r)' => req'[r].b \in Natives',
               req'[r].pc \in Holding => req'[r].b \in Entries' \cup {Gone},
               \A x \in Reqs \ {r} : ~(Carries(r)' /\ Carries(x) /\ req'[r].b = req[x].b)
        PROVE  Bound'
    <2>1. \A x \in Reqs :
             /\ req'[x].pc \in {"new", "loop", "wait", "launch"} => req'[x].b = Absent
             /\ Carries(x)' => req'[x].b \in Natives'
             /\ req'[x].pc \in Holding => req'[x].b \in Entries' \cup {Gone}
      <3> SUFFICES ASSUME NEW x \in Reqs
                   PROVE  /\ req'[x].pc \in {"new", "loop", "wait", "launch"} => req'[x].b = Absent
                          /\ Carries(x)' => req'[x].b \in Natives'
                          /\ req'[x].pc \in Holding => req'[x].b \in Entries' \cup {Gone}
        BY Zenon
      <3>1. CASE x = r
        BY Zenon, <1>4, <3>1
      <3>2. CASE x # r
        BY Zenon, <1>1, <1>2, <1>4, <3>2 DEF Moves, Holding
      <3> QED
        BY Zenon, <3>1, <3>2
    <2>2. \A x, y \in Reqs : Carries(x)' /\ Carries(y)' /\ req'[x].b = req'[y].b => x = y
      BY <1>1, <1>3, <1>4
    <2> QED
      BY Zenon, <2>1, <2>2 DEF Bound
  <1>5. CASE Walks(r) \/ Launches(r) \/ Fails(r)
    <2>1. UNCHANGED <<Entries, Natives>>
      BY Zenon, <1>5 DEF Entries, Natives, Walks, Launches, Fails
    <2>2. CASE Walks(r)
      <3>1. Carries(r)' => Carries(r)
        BY Zenon, <1>2, <1>d, <2>2 DEF Walks, Carries, At, Holding
      <3>2. /\ req'[r].pc \in {"new", "loop", "wait", "launch"} => req'[r].b = Absent
            /\ req'[r].pc \in Holding => req[r].pc \in Holding
        BY Zenon, <1>2, <2>2 DEF Walks, Holding
      <3>3. req'[r].b = req[r].b
        BY Zenon, <2>2 DEF Walks
      <3> QED
        BY Zenon, <1>2, <1>3, <1>4, <2>1, <3>1, <3>2, <3>3
    <2>3. CASE Launches(r) \/ Fails(r)
      <3>1. ~Carries(r)' /\ req'[r].pc \notin Holding
        BY Zenon, <1>d, <2>3 DEF Launches, Fails, Holding
      <3>2. req'[r].pc = "launch" => req'[r].b = Absent
        BY Zenon, <1>2, <2>3 DEF Launches, Fails
      <3>3. req'[r].pc \in {"launch", "done"}
        BY Zenon, <2>3 DEF Launches, Fails
      <3> QED
        BY Zenon, <1>2, <1>4, <2>1, <3>1, <3>2, <3>3
    <2> QED
      BY Zenon, <1>5, <2>2, <2>3
  <1>6. ASSUME NEW b \in Browsers, Keeps(b),
               \/ Shares(r, b) \/ Evicts(r, b) \/ Returns(r, b) \/ Abandons(r, b)
               \/ RegistersLate(r, b) \/ Registers(r, b) \/ Gives(r, b) \/ GivesLast(r, b)
        PROVE  Bound'
    <2>1. /\ b \in Entries <=> browser[b].state = "pooled"
          /\ b \in Natives <=> browser[b].state = "native"
      BY Zenon DEF Entries, Natives
    <2>2. /\ Entries' = IF browser'[b].state = "pooled" THEN Entries \cup {b} ELSE Entries \ {b}
          /\ Natives' = IF browser'[b].state = "native" THEN Natives \cup {b} ELSE Natives \ {b}
      BY Zenon, <1>6, ProcessSets
    <2>3. req[r].pc \in Holding /\ req[r].b = b =>
             /\ browser[b].state = "pooled" /\ IsFiniteSet(Holders(b)) /\ r \in Holders(b)
             /\ browser[b].leases = Cardinality(Holders(b))
      BY Zenon, <1>0, HolderCounts
    <2>4. CASE Shares(r, b)
      <3>1. ~Carries(r)' /\ req'[r].pc \in Holding /\ req'[r].b = b
        BY Zenon, <1>d, <2>4 DEF Shares, Holding
      <3>2. Entries' = Entries /\ Natives' = Natives /\ b \in Entries
        BY Zenon, <2>1, <2>2, <2>4 DEF Shares
      <3>3. req'[r].pc \notin {"new", "loop", "wait", "launch"}
        BY Zenon, <2>4 DEF Shares
      <3> QED
        BY Zenon, <1>2, <1>4, <3>1, <3>2, <3>3
    <2>5. CASE Evicts(r, b)
      <3>1. ~Carries(r)' /\ req'[r].pc = "evict" /\ req'[r].pc \notin Holding
        BY Zenon, <1>d, <2>5 DEF Evicts, Holding
      <3>2. Entries' = Entries \ {b} /\ Natives' = Natives /\ b \in Entries
        BY Zenon, <2>1, <2>2, <2>5 DEF Evicts, Unleased
      <3>3. Holders(b) = {}
        <4>1. IsFiniteSet(Holders(b)) /\ Cardinality(Holders(b)) = 0
          BY Zenon, <2>5, <3>2 DEF Evicts, Unleased, Leased
        <4> QED
          BY Zenon, <4>1, Counting
      <3>4. \A x \in Reqs : req[x].pc \in Holding => req[x].b # b
        BY Zenon, <3>3 DEF Holders, Holding
      <3> QED
        BY Zenon, <1>2, <1>4, <3>1, <3>2, <3>4
    <2>6. CASE Returns(r, b)
      <3>1. req'[r].pc \in {"launched", "abandon"} /\ req'[r].b = b /\ req'[r].pc \notin Holding
        BY Zenon, <2>6 DEF Returns, Holding
      <3>2. Entries' = Entries /\ Natives' = Natives \cup {b} /\ b \notin Natives
        BY Zenon, <2>1, <2>2, <2>6 DEF Returns
      <3> QED
        BY Zenon, <1>2, <1>4, <3>1, <3>2
    <2>7. CASE Abandons(r, b) \/ RegistersLate(r, b)
      <3>1. ~Carries(r)' /\ req'[r].pc \in {"done", "closing"} /\ req'[r].pc \notin Holding
        BY Zenon, <1>d, <2>7 DEF Abandons, RegistersLate, Holding
      <3>2. Carries(r) /\ req[r].b = b /\ b \in Natives
        BY Zenon, <1>2, <2>7 DEF Abandons, RegistersLate
      <3>3. Entries' = Entries /\ Natives' = Natives \ {b}
        BY Zenon, <2>1, <2>2, <2>7, <3>2 DEF Abandons, RegistersLate
      <3> QED
        BY Zenon, <1>2, <1>3, <1>4, <3>1, <3>2, <3>3
    <2>8. CASE Registers(r, b)
      <3>1. ~Carries(r)' /\ req'[r].pc = "setup" /\ req'[r].b = b
        BY Zenon, <1>d, <2>8 DEF Registers
      <3>2. Carries(r) /\ req[r].b = b /\ b \in Natives
        BY Zenon, <1>2, <2>8 DEF Registers
      <3>3. Entries' = Entries \cup {b} /\ Natives' = Natives \ {b}
        BY Zenon, <2>1, <2>2, <2>8, <3>2 DEF Registers
      <3> QED
        BY Zenon, <1>2, <1>3, <1>4, <3>1, <3>2, <3>3
    <2>9. CASE Gives(r, b)
      <3>1. ~Carries(r)' /\ req'[r].pc = "done" /\ req'[r].pc \notin Holding
        BY Zenon, <1>d, <2>9 DEF Gives, Holding
      <3>2. Entries' = Entries /\ Natives' = Natives
        BY Zenon, <2>1, <2>2, <2>3, <2>9 DEF Gives
      <3> QED
        BY Zenon, <1>2, <1>4, <3>1, <3>2
    <2>10. CASE GivesLast(r, b)
      <3>1. ~Carries(r)' /\ req'[r].pc = "closing" /\ req'[r].pc \notin Holding
        BY Zenon, <1>d, <2>10 DEF GivesLast, Holding
      <3>2. Entries' = Entries \ {b} /\ Natives' = Natives
        BY Zenon, <2>1, <2>2, <2>3, <2>10 DEF GivesLast
      <3>3. Holders(b) \ {r} = {}
        BY Zenon, <2>3, <2>10, Counting DEF GivesLast
      <3>4. \A x \in Reqs \ {r} : req[x].pc \in Holding => req[x].b # b
        BY Zenon, <3>3 DEF Holders, Holding
      <3> QED
        BY Zenon, <1>2, <1>4, <3>1, <3>2, <3>4
    <2> QED
      BY Zenon, <1>6, <2>4, <2>5, <2>6, <2>7, <2>8, <2>9, <2>10
  <1> QED
    BY Zenon, <1>5, <1>6 DEF Turns

LEMMA RequestLeased ==
    ASSUME IInv, NEW r \in Reqs, Calm(r), Turns(r), TypeOK'
    PROVE  Leased'
  <1> USE DEF IInv
  <1>0. \A b \in Browsers : b # Absent /\ b # Gone
    BY Zenon, PoolConstants DEF Absent, Gone
  <1> SUFFICES ASSUME NEW c \in Entries'
               PROVE  /\ IsFiniteSet(Holders(c)')
                      /\ browser'[c].leases = Cardinality(Holders(c)')
    BY Zenon DEF Leased
  <1>1. c \in Browsers /\ browser'[c].state = "pooled"
    BY Zenon DEF Entries
  <1>2. Holders(c)' = IF req'[r].pc \in Holding /\ req'[r].b = c
                      THEN Holders(c) \cup {r} ELSE Holders(c) \ {r}
    BY Zenon, RequestSets
  <1>3. r \in Holders(c) <=> req[r].pc \in Holding /\ req[r].b = c
    BY Zenon DEF Holders, Holding
  <1>4. c \in Entries => IsFiniteSet(Holders(c)) /\ browser[c].leases = Cardinality(Holders(c))
    BY Zenon DEF Leased
  <1>5. ASSUME browser'[c] = browser[c], r \in Holders(c)' <=> r \in Holders(c)
        PROVE  /\ IsFiniteSet(Holders(c)')
               /\ browser'[c].leases = Cardinality(Holders(c)')
    <2>1. Holders(c)' = Holders(c)
      BY Zenon, <1>2, <1>5
    <2>2. c \in Entries
      BY Zenon, <1>1, <1>5 DEF Entries
    <2> QED
      BY Zenon, <1>4, <1>5, <2>1, <2>2
  <1>6. CASE Walks(r) \/ Launches(r) \/ Fails(r)
    <2>1. browser'[c] = browser[c]
      BY Zenon, <1>6 DEF Walks, Launches, Fails
    <2>2. req'[r].pc \in Holding /\ req'[r].b = c <=> req[r].pc \in Holding /\ req[r].b = c
      BY Zenon, <1>0, <1>1, <1>6 DEF Walks, Launches, Fails, Holding
    <2> QED
      BY Zenon, <1>2, <1>3, <1>5, <2>1, <2>2
  <1>7. ASSUME NEW b \in Browsers, Keeps(b),
               \/ Shares(r, b) \/ Evicts(r, b) \/ Returns(r, b) \/ Abandons(r, b)
               \/ RegistersLate(r, b) \/ Registers(r, b) \/ Gives(r, b) \/ GivesLast(r, b)
        PROVE  /\ IsFiniteSet(Holders(c)')
               /\ browser'[c].leases = Cardinality(Holders(c)')
    <2>0. Carries(r) => req[r].pc \notin Holding
      BY Zenon DEF Carries, At, Holding
    <2>1. CASE b # c
      <3>1. browser'[c] = browser[c]
        BY Zenon, <1>1, <1>7, <2>1 DEF Keeps
      <3>2. req'[r].pc \in Holding => req'[r].b = b
        BY Zenon, <1>7 DEF Shares, Evicts, Returns, Abandons, RegistersLate, Registers, Gives, GivesLast,
                    Holding
      <3>3. req[r].pc \in Holding => req[r].b = b
        BY Zenon, <1>7, <2>0
           DEF Shares, Evicts, Returns, Abandons, RegistersLate, Registers, Gives, GivesLast,
               Holding
      <3> QED
        BY Zenon, <1>2, <1>3, <1>5, <2>1, <3>1, <3>2, <3>3
    <2>2. CASE b = c
      <3>1. CASE Shares(r, c)
        <4>1. c \in Entries /\ r \notin Holders(c) /\ Holders(c)' = Holders(c) \cup {r}
          BY Zenon, <1>2, <1>3, <3>1 DEF Shares, Holding
        <4>2. /\ IsFiniteSet(Holders(c) \cup {r})
              /\ Cardinality(Holders(c) \cup {r}) = Cardinality(Holders(c)) + 1
          BY Zenon, <1>4, <4>1, Counting
        <4> QED
          BY Zenon, <1>4, <3>1, <4>1, <4>2 DEF Shares
      <3>2. CASE Registers(r, c)
        <4>1. c \notin Entries
          BY Zenon, <3>2 DEF Registers, Bound, Natives, Entries
        <4>2. Holders(c) = {}
          BY Zenon, <1>0, <1>1, <4>1 DEF Bound, Holders, Holding
        <4>3. Holders(c)' = {} \cup {r}
          BY Zenon, <1>2, <3>2, <4>2 DEF Registers, Holding
        <4>4. IsFiniteSet({}) /\ Cardinality({}) = 0
          BY Zenon, FS_EmptySet
        <4>5. IsFiniteSet({} \cup {r}) /\ Cardinality({} \cup {r}) = 1
          BY <4>4, Counting
        <4> QED
          BY Zenon, <3>2, <4>3, <4>5 DEF Registers
      <3>3. CASE Gives(r, c)
        <4>1. r \in Holders(c) /\ Holders(c)' = Holders(c) \ {r} /\ c \in Entries
          BY Zenon, <1>0, <1>1, <1>2, <1>3, <3>3, HolderCounts DEF Gives, Holding
        <4>2. /\ IsFiniteSet(Holders(c) \ {r})
              /\ Cardinality(Holders(c) \ {r}) = Cardinality(Holders(c)) - 1
          BY <1>4, <4>1, Counting
        <4> QED
          BY Zenon, <1>4, <3>3, <4>1, <4>2 DEF Gives
      <3> QED
        BY Zenon, <1>1, <1>7, <2>2, <3>1, <3>2, <3>3
           DEF Evicts, Returns, Abandons, RegistersLate, GivesLast
    <2> QED
      BY Zenon, <2>1, <2>2
  <1> QED
    BY Zenon, <1>6, <1>7 DEF Turns

LEMMA RequestDrained ==
    ASSUME IInv, NEW r \in Reqs, Calm(r), Turns(r), TypeOK', Flags
    PROVE  Drained'
  <1> USE DEF IInv
  <1>0. shut' = "draining" => started' /\ closing'
    BY DEF Drained, Flags
  <1> SUFFICES ASSUME ~started', shut' \in {"closing", "done"}
               PROVE  /\ closing' /\ launching' = 0 /\ Entries' = {}
                      /\ shut' = "done" => closings' = 0
    BY Zenon, <1>0 DEF Drained
  <1>1. ~started /\ shut' = shut /\ closing' = closing
    BY Zenon, Types, TypesNext DEF Flags
  <1>2. closing /\ launching = 0 /\ Entries = {} /\ (shut = "done" => closings = 0)
    BY Zenon, <1>1 DEF Drained
  <1>3. Waiting = {} /\ Natives = {}
    <2>1. Cardinality(Waiting) = 0 /\ Cardinality(Natives) = 0
      BY <1>2, FiniteProcesses, FS_CardinalityType DEF Counted
    <2> QED
      BY Zenon, <2>1, FiniteProcesses, FS_EmptySet DEF Counted
  <1>4. /\ ~Carries(r) /\ (req[r].pc \in Holding => req[r].b = Gone)
        /\ ~(req[r].pc \in {"launch", "abandon"} /\ req[r].b = Absent)
    BY Zenon, <1>2, <1>3 DEF Bound, Waiting
  <1>5. \A b \in Browsers : b # Gone
    BY Zenon, PoolConstants DEF Gone
  <1>6. req[r].pc \in {"launch", "abandon"} => FALSE
    BY Zenon, <1>4 DEF Carries, At, Bound
  <1>7. Walks(r)
    BY Zenon, <1>2, <1>4, <1>5, <1>6
       DEF Turns, Launches, Fails, Shares, Evicts, Returns, Abandons, RegistersLate, Registers,
           Gives, GivesLast, Unleased
  <1> QED
    BY Zenon, <1>1, <1>2, <1>7 DEF Walks, Entries

-----------------------------------------------------------------------------
(***************************************************************************)
(* The reaper, the end of a native process, and close().                   *)
(***************************************************************************)
\* Nobody acts; who waited for a process to close may go on.
Quiet ==
    /\ req' \in [Reqs -> Calls]
    /\ \A x \in Reqs : \/ req'[x].b = req[x].b /\ Moves(req[x].pc, req'[x].pc)
                       \/ /\ req[x].pc \in {"evict", "closing"}
                          /\ req'[x].pc \in {"loop", "done"} /\ req'[x].b = Absent

LEMMA QuietSets ==
    ASSUME TypeOK, Quiet
    PROVE  /\ Waiting' = Waiting /\ \A c : Holders(c)' = Holders(c)
           /\ \A x \in Reqs : Carries(x)' = Carries(x)
           /\ \A x \in Reqs : Carries(x) \/ req'[x].pc \in Holding => req'[x].b = req[x].b
  BY Zenon DEF Waiting, Holders, Holding, Carries, At, Quiet, Moves

LEMMA QuietBound ==
    ASSUME TypeOK, Bound, Quiet, Natives' = Natives, \A b \in Entries \ Entries' : Holders(b) = {}
    PROVE  Bound'
  <1>1. \A x \in Reqs :
           /\ req'[x].pc \in {"new", "loop", "wait", "launch"} => req'[x].b = Absent
           /\ Carries(x)' => req'[x].b \in Natives'
           /\ req'[x].pc \in Holding => req'[x].b \in Entries' \cup {Gone}
    <2> SUFFICES ASSUME NEW x \in Reqs
                 PROVE  /\ req'[x].pc \in {"new", "loop", "wait", "launch"} => req'[x].b = Absent
                        /\ Carries(x)' => req'[x].b \in Natives'
                        /\ req'[x].pc \in Holding => req'[x].b \in Entries' \cup {Gone}
      BY Zenon
    <2>1. req'[x].pc \in {"new", "loop", "wait", "launch"} => req'[x].b = Absent
      BY Zenon DEF Quiet, Moves, Bound
    <2>2. Carries(x)' => req'[x].b \in Natives'
      BY Zenon, QuietSets DEF Bound
    <2>3. req'[x].pc \in Holding => req[x].pc \in Holding /\ req'[x].b = req[x].b
      BY Zenon DEF Quiet, Moves, Holding
    <2>4. req[x].pc \in Holding => x \in Holders(req[x].b) /\ req[x].b \in Entries \cup {Gone}
      BY Zenon DEF Holders, Holding, Bound
    <2> QED
      BY Zenon, <2>1, <2>2, <2>3, <2>4
  <1>2. \A x, y \in Reqs : Carries(x)' /\ Carries(y)' /\ req'[x].b = req'[y].b => x = y
    BY Zenon, QuietSets DEF Bound
  <1> QED
    BY Zenon, <1>1, <1>2 DEF Bound

LEMMA ProcessSteps ==
    ASSUME IInv, NEW b \in Browsers, Reap(b) \/ Native(b)
    PROVE  IInv'
  <1> USE DEF IInv
  <1>t. req \in [Reqs -> Calls] /\ browser \in [Browsers -> Processes]
    BY Zenon, Types
  <1>u. UNCHANGED <<launching, started, closing, shut>>
    BY Zenon DEF Reap, Native, Exit, Freed
  <1>w. req' = Woken(req) \/ req' = req => Quiet
    BY <1>t, WakeUp DEF Quiet, Moves
  <1>n. /\ launching = Cardinality(Waiting) + Cardinality(Natives)
        /\ closings = Cardinality(Closers) /\ ProcessCount <= MaxProcesses
        /\ IsFiniteSet(Waiting)
    BY Zenon DEF Counted
  <1>4. /\ Cardinality(Entries) \in Nat /\ Cardinality(Natives) \in Nat
        /\ Cardinality(Closers) \in Nat /\ launching \in Nat /\ closings \in Nat
        /\ MaxProcesses \in Nat
    BY Zenon, FiniteProcesses, FS_CardinalityType, Types, PoolConstants
  <1>5. /\ Cardinality(Entries \ {b}) =
              IF b \in Entries THEN Cardinality(Entries) - 1 ELSE Cardinality(Entries)
        /\ Cardinality(Closers \cup {b}) =
              IF b \in Closers THEN Cardinality(Closers) ELSE Cardinality(Closers) + 1
        /\ Cardinality(Closers \ {b}) =
              IF b \in Closers THEN Cardinality(Closers) - 1 ELSE Cardinality(Closers)
        /\ b \in Closers => Cardinality(Closers) >= 1
    BY Zenon, FiniteProcesses, Counting
  <1>6. /\ b \in Entries <=> browser[b].state = "pooled"
        /\ b \in Natives <=> browser[b].state = "native"
        /\ b \in Closers <=> browser[b].state \in {"closing", "exited"}
    BY Zenon DEF Entries, Natives, Closers
  <1>c. Counted' <=> /\ IsFiniteSet(Waiting')
                     /\ launching' = Cardinality(Waiting') + Cardinality(Natives')
                     /\ closings' = Cardinality(Closers')
                     /\ Cardinality(Entries') + launching' + closings' <= MaxProcesses
    BY Zenon DEF Counted, ProcessCount
  <1>d. Cardinality(Entries) + launching + closings <= MaxProcesses
    BY Zenon, <1>n DEF ProcessCount
  \* What is left to show of each step.
  <1>7. ASSUME Quiet, Keeps(b), closings' \in Nat, Natives' = Natives,
               Counted', Entries' \subseteq Entries \ {b} \/ Entries' = Entries,
               \A c \in Entries \ Entries' : Holders(c) = {},
               ~started /\ shut = "done" /\ closings = 0 /\ Entries = {} => closings' = 0,
               \A c \in Entries' : browser'[c] = browser[c]
        PROVE  IInv'
    <2>1. TypeOK'
      BY Zenon, <1>7, <1>u, Types, TypesNext DEF Quiet, Keeps
    <2>2. Bound'
      BY Zenon, <1>7, QuietBound
    <2>3. Leased'
      <3>1. \A c \in Entries' : c \in Entries
        BY Zenon, <1>7
      <3> QED
        BY Zenon, <1>7, <3>1, QuietSets DEF Leased
    <2>4. Drained'
      BY Zenon, <1>7, <1>u DEF Drained
    <2> QED
      BY Zenon, <1>7, <2>1, <2>2, <2>3, <2>4
  <1>8. CASE Reap(b)
    <2>1. Quiet
      BY Zenon, <1>8, <1>w DEF Reap
    <2>2. Keeps(b) /\ browser'[b].state = "closing"
      BY Zenon, <1>8, ProcessMoves DEF Reap
    <2>3. b \in Entries /\ b \notin Closers /\ b \notin Natives
      BY Zenon, <1>8, <1>6 DEF Reap, Unleased
    <2>4. Entries' = Entries \ {b} /\ Natives' = Natives /\ Closers' = Closers \cup {b}
      BY <2>2, <2>3, ProcessSets
    <2>5. Holders(b) = {}
      <3>1. IsFiniteSet(Holders(b)) /\ Cardinality(Holders(b)) = 0
        BY Zenon, <1>8, <2>3 DEF Reap, Unleased, Leased
      <3> QED
        BY Zenon, <3>1, Counting
    <2>6. closings' = closings + 1 /\ closings' \in Nat
      BY <1>8, <1>4 DEF Reap
    <2>7. Counted'
      <3>1. Waiting' = Waiting
        BY Zenon, <2>1, QuietSets
      <3> QED
        BY <1>n, <1>u, <1>4, <1>5, <1>c, <1>d, <2>3, <2>4, <2>6, <3>1
    <2>8. \A c \in Entries' : browser'[c] = browser[c]
      BY Zenon, <2>2, <2>4 DEF Keeps, Entries
    <2> QED
      BY <1>7, <2>1, <2>2, <2>3, <2>4, <2>5, <2>6, <2>7, <2>8
  <1>9. CASE Exit(b)
    <2>1. Quiet /\ closings' = closings
      BY Zenon, <1>9, <1>w DEF Exit
    <2>2. Keeps(b) /\ browser'[b].state = "exited"
      BY Zenon, <1>9, ProcessMoves DEF Exit
    <2>3. b \in Closers /\ b \notin Entries /\ b \notin Natives
      BY Zenon, <1>9, <1>6 DEF Exit
    <2>4. Entries' = Entries /\ Natives' = Natives /\ Closers' = Closers
      BY <2>2, <2>3, ProcessSets
    <2>5. Counted'
      <3>1. Waiting' = Waiting
        BY Zenon, <2>1, QuietSets
      <3> QED
        BY Zenon, <1>n, <1>u, <1>c, <1>d, <2>1, <2>4, <3>1
    <2>6. \A c \in Entries' : browser'[c] = browser[c]
      BY Zenon, <2>2, <2>3, <2>4 DEF Keeps, Entries
    <2> QED
      BY Zenon, <1>4, <1>7, <2>1, <2>2, <2>4, <2>5, <2>6
  <1>10. CASE Freed(b)
    <2> DEFINE q == [r \in Reqs |->
                 IF req[r].b = b /\ req[r].pc \in {"evict", "closing"}
                 THEN [req[r] EXCEPT !.pc = IF @ = "evict" THEN "loop" ELSE "done", !.b = Absent]
                 ELSE req[r]]
    <2>1. Quiet
      <3>1. req' = Woken(q)
        BY Zenon, <1>10 DEF Freed
      <3>2. \A c \in Calls : \A pc \in {"loop", "done"} :
               /\ [c EXCEPT !.pc = pc, !.b = Absent] \in Calls
               /\ [c EXCEPT !.pc = pc, !.b = Absent].pc = pc
               /\ [c EXCEPT !.pc = pc, !.b = Absent].b = Absent
        BY Zenon DEF Calls, Places
      <3>3. \A x \in Reqs : /\ q[x] \in Calls
                            /\ \/ q[x] = req[x]
                               \/ /\ req[x].pc \in {"evict", "closing"}
                                  /\ q[x].pc \in {"loop", "done"} /\ q[x].b = Absent
        <4> SUFFICES ASSUME NEW x \in Reqs
                     PROVE  /\ q[x] \in Calls
                            /\ \/ q[x] = req[x]
                               \/ /\ req[x].pc \in {"evict", "closing"}
                                  /\ q[x].pc \in {"loop", "done"} /\ q[x].b = Absent
          BY Zenon
        <4> DEFINE pc == IF req[x].pc = "evict" THEN "loop" ELSE "done"
        <4>1. req[x] \in Calls /\ pc \in {"loop", "done"}
          BY Zenon, <1>t
        <4>2. q[x] = IF req[x].b = b /\ req[x].pc \in {"evict", "closing"}
                     THEN [req[x] EXCEPT !.pc = pc, !.b = Absent] ELSE req[x]
          BY Zenon, <4>1 DEF Calls
        <4> DEFINE c == [req[x] EXCEPT !.pc = pc, !.b = Absent]
        <4>3. c \in Calls /\ c.pc \in {"loop", "done"} /\ c.b = Absent
          <5> HIDE DEF pc
          <5> QED
            BY Zenon, <3>2, <4>1
        <4>4. q[x] = IF req[x].b = b /\ req[x].pc \in {"evict", "closing"} THEN c ELSE req[x]
          BY Zenon, <4>2
        <4> HIDE DEF c, q
        <4> QED
          BY Zenon, <4>1, <4>3, <4>4
      <3>4. q \in [Reqs -> Calls]
        BY Zenon, <3>3
      <3> HIDE DEF q
      <3> QED
        BY <3>1, <3>3, <3>4, WakeUp DEF Quiet, Moves
    <2>2. Keeps(b) /\ browser'[b].state = "none"
      BY Zenon, <1>10, ProcessMoves DEF Freed
    <2>3. b \in Closers /\ b \notin Entries /\ b \notin Natives
      BY Zenon, <1>10, <1>6 DEF Freed
    <2>4. Entries' = Entries /\ Natives' = Natives /\ Closers' = Closers \ {b}
      BY <2>2, <2>3, ProcessSets
    <2>5. closings' = closings - 1 /\ closings' \in Nat /\ closings # 0
      <3>1. closings' = closings - 1
        BY Zenon, <1>10 DEF Freed
      <3>2. Cardinality(Closers) >= 1
        BY Zenon, <1>5, <2>3
      <3> QED
        BY <1>n, <1>4, <3>1, <3>2
    <2>6. Counted'
      <3>1. Waiting' = Waiting
        BY <2>1, QuietSets
      <3> QED
        BY <1>n, <1>u, <1>4, <1>5, <1>c, <1>d, <2>3, <2>4, <2>5, <3>1
    <2>7. \A c \in Entries' : browser'[c] = browser[c]
      BY Zenon, <2>2, <2>3, <2>4 DEF Keeps, Entries
    <2> QED
      BY Zenon, <1>7, <2>1, <2>2, <2>4, <2>5, <2>6, <2>7
  <1> QED
    BY Zenon, <1>8, <1>9, <1>10 DEF Native

\* Nothing but the progress of close(), or nothing at all.
LEMMA SameProcesses ==
    ASSUME Counted, Bound, Leased, UNCHANGED <<req, browser, launching, closings>>
    PROVE  Counted' /\ Bound' /\ Leased'
  <1>1. UNCHANGED <<Waiting, Natives, Closers, Entries>>
    BY Zenon DEF Waiting, Natives, Closers, Entries
  <1>2. \A b : Holders(b)' = Holders(b)
    BY Zenon DEF Holders
  <1>3. \A r : Carries(r)' = Carries(r)
    BY Zenon DEF Carries, At
  <1>4. Counted'
    BY Zenon, <1>1 DEF Counted, ProcessCount
  <1>5. Bound'
    BY Zenon, <1>1, <1>3 DEF Bound
  <1>6. Leased'
    BY Zenon, <1>1, <1>2 DEF Leased
  <1> QED
    BY Zenon, <1>4, <1>5, <1>6

LEMMA CloseSteps ==
    ASSUME IInv, Close \/ CloseDetach \/ CloseDone
    PROVE  IInv'
  <1> USE DEF IInv
  <1>1. CASE Close
    <2>1. TypeOK'
      BY Zenon, <1>1, Types, TypesNext DEF Close
    <2>2. Drained'
      BY Zenon, <1>1 DEF Close, Drained
    <2> QED
      BY Zenon, <1>1, <2>1, <2>2, SameProcesses DEF Close
  <1>2. CASE CloseDone
    <2>1. TypeOK'
      BY Zenon, <1>2, Types, TypesNext DEF CloseDone
    <2>2. Drained'
      BY Zenon, <1>2 DEF CloseDone, Drained, Entries
    <2> QED
      BY Zenon, <1>2, <2>1, <2>2, SameProcesses DEF CloseDone
  <1>3. CASE CloseDetach
    <2>t. req \in [Reqs -> Calls] /\ browser \in [Browsers -> Processes]
      BY Zenon, Types
    <2>n. Waiting = {} /\ Natives = {}
      <3>1. Cardinality(Waiting) = 0 /\ Cardinality(Natives) = 0
        <4>1. Cardinality(Waiting) + Cardinality(Natives) = 0 /\ IsFiniteSet(Waiting)
          BY Zenon, <1>3 DEF Counted, CloseDetach
        <4>2. Cardinality(Waiting) \in Nat /\ Cardinality(Natives) \in Nat
          BY Zenon, <4>1, FiniteProcesses, FS_CardinalityType
        <4> QED
          BY <4>1, <4>2
      <3> QED
        BY Zenon, <3>1, FiniteProcesses, FS_EmptySet DEF Counted
    <2>0. \A x \in Reqs : ~Carries(x) /\ req[x].pc \notin {"launch", "launched", "abandon"}
      BY Zenon, <2>n DEF Bound, Carries, At, Waiting
    <2> DEFINE d == [b \in Browsers |-> IF b \in Entries
                       THEN [browser[b] EXCEPT !.state = "closing", !.retiring = TRUE]
                       ELSE browser[b]]
               q == [r \in Reqs |->
                       IF req[r].b \in Entries THEN [req[r] EXCEPT !.b = Gone] ELSE req[r]]
    <2>1. /\ browser' \in [Browsers -> Processes]
          /\ \A b \in Browsers : /\ b \in Entries => browser'[b].state = "closing"
                                 /\ b \notin Entries => browser'[b] = browser[b]
      <3>1. browser' = d
        BY Zenon, <1>3 DEF CloseDetach
      <3>2. \A p \in Processes :
               /\ [p EXCEPT !.state = "closing", !.retiring = TRUE] \in Processes
               /\ [p EXCEPT !.state = "closing", !.retiring = TRUE].state = "closing"
        BY Zenon DEF Processes, States
      <3> QED
        BY Zenon, <2>t, <3>1, <3>2
    <2>2. /\ req' \in [Reqs -> Calls]
          /\ \A x \in Reqs : /\ Moves(req[x].pc, req'[x].pc)
                             /\ req[x].b \in Entries => req'[x].b = Gone
                             /\ req[x].b \notin Entries => req'[x].b = req[x].b
      <3>1. req' = Woken(q)
        BY Zenon, <1>3 DEF CloseDetach
      <3>2. \A c \in Calls : /\ [c EXCEPT !.b = Gone] \in Calls
                             /\ [c EXCEPT !.b = Gone].b = Gone
                             /\ [c EXCEPT !.b = Gone].pc = c.pc
        BY Zenon DEF Calls
      <3>3. \A x \in Reqs : /\ q[x] \in Calls /\ q[x].pc = req[x].pc
                            /\ req[x].b \in Entries => q[x].b = Gone
                            /\ req[x].b \notin Entries => q[x].b = req[x].b
        BY Zenon, <2>t, <3>2
      <3>4. q \in [Reqs -> Calls]
        BY Zenon, <3>3
      <3> HIDE DEF q
      <3> QED
        BY Zenon, <3>1, <3>3, <3>4, WakeUp
    <2>3. Entries' = {} /\ Natives' = {} /\ Closers' = Closers \cup Entries
      BY Zenon, <2>1, <2>n DEF Entries, Natives, Closers
    <2>4. Waiting' = {} /\ \A x \in Reqs : ~Carries(x)'
      BY Zenon, <2>0, <2>2 DEF Waiting, Carries, At, Moves
    <2>5. /\ launching' = 0 /\ closings' = closings + Cardinality(Entries)
          /\ closing' = closing /\ started' = FALSE /\ shut' = "closing" /\ launching = 0
      BY Zenon, <1>3 DEF CloseDetach
    <2>6. /\ Cardinality(Entries) \in Nat /\ Cardinality(Closers) \in Nat
          /\ Cardinality(Closers \cup Entries) = Cardinality(Closers) + Cardinality(Entries)
      <3>1. Closers \cap Entries = {}
        BY Zenon DEF Closers, Entries
      <3> QED
        BY Zenon, <3>1, FiniteProcesses, DisjointCount
    <2>7. TypeOK'
      <3>1. launching' \in Nat /\ closings' \in Nat
        BY <2>5, <2>6, Types
      <3> QED
        BY Zenon, <2>1, <2>2, <2>5, <3>1, Types, TypesNext
    <2>8. Counted'
      <3>1. IsFiniteSet({}) /\ Cardinality({}) = 0
        BY Zenon, FS_EmptySet
      <3>2. /\ closings = Cardinality(Closers)
            /\ Cardinality(Entries) + launching + closings <= MaxProcesses
        BY Zenon DEF Counted, ProcessCount
      <3> QED
        BY <2>3, <2>4, <2>5, <2>6, <3>1, <3>2 DEF Counted, ProcessCount
    <2>9. Bound'
      <3>1. \A b \in Entries : b # Absent
        BY Zenon, PoolConstants DEF Entries, Absent
      <3>2. \A x \in Reqs :
               /\ req'[x].pc \in {"new", "loop", "wait", "launch"} => req'[x].b = Absent
               /\ req'[x].pc \in Holding => req'[x].b \in Entries' \cup {Gone}
        BY Zenon, <2>2, <3>1 DEF Bound, Moves, Holding
      <3> QED
        BY Zenon, <2>4, <3>2 DEF Bound
    <2>10. Leased'
      BY Zenon, <2>3 DEF Leased
    <2>11. Drained'
      <3>1. closing
        BY Zenon, <1>3 DEF CloseDetach, Drained
      <3> QED
        BY Zenon, <2>3, <2>5, <3>1 DEF Drained
    <2> QED
      BY Zenon, <2>7, <2>8, <2>9, <2>10, <2>11
  <1> QED
    BY Zenon, <1>1, <1>2, <1>3

-----------------------------------------------------------------------------
LEMMA Initially == Init => IInv
  <1> SUFFICES ASSUME Init PROVE IInv
    BY Zenon
  <1>1. \A r \in Reqs : req[r] = NoReq
    BY Zenon DEF Init
  <1>2. \A b \in Browsers : browser[b] = NoEntry
    BY Zenon DEF Init
  <1>3. TypeOK
    <2>1. NoReq \in Calls /\ NoEntry \in Processes
      BY Zenon DEF NoReq, NoEntry, Calls, Places, Processes, States
    <2> QED
      BY Zenon, <2>1, Types DEF Init
  <1>4. Waiting = {} /\ Natives = {} /\ Closers = {} /\ Entries = {}
    BY <1>1, <1>2 DEF Waiting, Natives, Closers, Entries, NoReq, NoEntry
  <1>5. Counted
    <2>1. IsFiniteSet({}) /\ Cardinality({}) = 0
      BY Zenon, FS_EmptySet
    <2> QED
      BY <1>4, <2>1, PoolConstants DEF Counted, ProcessCount, Init
  <1>6. Bound
    BY <1>1 DEF Bound, Carries, At, Holding, NoReq
  <1>7. Leased /\ Drained
    BY Zenon, <1>4 DEF Leased, Drained, Init
  <1> QED
    BY Zenon, <1>3, <1>5, <1>6, <1>7 DEF IInv

LEMMA Inductive == IInv /\ [Next]_vars => IInv'
  <1> SUFFICES ASSUME IInv, [Next]_vars PROVE IInv'
    BY Zenon
  <1>1. CASE \E r \in Reqs : Arrive(r) \/ Work(r) \/ Cancel(r)
    <2>1. PICK r \in Reqs : Arrive(r) \/ Work(r) \/ Cancel(r)
      BY Zenon, <1>1
    <2>2. Calm(r) /\ Turns(r) /\ TypeOK' /\ Flags
      BY Zenon, <2>1, RequestTurns
    <2> QED
      BY Zenon, <2>2, RequestCounted, RequestBound, RequestLeased, RequestDrained DEF IInv
  <1>2. CASE \E b \in Browsers : Reap(b) \/ Native(b)
    BY Zenon, <1>2, ProcessSteps
  <1>3. CASE Close \/ CloseDetach \/ CloseDone
    BY Zenon, <1>3, CloseSteps
  <1>4. CASE UNCHANGED vars
    <2>1. TypeOK'
      BY Zenon, <1>4, Types, TypesNext DEF vars, IInv
    <2>2. Drained'
      BY Zenon, <1>4 DEF vars, IInv, Drained, Entries
    <2> QED
      BY Zenon, <1>4, <2>1, <2>2, SameProcesses DEF vars, IInv
  <1> QED
    BY Zenon, <1>1, <1>2, <1>3, <1>4 DEF Next

LEMMA PoolInvariant == Spec => []IInv
  BY Initially, Inductive, PTL DEF Spec

(***************************************************************************)
(* Never more than max_processes native processes are alive, for any       *)
(* number of requests: a launch reserves its place before it awaits, keeps *)
(* it when its request is cancelled, and a process that leaves the pool    *)
(* keeps its place until it has exited.                                    *)
(***************************************************************************)
THEOREM PoolProcessesBounded == Spec => []ProcessesBounded
  <1>1. IInv => ProcessesBounded
    <2> SUFFICES ASSUME IInv PROVE Cardinality(Alive) <= MaxProcesses
      BY Zenon DEF ProcessesBounded
    <2>1. /\ IsFiniteSet(Entries \cup Natives)
          /\ Cardinality(Entries \cup Natives) = Cardinality(Entries) + Cardinality(Natives)
      <3>1. Entries \cap Natives = {}
        BY Zenon DEF Entries, Natives
      <3> QED
        BY Zenon, <3>1, FiniteProcesses, DisjointCount
    <2>2. /\ IsFiniteSet((Entries \cup Natives) \cup Closers)
          /\ Cardinality((Entries \cup Natives) \cup Closers)
               = Cardinality(Entries \cup Natives) + Cardinality(Closers)
      <3>1. (Entries \cup Natives) \cap Closers = {}
        BY Zenon DEF Entries, Natives, Closers
      <3> QED
        BY Zenon, <2>1, <3>1, FiniteProcesses, DisjointCount
    <2>3. Alive \subseteq (Entries \cup Natives) \cup Closers
      BY Zenon DEF Alive, Entries, Natives, Closers
    <2>4. Cardinality(Alive) <= Cardinality((Entries \cup Natives) \cup Closers)
      BY Zenon, <2>2, <2>3, FS_Subset
    <2>5. /\ Cardinality(Entries) \in Nat /\ Cardinality(Natives) \in Nat
          /\ Cardinality(Closers) \in Nat /\ Cardinality(Waiting) \in Nat
          /\ Cardinality(Alive) \in Nat
      BY Zenon, <2>2, <2>3, FiniteProcesses, FS_Subset, FS_CardinalityType DEF IInv, Counted
    <2>6. /\ launching = Cardinality(Waiting) + Cardinality(Natives)
          /\ closings = Cardinality(Closers)
          /\ Cardinality(Entries) + launching + closings <= MaxProcesses
      BY Zenon DEF IInv, Counted, ProcessCount
    <2> QED
      BY <2>1, <2>2, <2>4, <2>5, <2>6, PoolConstants
  <1> QED
    BY <1>1, PoolInvariant, PTL

(***************************************************************************)
(* Leases are exact: _BrowserEntry.leases is the number of requests that   *)
(* hold the process, and a process leaves the pool only when none does.    *)
(***************************************************************************)
THEOREM PoolLeasesExact == Spec => []LeasesExact
  <1>1. IInv => LeasesExact
    <2> SUFFICES ASSUME IInv PROVE LeasesExact
      BY Zenon
    <2>1. \A b \in Browsers : Holders(b) # {} => b \in Entries
      <3>1. \A b \in Browsers : b # Gone
        BY Zenon, PoolConstants DEF Gone
      <3> QED
        BY Zenon, <3>1 DEF IInv, Bound, Holders, Holding
    <2> QED
      BY Zenon, <2>1 DEF IInv, Leased, LeasesExact
  <1> QED
    BY <1>1, PoolInvariant, PTL

(***************************************************************************)
(* close() leaves nothing behind: when it has returned, no launch, entry   *)
(* or closing process is left unless the pool was started again.           *)
(***************************************************************************)
THEOREM PoolNothingLeft == Spec => []NothingLeft
  <1>1. IInv => NothingLeft
    <2> SUFFICES ASSUME IInv, shut = "done", ~started PROVE Alive = {}
      BY Zenon DEF NothingLeft
    <2>1. launching = 0 /\ Entries = {} /\ closings = 0
      BY Zenon DEF IInv, Drained
    <2>2. Cardinality(Natives) = 0 /\ Cardinality(Closers) = 0
      <3>1. /\ Cardinality(Waiting) + Cardinality(Natives) = 0 /\ IsFiniteSet(Waiting)
            /\ Cardinality(Closers) = 0
        BY Zenon, <2>1 DEF IInv, Counted
      <3>2. Cardinality(Waiting) \in Nat /\ Cardinality(Natives) \in Nat
        BY Zenon, <3>1, FiniteProcesses, FS_CardinalityType
      <3> QED
        BY <3>1, <3>2
    <2>3. Natives = {} /\ Closers = {}
      BY Zenon, <2>2, FiniteProcesses, FS_EmptySet
    <2> QED
      BY Zenon, <2>1, <2>3 DEF Alive, Entries, Natives, Closers
  <1> QED
    BY <1>1, PoolInvariant, PTL
-----------------------------------------------------------------------------
(***************************************************************************)
(* The condition's waiters.                                                *)
(***************************************************************************)
\* A request waits on the condition only while it has nothing to share, to
\* recycle or to launch.
WaitersBlocked ==
  \A r \in Reqs : At(r, "wait") =>
     ProcessCount >= MaxProcesses /\ Unleased = {} /\ Sharable(r) = {}

LEMMA NobodyWaits ==
    ASSUME TypeOK', NEW q, req' = Woken(q)
    PROVE  WaitersBlocked'
  <1> SUFFICES ASSUME NEW x \in Reqs PROVE req'[x].pc # "wait"
    BY Zenon DEF WaitersBlocked, At
  <1>1. req'[x] \in Calls
    BY Zenon, TypesNext
  <1>2. CASE q[x].pc = "wait"
    <2>1. req'[x] = [q[x] EXCEPT !.pc = "loop"]
      BY Zenon, <1>2 DEF Woken
    <2> QED
      BY Zenon, <1>1, <2>1 DEF Calls
  <1>3. CASE q[x].pc # "wait"
    BY Zenon, <1>3 DEF Woken
  <1> QED
    BY Zenon, <1>2, <1>3

\* A step that frees nothing leaves the waiters blocked.
LEMMA StillBlocked ==
    ASSUME WaitersBlocked, Entries' = Entries, UNCHANGED <<launching, closings>>,
           \A b \in Entries : /\ browser'[b].fp = browser[b].fp
                              /\ browser'[b].retiring = browser[b].retiring
                              /\ browser[b].leases # 0 => browser'[b].leases # 0,
           \A x \in Reqs : req'[x].pc = "wait" => At(x, "wait") /\ req'[x].fp = req[x].fp
    PROVE  WaitersBlocked'
  <1> SUFFICES ASSUME NEW r \in Reqs, req'[r].pc = "wait"
               PROVE  ProcessCount' >= MaxProcesses /\ Unleased' = {} /\ Sharable(r)' = {}
    BY Zenon DEF WaitersBlocked, At
  <1>1. ProcessCount >= MaxProcesses /\ Unleased = {} /\ Sharable(r) = {}
    BY Zenon DEF WaitersBlocked
  <1>2. ProcessCount' = ProcessCount
    BY Zenon DEF ProcessCount
  <1>3. Unleased' = {}
    BY Zenon, <1>1 DEF Unleased
  <1>4. Sharable(r)' = {}
    BY Zenon, <1>1 DEF Sharable
  <1> QED
    BY Zenon, <1>1, <1>2, <1>3, <1>4

\* The moves of requests that leave the processes alone.
LEMMA RequestBlocked ==
    ASSUME IInv, TypeOK', WaitersBlocked, NEW r \in Reqs, Arrive(r) \/ Work(r) \/ Cancel(r)
    PROVE  WaitersBlocked'
  <1>1. req \in [Reqs -> Calls] /\ browser \in [Browsers -> Processes]
    BY Zenon, Types DEF IInv
  <1>2. ASSUME UNCHANGED <<browser, launching, closings>>, NEW pc \in Places \ {"wait"},
               req' = Moved(r, pc)
        PROVE  WaitersBlocked'
    <2>1. \A x \in Reqs : req'[x].pc = "wait" => At(x, "wait") /\ req'[x].fp = req[x].fp
      BY Zenon, <1>1, <1>2 DEF Moved, At, Calls
    <2>2. Entries' = Entries
      BY Zenon, <1>2 DEF Entries
    <2> QED
      BY Zenon, <1>2, <2>1, <2>2, StillBlocked
  <1>3. CASE Arrive(r)
    <2>1. \A x \in Reqs : req'[x].pc = "wait" => At(x, "wait") /\ req'[x].fp = req[x].fp
      BY <1>1, <1>3 DEF Arrive, At, Calls
    <2>2. Entries' = Entries /\ UNCHANGED <<browser, launching, closings>>
      BY Zenon, <1>3 DEF Arrive, Entries
    <2> QED
      BY Zenon, <2>1, <2>2, StillBlocked
  <1>4. CASE Refused(r) \/ ContextReady(r) \/ ContextFails(r)
    BY Zenon, <1>2, <1>4 DEF Refused, ContextReady, ContextFails, Places
  <1>5. CASE Cancel(r)
    <2>1. \E pc \in {"done", "closing", "abandon", "drop"} : req' = Moved(r, pc)
      BY SMTT(20), <1>5 DEF Cancel
    <2>2. UNCHANGED <<browser, launching, closings>>
      BY Zenon, <1>5 DEF Cancel
    <2> QED
      BY Zenon, <1>2, <2>1, <2>2 DEF Places
  <1>6. CASE FinishUse(r)
    <2>1. \A x \in Reqs : req'[x].pc = "wait" => At(x, "wait") /\ req'[x].fp = req[x].fp
      BY Zenon, <1>1, <1>6 DEF FinishUse, At, Calls
    <2>2. Entries' = Entries /\ UNCHANGED <<browser, launching, closings>>
      BY Zenon, <1>6 DEF FinishUse, Entries
    <2> QED
      BY <2>1, <2>2, StillBlocked
  <1>7. CASE Wait(r)
    <2> SUFFICES ASSUME NEW x \in Reqs, req'[x].pc = "wait"
                 PROVE  ProcessCount' >= MaxProcesses /\ Unleased' = {} /\ Sharable(x)' = {}
      BY Zenon DEF WaitersBlocked, At
    <2>1. req' = Moved(r, "wait") /\ UNCHANGED <<browser, launching, closings>>
      BY Zenon, <1>7 DEF Wait
    <2>2. req'[x].fp = req[x].fp /\ (x = r \/ At(x, "wait"))
      BY Zenon, <1>1, <2>1 DEF Moved, At, Calls
    <2>3. ProcessCount >= MaxProcesses /\ Unleased = {} /\ Sharable(x) = {}
      BY Zenon, <1>7, <2>2 DEF Wait, Full, WaitersBlocked
    <2>4. ProcessCount' = ProcessCount /\ Unleased' = Unleased /\ Sharable(x)' = Sharable(x)
      BY Zenon, <2>1, <2>2 DEF ProcessCount, Unleased, Sharable, Entries
    <2> QED
      BY Zenon, <2>3, <2>4
  <1>8. CASE Share(r)
    <2>1. PICK b \in Sharable(r) :
            /\ browser' = [browser EXCEPT ![b].leases = @ + 1]
            /\ req' = [req EXCEPT ![r].pc = "setup", ![r].b = b]
      BY Zenon, <1>8 DEF Share
    <2>2. b \in Browsers
      BY Zenon DEF Sharable, Entries
    <2>3. \A x \in Reqs : req'[x].pc = "wait" => At(x, "wait") /\ req'[x].fp = req[x].fp
      BY Zenon, <1>1, <2>1 DEF At, Calls
    <2>4. \A c \in Browsers : /\ browser'[c].state = browser[c].state
                              /\ browser'[c].fp = browser[c].fp
                              /\ browser'[c].retiring = browser[c].retiring
                              /\ browser[c].leases # 0 => browser'[c].leases # 0
      BY <1>1, <2>1, <2>2 DEF Processes
    <2>5. Entries' = Entries /\ UNCHANGED <<launching, closings>>
      BY Zenon, <1>8, <2>4 DEF Share, Entries
    <2> QED
      BY Zenon, <2>3, <2>4, <2>5, StillBlocked DEF Entries
  <1>9. CASE Launch(r)
    <2>1. ProcessCount < MaxProcesses /\ req' = Moved(r, "launch")
      BY Zenon, <1>9 DEF Launch
    <2>2. ProcessCount \in Nat /\ MaxProcesses \in Nat
      BY FiniteProcesses, FS_CardinalityType, PoolConstants DEF ProcessCount, IInv, TypeOK
    <2>3. \A x \in Reqs : req[x].pc # "wait"
      BY SMTT(20), <2>1, <2>2 DEF WaitersBlocked, At
    <2> QED
      BY Zenon, <1>1, <2>1, <2>3 DEF WaitersBlocked, At, Moved, Calls
  <1>10. CASE LaunchReturns(r)
    <2> DEFINE b == CHOOSE b \in Browsers : browser[b].state = "none"
    <2>1. /\ req[r].pc \in {"launch", "abandon"} /\ req[r].b = Absent
          /\ browser' = [browser EXCEPT ![b].state = "native", ![b].fp = req[r].fp]
          /\ req' = [req EXCEPT ![r].b = b, ![r].pc = IF @ = "launch" THEN "launched" ELSE @]
          /\ UNCHANGED <<launching, closings>>
      BY Zenon, <1>10 DEF LaunchReturns
    <2>2. b \in Browsers /\ browser[b].state = "none"
      BY Zenon, <2>1, SpareProcess DEF IInv, Waiting
    <2> HIDE DEF b
    <2>3. \A x \in Reqs : req'[x].pc = "wait" => At(x, "wait") /\ req'[x].fp = req[x].fp
      BY <1>1, <2>1 DEF At, Calls
    <2>4. browser'[b].state = "native" /\ \A c \in Browsers \ {b} : browser'[c] = browser[c]
      BY Zenon, <1>1, <2>1, <2>2 DEF Processes
    <2>5. Entries' = Entries /\ b \notin Entries
      BY Zenon, <2>2, <2>4 DEF Entries
    <2>6. \A c \in Entries : browser'[c] = browser[c]
      BY Zenon, <2>4, <2>5 DEF Entries
    <2> QED
      BY Zenon, <2>1, <2>3, <2>5, <2>6, StillBlocked
  <1>11. ASSUME Evict(r) \/ LaunchFails(r) \/ Abandoned(r) \/ Register(r) \/ Drop(r) \/ Release(r)
         PROVE  \E q : req' = Woken(q)
    BY Zenon, <1>11 DEF Evict, LaunchFails, Abandoned, Register, Drop, Release, GiveBack
  <1> QED
    BY Zenon, <1>3, <1>4, <1>5, <1>6, <1>7, <1>8, <1>9, <1>10, <1>11, NobodyWaits DEF Work

LEMMA NextBlocked == IInv /\ IInv' /\ WaitersBlocked /\ [Next]_vars => WaitersBlocked'
  <1> SUFFICES ASSUME IInv, IInv', WaitersBlocked, [Next]_vars PROVE WaitersBlocked'
    BY Zenon
  <1>1. TypeOK /\ TypeOK' /\ browser \in [Browsers -> Processes]
    BY Zenon, Types DEF IInv
  <1>2. ASSUME NEW r \in Reqs, Arrive(r) \/ Work(r) \/ Cancel(r) PROVE WaitersBlocked'
    BY Zenon, <1>1, <1>2, RequestBlocked
  <1>3. ASSUME NEW b \in Browsers, Reap(b) \/ Freed(b) PROVE WaitersBlocked'
    BY Zenon, <1>1, <1>3, NobodyWaits DEF Reap, Freed
  <1>4. ASSUME NEW b \in Browsers, Exit(b) PROVE WaitersBlocked'
    <2>1. /\ browser[b].state = "closing" /\ browser' = [browser EXCEPT ![b].state = "exited"]
          /\ UNCHANGED <<req, launching, closings>>
      BY Zenon, <1>4 DEF Exit
    <2>2. browser'[b].state = "exited" /\ \A c \in Browsers \ {b} : browser'[c] = browser[c]
      BY Zenon, <1>1, <2>1 DEF Processes
    <2>3. Entries' = Entries /\ \A c \in Entries : browser'[c] = browser[c]
      BY Zenon, <2>1, <2>2 DEF Entries
    <2> QED
      BY Zenon, <2>1, <2>3, StillBlocked DEF At
  <1>5. CASE CloseDetach
    BY Zenon, <1>1, <1>5, NobodyWaits DEF CloseDetach
  <1>6. CASE Close \/ CloseDone \/ UNCHANGED vars
    <2>1. UNCHANGED <<req, browser, launching, closings>>
      BY Zenon, <1>6 DEF Close, CloseDone, vars
    <2> QED
      BY Zenon, <2>1, StillBlocked DEF At, Entries
  <1> QED
    BY Zenon, <1>2, <1>3, <1>4, <1>5, <1>6 DEF Next, Native

\* A waiting request is blocked, and somebody is going to notify it: a request
\* that holds a process, a launch, or a process that is closing.
NoLostWakeup ==
  /\ WaitersBlocked
  /\ \A r \in Reqs : At(r, "wait") =>
        launching > 0 \/ closings > 0 \/ \E b \in Entries : Holders(b) # {}

(***************************************************************************)
(* No wake-up is lost: a request sleeps in `self._condition.wait()` of     *)
(* acquire() only as long as it could neither share a process of its       *)
(* domain, nor recycle an idle one, nor launch one; and as long as a       *)
(* release, a launch or a close is under way that ends in notify_all().    *)
(* Every block that gives something back notifies, whichever way the       *)
(* launch, the context, the lease or the request itself ended.             *)
(***************************************************************************)
THEOREM PoolNoLostWakeup == Spec => []NoLostWakeup
  <1>1. Init => WaitersBlocked
    BY DEF Init, WaitersBlocked, At, NoReq
  <1>2. IInv /\ WaitersBlocked => NoLostWakeup
    <2> SUFFICES ASSUME IInv, WaitersBlocked, NEW r \in Reqs, At(r, "wait"),
                        ~(launching > 0), ~(closings > 0)
                 PROVE  \E b \in Entries : Holders(b) # {}
      BY Zenon DEF NoLostWakeup
    <2>1. ProcessCount >= MaxProcesses /\ Unleased = {}
      BY Zenon DEF WaitersBlocked
    <2>2. launching \in Nat /\ closings \in Nat /\ Cardinality(Entries) \in Nat
      BY Zenon, FiniteProcesses, FS_CardinalityType DEF IInv, TypeOK
    <2>3. Cardinality(Entries) > 0
      BY <2>1, <2>2, PoolConstants DEF ProcessCount
    <2>4. PICK b \in Entries : TRUE
      <3>1. Entries # {}
        BY <2>3, FS_EmptySet
      <3> QED
        BY Zenon, <3>1
    <2>5. browser[b].leases # 0 /\ browser[b].leases = Cardinality(Holders(b))
      BY Zenon, <2>1 DEF Unleased, IInv, Leased
    <2> QED
      BY Zenon, <2>5, FS_EmptySet
  <1> QED
    BY <1>1, <1>2, NextBlocked, Initially, Inductive, PTL DEF Spec
=============================================================================
