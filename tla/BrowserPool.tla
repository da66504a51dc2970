---------------------------- MODULE BrowserPool ----------------------------
(***************************************************************************)
(* The bounded pool of browser processes of the scraper:                   *)
(* scraper-svc/scraper/browser_pool.py, used by fetch_tiers.py and closed  *)
(* by the application's lifespan.                                          *)
(*                                                                         *)
(* Every block under the pool's condition is one action; between blocks a  *)
(* request may be cancelled.  Native launches and closes are shielded from *)
(* cancellation, so they finish on their own.  The age and the idle time   *)
(* of a process are abstracted: an unleased process may expire at any time.*)
(***************************************************************************)
EXTENDS Naturals, FiniteSets

CONSTANTS Reqs,          \* requests, each made once
          Browsers,      \* identities of native processes
          Fingerprints,  \* domain fingerprints
          MaxProcesses

ASSUME PoolConstants ==
  /\ MaxProcesses \in Nat /\ MaxProcesses > 0
  /\ IsFiniteSet(Browsers) /\ Cardinality(Browsers) > MaxProcesses
  /\ {"absent", "gone"} \cap Browsers = {}

VARIABLES req,        \* req[r]: the request's task
          browser,    \* browser[b]: a native process and its _BrowserEntry
          launching,  \* _launching
          closings,   \* _closing_processes
          started, closing, \* _started, _closing
          shut        \* progress of close()

vars == <<req, browser, launching, closings, started, closing, shut>>

Gone    == "gone"     \* the request's entry was detached by close()
Absent  == "absent"
NoEntry == [state |-> "none", fp |-> Absent, leases |-> 0, retiring |-> FALSE]
NoReq   == [pc |-> "new", fp |-> Absent, b |-> Absent, healthy |-> TRUE]

Init ==
  /\ req = [r \in Reqs |-> NoReq]
  /\ browser = [b \in Browsers |-> NoEntry]
  /\ launching = 0
  /\ closings = 0
  /\ started = FALSE
  /\ closing = FALSE
  /\ shut = "no"

Entries == {b \in Browsers : browser[b].state = "pooled"}
Alive   == {b \in Browsers : browser[b].state \in {"native", "pooled", "closing"}}

ProcessCount == Cardinality(Entries) + launching + closings

(***************************************************************************)
(* Condition.notify_all, together with a request's own move.               *)
(***************************************************************************)
Woken(q) == [x \in Reqs |-> IF q[x].pc = "wait" THEN [q[x] EXCEPT !.pc = "loop"] ELSE q[x]]

At(r, pc) == req[r].pc = pc

Moved(r, pc) == [req EXCEPT ![r].pc = pc]

\* A request that detached a process waits for it to close.
Detached(b) == [browser EXCEPT ![b].state = "closing", ![b].retiring = TRUE]

(***************************************************************************)
(* acquire: start, then the loop under the condition.                      *)
(***************************************************************************)
\* start() reopens a pool whose previous lifespan has drained.
Arrive(r) ==
  /\ At(r, "new")
  /\ \E f \in Fingerprints :
       req' = [req EXCEPT ![r].fp = f,
                          ![r].pc = IF ~started /\ closing /\ ProcessCount > 0
                                    THEN "done" ELSE "loop"]
  /\ IF started \/ (closing /\ ProcessCount > 0)
     THEN UNCHANGED <<started, closing>>
     ELSE started' = TRUE /\ closing' = FALSE
  /\ UNCHANGED <<browser, launching, closings, shut>>

Sharable(r) == {b \in Entries : browser[b].fp = req[r].fp /\ ~browser[b].retiring}
Unleased    == {b \in Entries : browser[b].leases = 0}

Refused(r) ==
  /\ At(r, "loop")
  /\ closing
  /\ req' = Moved(r, "done")
  /\ UNCHANGED <<browser, launching, closings, started, closing, shut>>

Share(r) ==
  /\ At(r, "loop")
  /\ ~closing
  /\ \E b \in Sharable(r) :
       /\ browser' = [browser EXCEPT ![b].leases = @ + 1]
       /\ req' = [req EXCEPT ![r].pc = "setup", ![r].b = b]
  /\ UNCHANGED <<launching, closings, started, closing, shut>>

\* Mutant: processes that are still closing do not count.
LaunchEarly(r) ==
  /\ At(r, "loop")
  /\ ~closing
  /\ Sharable(r) = {}
  /\ Cardinality(Entries) + launching < MaxProcesses
  /\ launching' = launching + 1
  /\ req' = Moved(r, "launch")
  /\ UNCHANGED <<browser, closings, started, closing, shut>>

Launch(r) ==
  /\ At(r, "loop")
  /\ ~closing
  /\ Sharable(r) = {}
  /\ ProcessCount < MaxProcesses
  /\ launching' = launching + 1
  /\ req' = Moved(r, "launch")
  /\ UNCHANGED <<browser, closings, started, closing, shut>>

Full(r) == At(r, "loop") /\ ~closing /\ Sharable(r) = {} /\ ProcessCount >= MaxProcesses

Evict(r) ==
  /\ Full(r)
  /\ \E b \in Unleased :
       /\ browser' = Detached(b)
       /\ req' = Woken([req EXCEPT ![r].pc = "evict", ![r].b = b])
  /\ closings' = closings + 1
  /\ UNCHANGED <<launching, started, closing, shut>>

Wait(r) ==
  /\ Full(r)
  /\ Unleased = {}
  /\ req' = Moved(r, "wait")
  /\ UNCHANGED <<browser, launching, closings, started, closing, shut>>

(***************************************************************************)
(* acquire: the native launch, which finishes even for a cancelled request,*)
(* and the registration of the process.                                    *)
(***************************************************************************)
LaunchReturns(r) ==
  /\ req[r].pc \in {"launch", "abandon"}
  /\ req[r].b = Absent
  /\ LET b == CHOOSE b \in Browsers : browser[b].state = "none" IN
       /\ browser' = [browser EXCEPT ![b].state = "native", ![b].fp = req[r].fp]
       /\ req' = [req EXCEPT ![r].b = b, ![r].pc = IF @ = "launch" THEN "launched" ELSE @]
  /\ UNCHANGED <<launching, closings, started, closing, shut>>

\* Mutant: a failed launch keeps its reservation.
LaunchFailsReserved(r) ==
  /\ req[r].pc \in {"launch", "abandon"}
  /\ req[r].b = Absent
  /\ req' = Woken(Moved(r, "done"))
  /\ UNCHANGED <<browser, launching, closings, started, closing, shut>>

LaunchFails(r) ==
  /\ req[r].pc \in {"launch", "abandon"}
  /\ req[r].b = Absent
  /\ launching' = launching - 1
  /\ req' = Woken(Moved(r, "done"))
  /\ UNCHANGED <<browser, closings, started, closing, shut>>

\* A cancelled launch closes its process before it gives the capacity back.
Abandoned(r) ==
  /\ At(r, "abandon")
  /\ req[r].b # Absent
  /\ browser' = [browser EXCEPT ![req[r].b] = NoEntry]
  /\ launching' = launching - 1
  /\ req' = Woken([req EXCEPT ![r].pc = "done", ![r].b = Absent])
  /\ UNCHANGED <<closings, started, closing, shut>>

Register(r) ==
  /\ At(r, "launched")
  /\ launching' = launching - 1
  /\ LET b == req[r].b IN
       IF closing
       THEN /\ browser' = Detached(b)
            /\ closings' = closings + 1
            /\ req' = Woken(Moved(r, "closing"))
       ELSE /\ browser' = [browser EXCEPT ![b].state = "pooled", ![b].leases = 1]
            /\ req' = Woken(Moved(r, "setup"))
            /\ UNCHANGED closings
  /\ UNCHANGED <<started, closing, shut>>

(***************************************************************************)
(* acquire: the request's context; failure retires the process.            *)
(***************************************************************************)
ContextReady(r) ==
  /\ At(r, "setup")
  /\ req' = Moved(r, IF req[r].b = Gone THEN "drop" ELSE "leased")
  /\ UNCHANGED <<browser, launching, closings, started, closing, shut>>

ContextFails(r) ==
  /\ At(r, "setup")
  /\ req' = Moved(r, "drop")
  /\ UNCHANGED <<browser, launching, closings, started, closing, shut>>

\* Giving a lease back, in _retire and in release: the last lease of a
\* retiring process closes it.
GiveBack(r, retire) ==
  LET b    == req[r].b
      e    == [browser[b] EXCEPT !.leases = @ - 1, !.retiring = @ \/ retire]
      last == e.retiring /\ e.leases = 0
  IN IF b = Gone
     THEN req' = Woken(Moved(r, "done")) /\ UNCHANGED <<browser, closings>>
     ELSE /\ browser' = [browser EXCEPT ![b] = IF last THEN [e EXCEPT !.state = "closing"]
                                                       ELSE e]
          /\ closings' = IF last THEN closings + 1 ELSE closings
          /\ req' = Woken([req EXCEPT ![r].pc = IF last THEN "closing" ELSE "done"])

\* Mutant: a request whose context failed keeps its lease.
DropKeepsLease(r) ==
  /\ At(r, "drop")
  /\ req' = Woken(Moved(r, "done"))
  /\ browser' = IF req[r].b = Gone THEN browser ELSE [browser EXCEPT ![req[r].b].retiring = TRUE]
  /\ UNCHANGED <<launching, closings, started, closing, shut>>

Drop(r) ==
  /\ At(r, "drop")
  /\ GiveBack(r, TRUE)
  /\ UNCHANGED <<launching, started, closing, shut>>

(***************************************************************************)
(* The lease in use, and release: the context closes, then the lease is    *)
(* given back; an unhealthy use or a failed close retires the process.     *)
(***************************************************************************)
FinishUse(r) ==
  /\ At(r, "leased")
  /\ \E h \in BOOLEAN : req' = [req EXCEPT ![r].pc = "release", ![r].healthy = h]
  /\ UNCHANGED <<browser, launching, closings, started, closing, shut>>

\* Mutant: an unhealthy process is closed under its other leases.
ReleaseAndKill(r) ==
  /\ At(r, "release")
  /\ IF req[r].healthy \/ req[r].b = Gone
     THEN GiveBack(r, FALSE)
     ELSE /\ browser' = Detached(req[r].b)
          /\ closings' = closings + 1
          /\ req' = Woken(Moved(r, "closing"))
  /\ UNCHANGED <<launching, started, closing, shut>>

\* Mutant: release does not notify the waiting requests.
ReleaseQuietly(r) ==
  /\ At(r, "release")
  /\ IF req[r].b = Gone
     THEN req' = Moved(r, "done") /\ UNCHANGED <<browser, closings>>
     ELSE /\ browser' = [browser EXCEPT ![req[r].b].leases = @ - 1]
          /\ req' = Moved(r, "done")
          /\ UNCHANGED closings
  /\ UNCHANGED <<launching, started, closing, shut>>

Release(r) ==
  /\ At(r, "release")
  /\ GiveBack(r, ~req[r].healthy)
  /\ UNCHANGED <<launching, started, closing, shut>>

(***************************************************************************)
(* Cancellation of a request, at any await before its release.             *)
(***************************************************************************)
Cancel(r) ==
  /\ \E pc \in {<<"loop", "done">>, <<"wait", "done">>,
                <<"evict", "closing">>, <<"launch", "abandon">>,
                <<"launched", "abandon">>, <<"setup", "drop">>} :
       At(r, pc[1]) /\ req' = Moved(r, pc[2])
  /\ UNCHANGED <<browser, launching, closings, started, closing, shut>>

(***************************************************************************)
(* _reap_expired, of the reaper and of every turn of acquire.              *)
(***************************************************************************)
Reap(b) ==
  /\ b \in Unleased
  /\ browser' = Detached(b)
  /\ closings' = closings + 1
  /\ req' = Woken(req)
  /\ UNCHANGED <<launching, started, closing, shut>>

(***************************************************************************)
(* _close_entry: the process exits, then its capacity is released and      *)
(* whoever detached it goes on.                                            *)
(***************************************************************************)
Exit(b) ==
  /\ browser[b].state = "closing"
  /\ browser' = [browser EXCEPT ![b].state = "exited"]
  /\ UNCHANGED <<req, launching, closings, started, closing, shut>>

Freed(b) ==
  /\ browser[b].state = "exited"
  /\ browser' = [browser EXCEPT ![b] = NoEntry]
  /\ closings' = closings - 1
  /\ req' = Woken([r \in Reqs |->
       IF req[r].b = b /\ req[r].pc \in {"evict", "closing"}
       THEN [req[r] EXCEPT !.pc = IF @ = "evict" THEN "loop" ELSE "done", !.b = Absent]
       ELSE req[r]])
  /\ UNCHANGED <<launching, started, closing, shut>>

(***************************************************************************)
(* close(): refuse new work, wait for launches, detach every process, wait *)
(* for them to close.                                                      *)
(***************************************************************************)
Close ==
  /\ shut = "no"
  /\ started
  /\ closing' = TRUE
  /\ shut' = "draining"
  /\ UNCHANGED <<req, browser, launching, closings, started>>

\* Mutant: the launches in flight are not waited for.
CloseDetachAtOnce ==
  /\ shut = "draining"
  /\ closings' = closings + Cardinality(Entries)
  /\ browser' = [b \in Browsers |-> IF b \in Entries
                   THEN [browser[b] EXCEPT !.state = "closing", !.retiring = TRUE]
                   ELSE browser[b]]
  /\ req' = Woken([r \in Reqs |->
       IF req[r].b \in Entries THEN [req[r] EXCEPT !.b = Gone] ELSE req[r]])
  /\ started' = FALSE
  /\ shut' = "closing"
  /\ UNCHANGED <<launching, closing>>

CloseDetach ==
  /\ shut = "draining"
  /\ launching = 0
  /\ closings' = closings + Cardinality(Entries)
  /\ browser' = [b \in Browsers |-> IF b \in Entries
                   THEN [browser[b] EXCEPT !.state = "closing", !.retiring = TRUE]
                   ELSE browser[b]]
  /\ req' = Woken([r \in Reqs |->
       IF req[r].b \in Entries THEN [req[r] EXCEPT !.b = Gone] ELSE req[r]])
  /\ started' = FALSE
  /\ shut' = "closing"
  /\ UNCHANGED <<launching, closing>>

CloseDone ==
  /\ shut = "closing"
  /\ closings = 0
  /\ shut' = "done"
  /\ UNCHANGED <<req, browser, launching, closings, started, closing>>

Work(r) ==
  \/ Refused(r) \/ Share(r) \/ Launch(r) \/ Evict(r) \/ Wait(r)
  \/ LaunchReturns(r) \/ LaunchFails(r) \/ Abandoned(r) \/ Register(r)
  \/ ContextReady(r) \/ ContextFails(r) \/ Drop(r) \/ FinishUse(r) \/ Release(r)

Native(b) == Exit(b) \/ Freed(b)

Next ==
  \/ \E r \in Reqs : Arrive(r) \/ Work(r) \/ Cancel(r)
  \/ \E b \in Browsers : Reap(b) \/ Native(b)
  \/ Close \/ CloseDetach \/ CloseDone

Spec == Init /\ [][Next]_vars

(***************************************************************************)
(* A runnable task runs: a native launch or close ends, a page load has a  *)
(* timeout, and the event loop resumes whoever is ready.                   *)
(***************************************************************************)
FairSpec ==
  /\ Spec
  /\ \A r \in Reqs : WF_vars(Work(r))
  /\ \A b \in Browsers : WF_vars(Native(b))
  /\ WF_vars(CloseDetach \/ CloseDone)

-----------------------------------------------------------------------------
\* Type correctness.  Lease counts and the two reservation counters of the pool
\* never go below zero, whatever is released, freed or cancelled.
TypeOK ==
  /\ req \in [Reqs -> [pc : {"new", "loop", "wait", "evict", "launch", "abandon",
                             "launched", "setup", "drop", "leased", "release", "closing",
                             "done"},
                       fp : Fingerprints \cup {Absent},
                       b : Browsers \cup {Absent, Gone}, healthy : BOOLEAN]]
  /\ browser \in [Browsers -> [state : {"none", "native", "pooled", "closing", "exited"},
                               fp : Fingerprints \cup {Absent},
                               leases : Nat, retiring : BOOLEAN]]
  /\ launching \in Nat /\ closings \in Nat
  /\ started \in BOOLEAN /\ closing \in BOOLEAN
  /\ shut \in {"no", "draining", "closing", "done"}

(***************************************************************************)
(* The native processes alive never exceed max_processes, those being      *)
(* launched for cancelled requests and those still closing included.       *)
(***************************************************************************)
ProcessesBounded == Cardinality(Alive) <= MaxProcesses

Holders(b) == {r \in Reqs : req[r].b = b /\ req[r].pc \in {"setup", "drop", "leased", "release"}}

(***************************************************************************)
(* The pool's books are exact: a pooled process has one lease per request  *)
(* that holds it, whatever failed or was cancelled on the way, and, but for*)
(* close(), which takes them all, no process is taken out of the pool, to  *)
(* be closed, under a request that still holds it.                         *)
(***************************************************************************)
LeasesExact ==
  /\ TypeOK
  /\ \A b \in Entries : browser[b].leases = Cardinality(Holders(b))
  /\ \A b \in Browsers : Holders(b) # {} => b \in Entries

(***************************************************************************)
(* When close() has returned and the pool was not started again, no native *)
(* process is left.                                                        *)
(***************************************************************************)
NothingLeft == shut = "done" /\ ~started => Alive = {}

(***************************************************************************)
(* Every request that asked for a browser is served or refused: the pool   *)
(* never waits for ever for its own capacity.                              *)
(***************************************************************************)
RequestsServed ==
  \A r \in Reqs : req[r].pc \in {"loop", "wait", "evict"} ~> req[r].pc \in {"setup", "done"}

(***************************************************************************)
(* close() ends, whatever is being launched, used or cancelled meanwhile.  *)
(***************************************************************************)
CloseEnds == shut = "draining" ~> shut = "done"
=============================================================================
