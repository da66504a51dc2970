--------------------------- MODULE CircuitBreaker ---------------------------
(***************************************************************************)
(* common/circuit_breaker.py together with its one user, the proxy streams *)
(* /ask and /ask/deep of portal-svc/portal/app.py.                         *)
(*                                                                         *)
(* check(), record_success() and record_failure() hold an asyncio.Lock and *)
(* never await inside it: each is one action.  Between a request's check() *)
(* and the moment it records (or does not record) its outcome, any other   *)
(* request may run, so outcomes arrive in any order and in any state.      *)
(***************************************************************************)
EXTENDS Naturals, FiniteSets

CONSTANTS
    Requests,           \* proxied requests (each may be issued again)
    FailureThreshold,   \* failure_threshold
    MaxFailures,        \* bound: failures are counted up to here
    Outcomes            \* how a proxied call may end, a subset of AllOutcomes

(* ok          the agent answered below 400: record_success                *)
(* server      it answered 5xx: record_failure                             *)
(* connect     httpx.ConnectError: record_failure                          *)
(* client      it answered 4xx: nothing is recorded                        *)
(* abandoned   another transport error or a disconnected reader ends the   *)
(*             stream before any status: nothing is recorded               *)
AllOutcomes == {"ok", "server", "connect", "client", "abandoned"}

ASSUME BreakerAssumption ==
    /\ FailureThreshold \in Nat \ {0}
    /\ MaxFailures \in Nat /\ MaxFailures >= FailureThreshold
    /\ Outcomes \subseteq AllOutcomes

VARIABLES
    state,      \* self._state
    failures,   \* self._consecutive_failures, up to MaxFailures
    cooled,     \* cooldown_seconds have passed since self._last_failure_time
    probe,      \* self._probe_in_progress
    inflight,   \* requests between check() and their outcome
    probes      \* history: requests let through in this HALF_OPEN window

BreakerVars == <<state, failures, cooled, probe, inflight, probes>>

States == {"CLOSED", "OPEN", "HALF_OPEN"}

\* Type correctness.  The count goes on past the threshold while the circuit is
\* not closed: record_failure counts whatever the state.
BreakerTypeOK ==
    /\ state \in States
    /\ failures \in 0 .. MaxFailures
    /\ cooled \in BOOLEAN
    /\ probe \in BOOLEAN
    /\ inflight \subseteq Requests
    /\ probes \subseteq Requests

BreakerInit ==
    /\ state = "CLOSED"
    /\ failures = 0
    /\ cooled = TRUE
    /\ probe = FALSE
    /\ inflight = {}
    /\ probes = {}

\* The count is compared with the threshold and logged, nothing else.
Saturated(n) == IF n > MaxFailures THEN MaxFailures ELSE n

-----------------------------------------------------------------------------
(* Mutations of the actions below. *)

CheckProbeNoFlag(r) ==
    /\ r \notin inflight
    /\ \/ state = "OPEN" /\ cooled
       \/ state = "HALF_OPEN" /\ ~probe
    /\ state' = "HALF_OPEN"
    /\ probe' = FALSE
    /\ inflight' = inflight \cup {r}
    /\ probes' = IF state = "OPEN" THEN {r} ELSE probes \cup {r}
    /\ UNCHANGED <<failures, cooled>>

CheckProbeNeverHalfOpens(r) ==
    /\ r \notin inflight
    /\ \/ state = "OPEN" /\ cooled
       \/ state = "HALF_OPEN" /\ ~probe
    /\ probe' = TRUE
    /\ inflight' = inflight \cup {r}
    /\ probes' = IF state = "OPEN" THEN {r} ELSE probes \cup {r}
    /\ UNCHANGED <<state, failures, cooled>>

RecordSuccessNoReset ==
    /\ state' = IF state = "HALF_OPEN" THEN "CLOSED" ELSE state
    /\ probe' = IF state = "HALF_OPEN" THEN FALSE ELSE probe
    /\ UNCHANGED <<failures, cooled>>

-----------------------------------------------------------------------------
(* check() lets the request through in CLOSED. *)
CheckClosed(r) ==
    /\ r \notin inflight
    /\ state = "CLOSED"
    /\ inflight' = inflight \cup {r}
    /\ UNCHANGED <<state, failures, cooled, probe, probes>>

(* check() lets the request through as the probe.  After the cooldown the  *)
(* first caller turns OPEN into HALF_OPEN, clears the flag and goes on to  *)
(* the HALF_OPEN test in the same call.                                    *)
CheckProbe(r) ==
    LET reopens == state = "OPEN" /\ cooled
        busy == IF reopens THEN FALSE ELSE probe
    IN
    /\ r \notin inflight
    /\ reopens \/ state = "HALF_OPEN"
    /\ ~busy
    /\ state' = "HALF_OPEN"
    /\ probe' = TRUE
    /\ inflight' = inflight \cup {r}
    /\ probes' = IF reopens THEN {r} ELSE probes \cup {r}
    /\ UNCHANGED <<failures, cooled>>

(* check() raises CircuitOpenError; the portal streams an error event. *)
CheckFastFail(r) ==
    /\ r \notin inflight
    /\ \/ state = "OPEN" /\ ~cooled
       \/ state = "HALF_OPEN" /\ probe
    /\ UNCHANGED BreakerVars

RecordSuccess ==
    /\ state' = IF state = "HALF_OPEN" THEN "CLOSED" ELSE state
    /\ failures' = IF state = "OPEN" THEN failures ELSE 0
    /\ probe' = IF state = "HALF_OPEN" THEN FALSE ELSE probe
    /\ UNCHANGED cooled

RecordFailure ==
    /\ failures' = Saturated(failures + 1)
    /\ cooled' = FALSE
    /\ state' = CASE state = "HALF_OPEN" -> "OPEN"
                  [] state = "CLOSED" /\ failures' >= FailureThreshold -> "OPEN"
                  [] OTHER -> state
    /\ probe' = IF state = "HALF_OPEN" THEN FALSE ELSE probe

(* The proxied call of r ends. *)
Finish(r) ==
    /\ r \in inflight
    /\ inflight' = inflight \ {r}
    /\ \/ "ok" \in Outcomes /\ RecordSuccess
       \/ Outcomes \cap {"server", "connect"} # {} /\ RecordFailure
       \/ /\ Outcomes \cap {"client", "abandoned"} # {}
          /\ UNCHANGED <<state, failures, cooled, probe>>
    /\ UNCHANGED probes

(* time.monotonic() moves past the cooldown. *)
Cooldown ==
    /\ ~cooled
    /\ cooled' = TRUE
    /\ UNCHANGED <<state, failures, probe, inflight, probes>>

BreakerNext ==
    \/ \E r \in Requests :
          CheckClosed(r) \/ CheckProbe(r) \/ CheckFastFail(r) \/ Finish(r)
    \/ Cooldown

BreakerSpec == BreakerInit /\ [][BreakerNext]_BreakerVars

(* Time passes, the API ends its streams, and users keep asking: the       *)
(* Requests are few, so that a finished one also stands for a new one.     *)
BreakerFairness ==
    /\ WF_BreakerVars(Cooldown)
    /\ \A r \in Requests : WF_BreakerVars(Finish(r)) /\ WF_BreakerVars(CheckProbe(r))

BreakerFairSpec == BreakerSpec /\ BreakerFairness

-----------------------------------------------------------------------------
(* Properties. *)

(* "Exactly one probe request is allowed through" (circuit_breaker.py:22): *)
(* a HALF_OPEN window admits a single request, however stale outcomes of   *)
(* earlier requests are interleaved with it.                               *)
OneProbePerWindow == state = "HALF_OPEN" => Cardinality(probes) <= 1

(* While the circuit is closed, fewer than failure_threshold failures have *)
(* been counted since the last success: record_failure opens in time and   *)
(* no way back to CLOSED carries an old count along.                       *)
ClosedBelowThreshold == state = "CLOSED" => failures < FailureThreshold

(* The breaker short-circuits only "temporarily" (circuit_breaker.py:4): a *)
(* HALF_OPEN circuit decides, it does not fast-fail everybody for ever.    *)
HalfOpenDecides == state = "HALF_OPEN" ~> state # "HALF_OPEN"

(* An open circuit is probed again once the cooldown is over, although     *)
(* late failures of requests admitted earlier restart the cooldown.        *)
OpenIsProbed == state = "OPEN" ~> state = "HALF_OPEN"
==============================================================================
