---------------------------- MODULE JobLifecycle ----------------------------
(***************************************************************************)
(* What the job API promises its clients, without leases, fences, scans or *)
(* processes: an accepted job is dispatched at most once, is resolved at   *)
(* most once, and only a dispatched job completes or fails.                *)
(***************************************************************************)
CONSTANT Jobs
VARIABLE phase

Outcomes == {"completed", "failed", "cancelled"}

\* A record that predates the service's execution marker counts as dispatched.
Init == phase \in [Jobs -> {"absent", "executing"}]

Accept(j) == phase[j] = "absent" /\ phase' = [phase EXCEPT ![j] = "accepted"]

Dispatch(j) == phase[j] = "accepted" /\ phase' = [phase EXCEPT ![j] = "executing"]

Resolve(j, outcome) ==
    /\ \/ phase[j] = "executing"
       \/ phase[j] = "accepted" /\ outcome = "cancelled"
    /\ phase' = [phase EXCEPT ![j] = outcome]

Next == \E j \in Jobs :
           Accept(j) \/ Dispatch(j) \/ \E outcome \in Outcomes : Resolve(j, outcome)

Spec == Init /\ [][Next]_phase
=============================================================================
