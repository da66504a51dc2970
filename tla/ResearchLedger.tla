--------------------------- MODULE ResearchLedger ---------------------------
(***************************************************************************)
(* The Valkey record of one durable research run and the Lua scripts of    *)
(* agent/experimental/durable_research.py.  Each script is atomic in       *)
(* Valkey, so each is one operator from the record to the record it        *)
(* writes, with the script's tests as a predicate beside it.               *)
(*                                                                         *)
(* An owner identifier is a fresh UUID for every claim, so the token       *)
(* owner:generation is the generation.  A notification owner is a fresh    *)
(* UUID for every attempt, so it is the attempt's number.                  *)
(***************************************************************************)
EXTENDS Naturals

CONSTANTS NumOps,        \* external operations of the run, made in order
          MaxNoteTries   \* 3 in the code

ASSUME LedgerConstants ==
  /\ NumOps \in Nat /\ NumOps > 0
  /\ MaxNoteTries \in Nat /\ MaxNoteTries > 0

Ops == 1..NumOps

Outcomes  == {"completed", "failed", "cancelled"}
Terminal  == Outcomes \cup {"deleted"}
NoteFinal == {"delivered", "rejected", "unconfirmed"}

Ledger ==
  [state  : {"none", "admitted", "running"} \cup Terminal,
   gen    : Nat,                \* owner_generation
   lease  : Nat,                \* generation the lease key names, 0 when absent
   open   : BOOLEAN,            \* now_ms < retry_deadline_ms
   ops    : [Ops -> {"none", "intent", "receipt"}],
   error  : {"none", "outcome_unknown", "research_run_failed"},
   note   : [state    : {"none", "pending", "sending"} \cup NoteFinal,
             event    : {"none"} \cup Outcomes,
             attempts : 0..MaxNoteTries,
             owner    : 0..MaxNoteTries,
             due      : BOOLEAN],   \* lease_until and available_at have passed
   listed : BOOLEAN]            \* in the set of runs with a notification to send

NoRun ==
  [state |-> "none", gen |-> 0, lease |-> 0, open |-> TRUE,
   ops |-> [o \in Ops |-> "none"], error |-> "none",
   note |-> [state |-> "none", event |-> "none", attempts |-> 0, owner |-> 0,
             due |-> TRUE],
   listed |-> FALSE]

(***************************************************************************)
(* _ADMIT_SCRIPT: a retained idempotency key returns the run it admitted.  *)
(***************************************************************************)
Admitted(L) ==
  IF L.state = "none"
  THEN [L EXCEPT !.state = "admitted", !.listed = TRUE]
  ELSE L

(***************************************************************************)
(* _CLAIM_SCRIPT.                                                          *)
(***************************************************************************)
Claimable(L) ==
  /\ L.state \in {"admitted", "running"}
  /\ L.open
  /\ L.lease = 0

\* Mutant: a live lease does not stop another claim.
ClaimableOverLease(L) ==
  /\ L.state \in {"admitted", "running"}
  /\ L.open

Claimed(L) ==
  [L EXCEPT !.state = "running", !.gen = @ + 1, !.lease = L.gen + 1]

(***************************************************************************)
(* The test that opens _HEARTBEAT_SCRIPT, _CHECKPOINT_SCRIPT, _STEP_SCRIPT *)
(* and _FAIL_SCRIPT, and that _COMMIT_SCRIPT makes of a run not yet        *)
(* committed: generation g holds the lease of a running run.               *)
(***************************************************************************)
Owns(L, g) == L.state = "running" /\ L.lease = g /\ g # 0

Ended(L, outcome) == [L EXCEPT !.state = outcome, !.lease = 0]

(***************************************************************************)
(* _COMMIT_SCRIPT, _FAIL_SCRIPT, _CANCEL_SCRIPT and _DELETE_SCRIPT.        *)
(***************************************************************************)
Committed(L) == Ended(L, "completed")

Failed(L, error) == [Ended(L, "failed") EXCEPT !.error = error]

\* Mutant: cancellation overrides an outcome already recorded.
CancelledAnyway(L) == IF L.state = "deleted" THEN L ELSE Ended(L, "cancelled")

Cancelled(L) == IF L.state \in Terminal THEN L ELSE Ended(L, "cancelled")

Deleted(L) == IF L.state = "deleted" THEN L ELSE Ended(L, "deleted")

(***************************************************************************)
(* _STEP_SCRIPT, begin and complete.  An operation seen before is either   *)
(* replayed from its receipt or ambiguous.                                 *)
(***************************************************************************)
\* Mutant: an intent without a receipt is dispatched again.
BeginAgain(L, o) ==
  IF L.ops[o] = "receipt" THEN "replay" ELSE "dispatch"

Begin(L, o) ==
  CASE L.ops[o] = "none"    -> "dispatch"
    [] L.ops[o] = "intent"  -> "unknown"
    [] L.ops[o] = "receipt" -> "replay"

Intended(L, o) == [L EXCEPT !.ops[o] = "intent"]

Received(L, o) == [L EXCEPT !.ops[o] = "receipt"]

(***************************************************************************)
(* has_pending_dispatch.                                                   *)
(***************************************************************************)
\* Mutant: pending intents are never reported.
NothingPending(L) == FALSE

HasPendingDispatch(L) == \E o \in Ops : L.ops[o] = "intent"

(***************************************************************************)
(* reclaimable: admitted or running work whose lease is absent.            *)
(***************************************************************************)
Reclaimable(L) == L.state \in {"admitted", "running"} /\ L.lease = 0

(***************************************************************************)
(* _NOTIFICATION_CLAIM_SCRIPT.  The body is fixed by the first claim.      *)
(***************************************************************************)
NoteReady(L) ==
  /\ L.state \in Outcomes
  /\ L.note.state \notin NoteFinal
  /\ L.note.due

NoteExhausted(L) == NoteReady(L) /\ L.note.attempts >= MaxNoteTries

\* Mutant: an attempt is not counted.
NoteClaimedUncounted(L) ==
  IF L.state = "deleted" THEN [L EXCEPT !.listed = FALSE]
  ELSE [L EXCEPT !.note = [@ EXCEPT !.state = "sending", !.owner = 1, !.due = FALSE,
                           !.event = IF @ = "none" THEN L.state ELSE @]]

NoteClaimed(L) ==
  IF L.state = "deleted"
  THEN [L EXCEPT !.listed = FALSE]
  ELSE IF NoteExhausted(L)
  THEN [L EXCEPT !.note = [@ EXCEPT !.state = "unconfirmed", !.owner = 0],
                 !.listed = FALSE]
  ELSE [L EXCEPT !.note =
         [state    |-> "sending",
          event    |-> IF @.event = "none" THEN L.state ELSE @.event,
          attempts |-> @.attempts + 1,
          owner    |-> @.attempts + 1,
          due      |-> FALSE]]

(***************************************************************************)
(* _NOTIFICATION_FINISH_SCRIPT.                                            *)
(***************************************************************************)
\* Mutant: a callback to be retried leaves the set of callbacks to send.
NoteFinishedUnlisted(L, owner, outcome) ==
  IF L.state = "deleted" \/ L.note.owner # owner \/ L.note.state # "sending"
  THEN [L EXCEPT !.listed = FALSE]
  ELSE [L EXCEPT !.note.state = IF outcome = "retry" THEN "pending" ELSE outcome,
                 !.note.owner = 0, !.listed = FALSE]

NoteFinished(L, owner, outcome) ==
  IF L.state = "deleted"
  THEN [L EXCEPT !.listed = FALSE]
  ELSE IF L.note.owner # owner \/ L.note.state # "sending"
  THEN L
  ELSE IF outcome = "retry" /\ L.note.attempts < MaxNoteTries
  THEN [L EXCEPT !.note = [@ EXCEPT !.state = "pending", !.owner = 0, !.due = FALSE]]
  ELSE [L EXCEPT !.note = [@ EXCEPT !.state = IF outcome = "retry" THEN "unconfirmed"
                                              ELSE outcome,
                                    !.owner = 0, !.due = TRUE],
                 !.listed = FALSE]
=============================================================================
