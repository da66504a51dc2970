--------------------------- MODULE ResearchMemory ---------------------------
(***************************************************************************)
(* Research memory (agent-svc/agent/research_memory.py and the pgvector    *)
(* projection and migration command beside it).                            *)
(*                                                                         *)
(* A memory is two records in two stores: the artifact, a Valkey key with  *)
(* a TTL, and a vector, a Qdrant point or a PostgreSQL row or both, by the *)
(* mode the process was started in.  No transaction spans the stores.      *)
(* What a lookup can return is the intersection, so every operation is a   *)
(* sequence of awaits in which the two may disagree: store() writes the    *)
(* artifact first, delete() orders the stores by which index is            *)
(* authoritative, and sweep() removes the vectors whose artifact is gone.  *)
(* The migration command copies vectors between the indexes beside the     *)
(* running service, and the operator moves the service from one mode to    *)
(* another by restarting it.                                               *)
(*                                                                         *)
(* query() only reads: Searchable is what it can return.  A call to an     *)
(* index or to the embedder may fail, and a write that reports a failure   *)
(* may have been applied.  Calls to Valkey succeed.                        *)
(***************************************************************************)
EXTENDS Naturals, FiniteSets

CONSTANTS Ids,          \* memory ids (uuid4, never reused)
          MaxRestarts   \* bound: restarts of agent-svc, which end in-flight work

ASSUME MemoryConstants == MaxRestarts \in Nat

VARIABLES mode,      \* RESEARCH_MEMORY_VECTOR_MODE of the running process
          data,      \* ids whose memory:{id}:data key exists
          qd,        \* ids with a Qdrant point
          pg,        \* ids with a PostgreSQL row
          st,        \* st[i]: where the store of i is, or how it ended
          del,       \* del[i]: where the delete of i is, or how it ended
          sweep,     \* the sweep: ids listed and ids found without an artifact
          copy,      \* the migration command and the rows it has read
          verified,  \* verify reported parity and no mirror write failed since
          restarts

vars == <<mode, data, qd, pg, st, del, sweep, copy, verified, restarts>>

Modes == {"qdrant", "shadow_pgvector", "pgvector"}
PgOnly == mode = "pgvector"
Mirrors == mode = "shadow_pgvector"

\* "ok" and "indexed" returned the id (the latter with its row written); a
\* store that raised, or was cut off, is "ended".
StoreEnds == {"ok", "indexed", "ended"}
Storing(i) == st[i] \in {"embed", "pg", "qd"}
Idle == [busy |-> FALSE, todo |-> {}, doomed |-> {}]
NoCopy == [kind |-> "none", rows |-> {}]

\* The index that sweep() cleans and query() searches.
Authority == IF PgOnly THEN pg ELSE qd

\* What query() can return: a vector found in the index whose artifact is
\* still in Valkey and has not expired.
Searchable(i) == i \in Authority /\ i \in data

TypeOK ==
    /\ mode \in Modes
    /\ data \subseteq Ids
    /\ qd \subseteq Ids /\ pg \subseteq Ids
    /\ st \in [Ids -> {"none", "embed", "pg", "qd"} \cup StoreEnds]
    /\ del \in [Ids -> {"none", "pg", "data", "qd", "asked"}]
    /\ sweep \in [busy : BOOLEAN, todo : SUBSET Ids, doomed : SUBSET Ids]
    /\ copy \in [kind : {"none", "backfill", "restore", "verify"},
                 rows : SUBSET Ids]
    /\ verified \in BOOLEAN
    /\ restarts \in 0..MaxRestarts

Init ==
    /\ mode \in Modes
    /\ data = {} /\ qd = {} /\ pg = {}
    /\ st = [i \in Ids |-> "none"]
    /\ del = [i \in Ids |-> "none"]
    /\ sweep = Idle /\ copy = NoCopy
    /\ verified = FALSE /\ restarts = 0

-----------------------------------------------------------------------------
(* store() *)

\* The artifact is written before anything is awaited.  The runbook has the
\* operator pause writes while verify runs.
Store(i) ==
    /\ st[i] = "none"
    /\ copy.kind # "verify"
    /\ data' = data \cup {i}
    /\ st' = [st EXCEPT ![i] = "embed"]
    /\ UNCHANGED <<mode, qd, pg, del, sweep, copy, verified, restarts>>

\* After the vector write failed: the pgvector mode removes the artifact and
\* raises, the others keep it and return its id.
GiveUp(i) ==
    IF PgOnly
      THEN data' = data \ {i} /\ st' = [st EXCEPT ![i] = "ended"]
      ELSE UNCHANGED data /\ st' = [st EXCEPT ![i] = "ok"]

Embed(i) ==
    /\ st[i] = "embed"
    /\ \/ /\ st' = [st EXCEPT ![i] = IF mode = "qdrant" THEN "qd" ELSE "pg"]
          /\ UNCHANGED data
       \/ GiveUp(i)
    /\ UNCHANGED <<mode, qd, pg, del, sweep, copy, verified, restarts>>

\* upsert() in a thread.  A failure ends the store in the pgvector mode and
\* is only logged in the shadow mode.
UpsertRow(i) ==
    /\ st[i] = "pg"
    /\ \/ /\ pg' = pg \cup {i}
          /\ st' = [st EXCEPT ![i] = IF PgOnly THEN "indexed" ELSE "qd"]
          /\ UNCHANGED <<data, verified>>
       \/ /\ pg' \in {pg, pg \cup {i}}
          /\ verified' = FALSE
          /\ IF PgOnly THEN GiveUp(i)
                       ELSE st' = [st EXCEPT ![i] = "qd"] /\ UNCHANGED data
    /\ UNCHANGED <<mode, qd, del, sweep, copy, restarts>>

PutPoint(i) ==
    /\ st[i] = "qd"
    /\ \/ qd' = qd \cup {i} /\ st' = [st EXCEPT ![i] = "ok"] /\ UNCHANGED data
       \/ qd' \in {qd, qd \cup {i}} /\ GiveUp(i)
    /\ UNCHANGED <<mode, pg, del, sweep, copy, verified, restarts>>

-----------------------------------------------------------------------------
(* delete(): the id was returned by a store or by a lookup. *)

\* Mutant: every mode deletes the artifact before the vectors.
DeleteArtifactFirst(i) ==
    /\ st[i] \in {"ok", "indexed"} \/ Searchable(i)
    /\ del[i] \in {"none", "asked"}
    /\ data' = data \ {i}
    /\ del' = [del EXCEPT ![i] = IF mode = "qdrant" THEN "qd" ELSE "pg"]
    /\ UNCHANGED <<mode, qd, pg, st, sweep, copy, verified, restarts>>

Delete(i) ==
    /\ st[i] \in {"ok", "indexed"} \/ Searchable(i)
    /\ del[i] \in {"none", "asked"}
    /\ IF PgOnly
         THEN del' = [del EXCEPT ![i] = "pg"] /\ UNCHANGED data
         ELSE /\ data' = data \ {i}
              /\ del' = [del EXCEPT ![i] = IF Mirrors THEN "pg" ELSE "qd"]
    /\ UNCHANGED <<mode, qd, pg, st, sweep, copy, verified, restarts>>

\* delete() of the row, in a thread.  The pgvector mode goes on to the
\* artifact only once the row is gone, and its failure is the caller's.  The
\* shadow mode goes on to the point either way.
DeleteRow(i) ==
    /\ del[i] = "pg"
    /\ \/ /\ pg' = pg \ {i}
          /\ del' = [del EXCEPT ![i] = IF PgOnly THEN "data" ELSE "qd"]
       \/ /\ pg' \in {pg, pg \ {i}}
          /\ del' = [del EXCEPT ![i] = IF PgOnly THEN "asked" ELSE "qd"]
    /\ UNCHANGED <<mode, data, qd, st, sweep, copy, verified, restarts>>

\* The task resumes after the thread and deletes the artifact.
DeleteArtifact(i) ==
    /\ del[i] = "data"
    /\ data' = data \ {i}
    /\ del' = [del EXCEPT ![i] = "asked"]
    /\ UNCHANGED <<mode, qd, pg, st, sweep, copy, verified, restarts>>

DeletePoint(i) ==
    /\ del[i] = "qd"
    /\ qd' \in {qd, qd \ {i}}
    /\ del' = [del EXCEPT ![i] = "asked"]
    /\ UNCHANGED <<mode, data, pg, st, sweep, copy, verified, restarts>>

-----------------------------------------------------------------------------
(* sweep(), from run_research_memory_sweep_loop or the admin route. *)

\* Mutant: the sweep still lists Qdrant in the pgvector mode.
SweepListQdrant ==
    /\ ~sweep.busy
    /\ sweep' = [busy |-> TRUE, todo |-> qd, doomed |-> {}]
    /\ UNCHANGED <<mode, data, qd, pg, st, del, copy, verified, restarts>>

SweepList ==
    /\ ~sweep.busy
    /\ sweep' = [busy |-> TRUE, todo |-> Authority, doomed |-> {}]
    /\ UNCHANGED <<mode, data, qd, pg, st, del, copy, verified, restarts>>

\* Mutant: the listed vectors are deleted without looking for the artifact.
SweepCheckNothing ==
    /\ sweep.todo # {} /\ sweep.doomed = {}
    /\ sweep' = [sweep EXCEPT !.todo = {}, !.doomed = sweep.todo]
    /\ UNCHANGED <<mode, data, qd, pg, st, del, copy, verified, restarts>>

\* PostgreSQL ids are looked up one at a time, each before its delete; a
\* Qdrant page is looked up as a whole.
SweepCheck ==
    /\ sweep.todo # {} /\ sweep.doomed = {}
    /\ \E S \in IF PgOnly THEN {{i} : i \in sweep.todo} ELSE {sweep.todo} :
         sweep' = [sweep EXCEPT !.todo = @ \ S, !.doomed = S \ data]
    /\ UNCHANGED <<mode, data, qd, pg, st, del, copy, verified, restarts>>

SweepDelete(i) ==
    /\ i \in sweep.doomed
    /\ IF PgOnly THEN pg' = pg \ {i} /\ UNCHANGED qd
                 ELSE qd' = qd \ {i} /\ UNCHANGED pg
    /\ sweep' = [sweep EXCEPT !.doomed = @ \ {i}]
    /\ UNCHANGED <<mode, data, st, del, copy, verified, restarts>>

\* A failed delete ends a sweep of PostgreSQL and is passed over by one of
\* Qdrant.
SweepDeleteFails(i) ==
    /\ i \in sweep.doomed
    /\ sweep' = IF PgOnly THEN Idle ELSE [sweep EXCEPT !.doomed = @ \ {i}]
    /\ UNCHANGED <<mode, data, qd, pg, st, del, copy, verified, restarts>>

\* delete_expired() closes a sweep of PostgreSQL: of the rows whose artifact
\* is gone it takes those past their expires_at.
SweepEnd ==
    /\ sweep.busy /\ sweep.todo = {} /\ sweep.doomed = {}
    /\ sweep' = Idle
    /\ \E S \in IF PgOnly THEN SUBSET (pg \ data) ELSE {{}} : pg' = pg \ S
    /\ UNCHANGED <<mode, data, qd, st, del, copy, verified, restarts>>

-----------------------------------------------------------------------------
(* research_memory_migration: backfill, restore-qdrant and verify. *)

LiveRows(index) == index \cap data

\* As the runbook has it: backfill before the cutover, restore-qdrant after.
CopyRead ==
    /\ copy.kind = "none"
    /\ copy' = IF PgOnly THEN [kind |-> "restore", rows |-> LiveRows(pg)]
                         ELSE [kind |-> "backfill", rows |-> LiveRows(qd)]
    /\ UNCHANGED <<mode, data, qd, pg, st, del, sweep, verified, restarts>>

CopyWrite(i) ==
    /\ i \in copy.rows
    /\ \/ copy.kind = "backfill" /\ pg' = pg \cup {i} /\ UNCHANGED qd
       \/ copy.kind = "restore" /\ qd' = qd \cup {i} /\ UNCHANGED pg
    /\ copy' = [copy EXCEPT !.rows = @ \ {i}]
    /\ UNCHANGED <<mode, data, st, del, sweep, verified, restarts>>

\* The command ends when every row is written, or at the first error.
CopyEnd ==
    /\ copy.kind \in {"backfill", "restore"}
    /\ copy' = NoCopy
    /\ UNCHANGED <<mode, data, qd, pg, st, del, sweep, verified, restarts>>

VerifyRead ==
    /\ copy.kind = "none" /\ Mirrors
    /\ \A i \in Ids : ~Storing(i)
    /\ copy' = [kind |-> "verify", rows |-> LiveRows(qd)]
    /\ UNCHANGED <<mode, data, qd, pg, st, del, sweep, verified, restarts>>

\* Mutant: verify forgets the ids that are missing from PostgreSQL.
ParityNoExtra == LiveRows(pg) \subseteq copy.rows

\* parity: nothing missing and nothing extra.
Parity == copy.rows = LiveRows(pg)

VerifyEnd ==
    /\ copy.kind = "verify"
    /\ verified' = Parity
    /\ copy' = NoCopy
    /\ UNCHANGED <<mode, data, qd, pg, st, del, sweep, restarts>>

-----------------------------------------------------------------------------
(* Time, and the operator. *)

\* The key reaches its TTL, and its row its expires_at.
Expire(i) ==
    /\ i \in data
    /\ data' = data \ {i}
    /\ UNCHANGED <<mode, qd, pg, st, del, sweep, copy, verified, restarts>>

\* agent-svc is recreated, in the same mode or in another.  Work in flight
\* ends without an answer; a write of a vector may still be applied.
Restart(m) ==
    /\ restarts < MaxRestarts
    /\ restarts' = restarts + 1
    /\ mode' = m
    /\ pg' \in {pg, pg \cup {i \in Ids : st[i] = "pg"}}
    /\ qd' \in {qd, qd \cup {i \in Ids : st[i] = "qd"}}
    /\ st' = [i \in Ids |-> IF Storing(i) THEN "ended" ELSE st[i]]
    /\ del' = [i \in Ids |-> IF del[i] \in {"pg", "data", "qd"} THEN "asked" ELSE del[i]]
    /\ sweep' = Idle /\ copy' = NoCopy
    /\ verified' = (verified /\ m # "qdrant")
    /\ UNCHANGED data

SweepStep == SweepList \/ SweepCheck \/ SweepEnd

Next ==
    \/ \E i \in Ids : Store(i) \/ Embed(i) \/ UpsertRow(i) \/ PutPoint(i)
    \/ \E i \in Ids : Delete(i) \/ DeleteRow(i) \/ DeleteArtifact(i) \/ DeletePoint(i)
    \/ SweepStep
    \/ \E i \in Ids : SweepDelete(i) \/ SweepDeleteFails(i)
    \/ CopyRead \/ \E i \in Ids : CopyWrite(i)
    \/ CopyEnd \/ VerifyRead \/ VerifyEnd
    \/ \E i \in Ids : Expire(i)
    \/ \E m \in Modes : Restart(m)

\* The sweep loop never stops, and a delete that is tried again and again
\* succeeds in the end.
Fairness ==
    /\ WF_vars(SweepStep)
    /\ \A i \in Ids : SF_vars(SweepDelete(i))

Spec == Init /\ [][Next]_vars /\ Fairness

-----------------------------------------------------------------------------
\* A memory whose store was acknowledged by the pgvector mode keeps its row
\* while its artifact lives and nobody asks for its deletion: no sweep, at
\* whatever point of its listing the store arrives, takes it for an orphan.
AcknowledgedIndexed ==
    /\ TypeOK
    /\ \A i \in Ids :
          st[i] = "indexed" /\ i \in data /\ del[i] = "none" => i \in pg

\* Once verify has reported parity and as long as no mirror write fails,
\* every memory a lookup in Qdrant can return has its row in PostgreSQL, so
\* the cutover to the pgvector mode loses none.
VerifiedCutover ==
    verified => \A i \in LiveRows(qd) : del[i] = "none" => i \in pg

\* An artifact disappears only by its TTL, with the store that failed to
\* index it, or for a delete; and in the pgvector mode a delete takes it only
\* once its row is gone, so a delete that failed can be retried and a lookup
\* never finds a row without its artifact because of one.
ArtifactsLeaveKnowingly ==
    [][\A i \in data \ data' :
          \/ Expire(i)
          \/ Storing(i) /\ st'[i] = "ended"
          \/ ~PgOnly /\ del'[i] \in {"pg", "qd"}
          \/ PgOnly /\ del[i] = "data" /\ i \notin pg]_vars

\* Whatever stores, deletes, expiries, migrations and restarts leave behind,
\* the vectors without an artifact, which crowd the five results a lookup
\* asks for, are in the end all gone from the index lookups use.
OrphansSwept == <>[](Authority \subseteq data)
=============================================================================
