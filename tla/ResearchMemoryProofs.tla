------------------------ MODULE ResearchMemoryProofs ------------------------
(***************************************************************************)
(* Proofs about ResearchMemory, for any set of memory ids and any number   *)
(* of restarts.                                                            *)
(*                                                                         *)
(* Neither safety property is inductive.  A sweep deletes by a listing and *)
(* a lookup that are both old when it acts, verify compares two listings   *)
(* taken at different times, and a migration writes what it read before.   *)
(* The invariant says what these copies still mean: an id is only ever     *)
(* written to Valkey once, so an artifact found missing stays missing, and *)
(* while verify runs nothing is being stored.                              *)
(***************************************************************************)
EXTENDS ResearchMemory, TLAPS

\* Only the id of a store that began is found in any of the stores, in the
\* sweep's lists or among the rows a migration has read.
Begun ==
    \A i \in Ids :
       st[i] = "none" => i \notin data \cup qd \cup pg \cup sweep.todo \cup sweep.doomed

\* What a sweep has found without an artifact has none.
DoomedGone == sweep.doomed \cap data = {}

\* A row that nobody asked to delete, of an artifact that is still there.
RowDue(i) == i \in data /\ del[i] = "none"

\* While verify runs nothing is stored, and it has listed every live point;
\* a running restore writes points whose rows are still there.
CopyCurrent ==
    /\ copy.kind = "verify" =>
          /\ Mirrors /\ \A i \in Ids : ~Storing(i)
          /\ qd \cap data \subseteq copy.rows
    /\ copy.kind = "restore" => \A i \in copy.rows : RowDue(i) => i \in pg
    /\ \A i \in copy.rows : st[i] # "none"

\* After parity every store in flight has mirrored its row before its point.
MirrorKept ==
    verified =>
       /\ mode # "qdrant"
       /\ \A i \in Ids : (i \in qd \/ st[i] = "qd") /\ RowDue(i) => i \in pg

\* In the pgvector mode a row appears only with the store that ends, and a
\* delete is of a memory whose store has ended: between the row and the
\* artifact nothing brings the row back.
DeleteOrdered ==
    /\ PgOnly => copy.kind # "backfill"
    /\ PgOnly => \A i \in Ids : Storing(i) => i \notin pg /\ del[i] \notin {"pg", "data"}
    /\ \A i \in Ids : del[i] \in {"pg", "data"} => st[i] # "none"
    /\ \A i \in Ids : del[i] = "data" => PgOnly /\ i \notin pg

IInv ==
    /\ AcknowledgedIndexed /\ Begun /\ DoomedGone
    /\ CopyCurrent /\ MirrorKept /\ DeleteOrdered

\* The sweep's record.
Sweeps == [busy : BOOLEAN, todo : SUBSET Ids, doomed : SUBSET Ids]
LEMMA SweepType ==
    /\ Idle \in Sweeps
    /\ \A w \in Sweeps, S, D \in SUBSET Ids :
          /\ [w EXCEPT !.todo = @ \ S, !.doomed = D] \in Sweeps
          /\ [w EXCEPT !.doomed = @ \ S] \in Sweeps
  <1>1. Idle \in Sweeps
    BY DEF Idle, Sweeps
  <1>2. ASSUME NEW w \in Sweeps, NEW S \in SUBSET Ids, NEW D \in SUBSET Ids
        PROVE  [w EXCEPT !.todo = S, !.doomed = D] \in Sweeps /\ [w EXCEPT !.doomed = D] \in Sweeps
    BY Zenon DEF Sweeps
  <1>3. \A w \in Sweeps, S \in SUBSET Ids :
           w.todo \ S \in SUBSET Ids /\ w.doomed \ S \in SUBSET Ids
    BY DEF Sweeps
  <1> QED
    BY Zenon, <1>1, <1>2, <1>3

-----------------------------------------------------------------------------
(* store() *)

\* The artifact of a new id: no sweep, listing or index knows it, and verify
\* is not running.
LEMMA StoreStep ==
    ASSUME IInv, NEW i \in Ids, Store(i)
    PROVE  IInv'
  <1> USE DEF IInv, AcknowledgedIndexed, TypeOK
  <1>1. TypeOK'
    BY DEF Store, Modes, StoreEnds
  <1>2. \A j \in Ids : st'[j] = "indexed" /\ j \in data' /\ del'[j] = "none" => j \in pg'
    BY DEF Store, Begun, DoomedGone
  <1>3. Begun'
    BY DEF Store, Begun
  <1>4. DoomedGone'
    BY DEF Store, Begun, DoomedGone
  <1>5. CopyCurrent'
    BY DEF Store, Begun, DoomedGone, CopyCurrent, RowDue, Storing, Mirrors
  <1>6. MirrorKept'
    BY DEF Store, Begun, DoomedGone, CopyCurrent, MirrorKept, RowDue
  <1>7. DeleteOrdered'
    BY DEF Store, PgOnly, Storing, Begun, DeleteOrdered
  <1> QED
    BY <1>1, <1>2, <1>3, <1>4, <1>5, <1>6, <1>7

\* A store goes on to its first index; with parity verified that is the row.
LEMMA EmbedStep ==
    ASSUME IInv, NEW i \in Ids, Embed(i)
    PROVE  IInv'
  <1> USE DEF IInv, AcknowledgedIndexed, TypeOK
  <1>1. TypeOK'
    BY DEF Embed, GiveUp, PgOnly, Modes, StoreEnds
  <1>2. \A j \in Ids : st'[j] = "indexed" /\ j \in data' /\ del'[j] = "none" => j \in pg'
    BY DEF Embed, GiveUp, PgOnly, Begun, DoomedGone
  <1>3. Begun'
    BY DEF Embed, GiveUp, PgOnly, Begun
  <1>4. DoomedGone'
    BY DEF Embed, GiveUp, PgOnly, Begun, DoomedGone
  <1>5. CopyCurrent'
    BY DEF Embed, GiveUp, PgOnly, Begun, DoomedGone, CopyCurrent, RowDue, Storing, Mirrors
  <1>6. MirrorKept'
    BY DEF Embed, GiveUp, PgOnly, Begun, DoomedGone, CopyCurrent, MirrorKept, RowDue
  <1>7. DeleteOrdered'
    BY DEF Embed, GiveUp, PgOnly, Storing, Begun, DeleteOrdered
  <1> QED
    BY <1>1, <1>2, <1>3, <1>4, <1>5, <1>6, <1>7

\* The row is there before the store is acknowledged or goes on to the point,
\* or the mirror is no longer verified.
LEMMA UpsertRowStep ==
    ASSUME IInv, NEW i \in Ids, UpsertRow(i)
    PROVE  IInv'
  <1> USE DEF IInv, AcknowledgedIndexed, TypeOK
  <1>1. TypeOK'
    BY Zenon DEF UpsertRow, GiveUp, PgOnly, Modes, StoreEnds
  <1>2. \A j \in Ids : st'[j] = "indexed" /\ j \in data' /\ del'[j] = "none" => j \in pg'
    BY DEF UpsertRow, GiveUp, PgOnly, Begun, DoomedGone
  <1>3. Begun'
    BY DEF UpsertRow, GiveUp, PgOnly, Begun
  <1>4. DoomedGone'
    BY DEF UpsertRow, GiveUp, PgOnly, Begun, DoomedGone
  <1>5. CopyCurrent'
    BY DEF UpsertRow, GiveUp, PgOnly, Begun, DoomedGone, CopyCurrent, RowDue, Storing,
           Mirrors
  <1>6. MirrorKept'
    BY Zenon DEF UpsertRow, GiveUp, PgOnly, Begun, DoomedGone, CopyCurrent, MirrorKept, RowDue
  <1>7. DeleteOrdered'
    BY DEF UpsertRow, GiveUp, PgOnly, Storing, Begun, DeleteOrdered
  <1> QED
    BY <1>1, <1>2, <1>3, <1>4, <1>5, <1>6, <1>7

\* A point is written only where its row was.
LEMMA PutPointStep ==
    ASSUME IInv, NEW i \in Ids, PutPoint(i)
    PROVE  IInv'
  <1> USE DEF IInv, AcknowledgedIndexed, TypeOK
  <1>1. TypeOK'
    BY DEF PutPoint, GiveUp, PgOnly, Modes, StoreEnds
  <1>2. \A j \in Ids : st'[j] = "indexed" /\ j \in data' /\ del'[j] = "none" => j \in pg'
    BY DEF PutPoint, GiveUp, PgOnly, Begun, DoomedGone
  <1>3. Begun'
    BY DEF PutPoint, GiveUp, PgOnly, Begun
  <1>4. DoomedGone'
    BY DEF PutPoint, GiveUp, PgOnly, Begun, DoomedGone
  <1>5. CopyCurrent'
    BY DEF PutPoint, GiveUp, PgOnly, Begun, DoomedGone, CopyCurrent, RowDue, Storing,
           Mirrors
  <1>6. MirrorKept'
    BY DEF PutPoint, GiveUp, PgOnly, Begun, DoomedGone, CopyCurrent, MirrorKept, RowDue
  <1>7. DeleteOrdered'
    BY DEF PutPoint, GiveUp, PgOnly, Storing, Begun, DeleteOrdered
  <1> QED
    BY <1>1, <1>2, <1>3, <1>4, <1>5, <1>6, <1>7

-----------------------------------------------------------------------------
(* delete() *)

\* From here on the row is not due.
LEMMA DeleteStep ==
    ASSUME IInv, NEW i \in Ids, Delete(i)
    PROVE  IInv'
  <1> USE DEF IInv, AcknowledgedIndexed, TypeOK
  <1>1. TypeOK'
    BY DEF Delete, PgOnly, Modes, StoreEnds
  <1>2. \A j \in Ids : st'[j] = "indexed" /\ j \in data' /\ del'[j] = "none" => j \in pg'
    BY DEF Delete, PgOnly, Begun, DoomedGone
  <1>3. Begun'
    BY DEF Delete, PgOnly, Begun
  <1>4. DoomedGone'
    BY DEF Delete, PgOnly, Begun, DoomedGone
  <1>5. CopyCurrent'
    BY DEF Delete, PgOnly, Begun, DoomedGone, CopyCurrent, RowDue, Storing, Mirrors
  <1>6. MirrorKept'
    BY DEF Delete, PgOnly, Begun, DoomedGone, CopyCurrent, MirrorKept, RowDue
  <1>7. DeleteOrdered'
    BY DEF Delete, Searchable, Authority, PgOnly, Storing, Begun, DeleteOrdered
  <1> QED
    BY <1>1, <1>2, <1>3, <1>4, <1>5, <1>6, <1>7

\* The row goes after it was asked for.
LEMMA DeleteRowStep ==
    ASSUME IInv, NEW i \in Ids, DeleteRow(i)
    PROVE  IInv'
  <1> USE DEF IInv, AcknowledgedIndexed, TypeOK
  <1>1. TypeOK'
    BY DEF DeleteRow, PgOnly, Modes, StoreEnds
  <1>2. \A j \in Ids : st'[j] = "indexed" /\ j \in data' /\ del'[j] = "none" => j \in pg'
    BY DEF DeleteRow, PgOnly, Begun, DoomedGone
  <1>3. Begun'
    BY DEF DeleteRow, PgOnly, Begun
  <1>4. DoomedGone'
    BY DEF DeleteRow, PgOnly, Begun, DoomedGone
  <1>5. CopyCurrent'
    BY DEF DeleteRow, PgOnly, Begun, DoomedGone, CopyCurrent, RowDue, Storing, Mirrors
  <1>6. MirrorKept'
    BY DEF DeleteRow, PgOnly, Begun, DoomedGone, CopyCurrent, MirrorKept, RowDue
  <1>7. DeleteOrdered'
    BY DEF DeleteRow, PgOnly, Storing, Begun, DeleteOrdered
  <1> QED
    BY <1>1, <1>2, <1>3, <1>4, <1>5, <1>6, <1>7

\* The artifact goes after its row.
LEMMA DeleteArtifactStep ==
    ASSUME IInv, NEW i \in Ids, DeleteArtifact(i)
    PROVE  IInv'
  <1> USE DEF IInv, AcknowledgedIndexed, TypeOK
  <1>1. TypeOK'
    BY DEF DeleteArtifact, Modes, StoreEnds
  <1>2. \A j \in Ids : st'[j] = "indexed" /\ j \in data' /\ del'[j] = "none" => j \in pg'
    BY DEF DeleteArtifact, Begun, DoomedGone
  <1>3. Begun'
    BY DEF DeleteArtifact, Begun
  <1>4. DoomedGone'
    BY DEF DeleteArtifact, Begun, DoomedGone
  <1>5. CopyCurrent'
    BY DEF DeleteArtifact, Begun, DoomedGone, CopyCurrent, RowDue, Storing, Mirrors
  <1>6. MirrorKept'
    BY DEF DeleteArtifact, Begun, DoomedGone, CopyCurrent, MirrorKept, RowDue
  <1>7. DeleteOrdered'
    BY DEF DeleteArtifact, PgOnly, Storing, Begun, DeleteOrdered
  <1> QED
    BY <1>1, <1>2, <1>3, <1>4, <1>5, <1>6, <1>7

\* Points are only removed.
LEMMA DeletePointStep ==
    ASSUME IInv, NEW i \in Ids, DeletePoint(i)
    PROVE  IInv'
  <1> USE DEF IInv, AcknowledgedIndexed, TypeOK
  <1>1. TypeOK'
    BY DEF DeletePoint, Modes, StoreEnds
  <1>2. \A j \in Ids : st'[j] = "indexed" /\ j \in data' /\ del'[j] = "none" => j \in pg'
    BY DEF DeletePoint, Begun, DoomedGone
  <1>3. Begun'
    BY DEF DeletePoint, Begun
  <1>4. DoomedGone'
    BY DEF DeletePoint, Begun, DoomedGone
  <1>5. CopyCurrent'
    BY DEF DeletePoint, Begun, DoomedGone, CopyCurrent, RowDue, Storing, Mirrors
  <1>6. MirrorKept'
    BY DEF DeletePoint, Begun, DoomedGone, CopyCurrent, MirrorKept, RowDue
  <1>7. DeleteOrdered'
    BY DEF DeletePoint, PgOnly, Storing, Begun, DeleteOrdered
  <1> QED
    BY <1>1, <1>2, <1>3, <1>4, <1>5, <1>6, <1>7

-----------------------------------------------------------------------------
(* sweep() *)

\* Every listed vector is of a store that began.
LEMMA SweepListStep ==
    ASSUME IInv, SweepList
    PROVE  IInv'
  <1> USE DEF IInv, AcknowledgedIndexed, TypeOK
  <1>1. TypeOK'
    BY DEF SweepList, Authority, Modes, StoreEnds
  <1>2. \A j \in Ids : st'[j] = "indexed" /\ j \in data' /\ del'[j] = "none" => j \in pg'
    BY DEF SweepList, Authority, Begun, DoomedGone
  <1>3. Begun'
    BY DEF SweepList, Authority, Begun
  <1>4. DoomedGone'
    BY DEF SweepList, Authority, Begun, DoomedGone
  <1>5. CopyCurrent'
    BY DEF SweepList, Authority, Begun, DoomedGone, CopyCurrent, RowDue, Storing, Mirrors
  <1>6. MirrorKept'
    BY DEF SweepList, Authority, Begun, DoomedGone, CopyCurrent, MirrorKept, RowDue
  <1>7. DeleteOrdered'
    BY DEF SweepList, Authority, PgOnly, Storing, Begun, DeleteOrdered
  <1> QED
    BY <1>1, <1>2, <1>3, <1>4, <1>5, <1>6, <1>7

\* The doomed ids have no artifact now.
LEMMA SweepCheckStep ==
    ASSUME IInv, SweepCheck
    PROVE  IInv'
  <1> USE DEF IInv, AcknowledgedIndexed, TypeOK
  <1>1. TypeOK'
    <2>1. PICK S \in SUBSET Ids :
             sweep' = [sweep EXCEPT !.todo = @ \ S, !.doomed = S \ data]
      <3>1. sweep.todo \in SUBSET Ids /\ \A i \in sweep.todo : {i} \in SUBSET Ids
        OBVIOUS
      <3> QED
        BY <3>1, ZenonT(30) DEF SweepCheck
    <2>2. UNCHANGED <<mode, data, qd, pg, st, del, copy, verified, restarts>>
      BY DEF SweepCheck
    <2>3. S \ data \in SUBSET Ids /\ sweep \in Sweeps
      BY DEF Sweeps
    <2>4. sweep' \in Sweeps
      BY Zenon, <2>1, <2>3, SweepType
    <2> QED
      BY <2>2, <2>4 DEF Sweeps
  <1>2. \A j \in Ids : st'[j] = "indexed" /\ j \in data' /\ del'[j] = "none" => j \in pg'
    BY DEF SweepCheck, PgOnly, Begun, DoomedGone
  <1>3. Begun'
    BY DEF SweepCheck, PgOnly, Begun
  <1>4. DoomedGone'
    BY DEF SweepCheck, PgOnly, Begun, DoomedGone
  <1>5. CopyCurrent'
    BY DEF SweepCheck, PgOnly, Begun, DoomedGone, CopyCurrent, RowDue, Storing, Mirrors
  <1>6. MirrorKept'
    BY DEF SweepCheck, PgOnly, Begun, DoomedGone, CopyCurrent, MirrorKept, RowDue
  <1>7. DeleteOrdered'
    BY DEF SweepCheck, PgOnly, Storing, Begun, DeleteOrdered
  <1> QED
    BY <1>1, <1>2, <1>3, <1>4, <1>5, <1>6, <1>7

\* A doomed id had no artifact when it was looked up, and never gets one
\* again: no row that is due is deleted.
LEMMA SweepDeleteStep ==
    ASSUME IInv, NEW i \in Ids, SweepDelete(i) \/ SweepDeleteFails(i)
    PROVE  IInv'
  <1> USE DEF IInv, AcknowledgedIndexed, TypeOK
  <1>1. TypeOK'
    <2>1. sweep' = Idle \/ sweep' = [sweep EXCEPT !.doomed = @ \ {i}]
      BY DEF SweepDelete, SweepDeleteFails
    <2>2. sweep' \in Sweeps
      <3>1. {i} \in SUBSET Ids /\ sweep \in Sweeps
        BY DEF Sweeps
      <3>2. [sweep EXCEPT !.doomed = @ \ {i}] \in Sweeps /\ Idle \in Sweeps
        BY <3>1, SweepType, Zenon
      <3> QED
        BY <2>1, <3>2, Zenon
    <2>3. pg' \subseteq Ids /\ qd' \subseteq Ids
      BY DEF SweepDelete, SweepDeleteFails
    <2>4. UNCHANGED <<mode, data, st, del, copy, verified, restarts>>
      BY DEF SweepDelete, SweepDeleteFails
    <2> QED
      BY <2>2, <2>3, <2>4 DEF Sweeps
  <1>2. \A j \in Ids : st'[j] = "indexed" /\ j \in data' /\ del'[j] = "none" => j \in pg'
    BY DEF SweepDelete, SweepDeleteFails, PgOnly, Idle, Begun, DoomedGone
  <1>3. Begun'
    BY DEF SweepDelete, SweepDeleteFails, PgOnly, Idle, Begun
  <1>4. DoomedGone'
    BY DEF SweepDelete, SweepDeleteFails, PgOnly, Idle, Begun, DoomedGone
  <1>5. CopyCurrent'
    BY DEF SweepDelete, SweepDeleteFails, PgOnly, Idle, Begun, DoomedGone, CopyCurrent,
           RowDue, Storing, Mirrors
  <1>6. MirrorKept'
    BY Zenon DEF SweepDelete, SweepDeleteFails, PgOnly, Idle, Begun, DoomedGone, CopyCurrent,
           MirrorKept, RowDue
  <1>7. DeleteOrdered'
    BY DEF SweepDelete, SweepDeleteFails, Idle, PgOnly, Storing, Begun, DeleteOrdered
  <1> QED
    BY <1>1, <1>2, <1>3, <1>4, <1>5, <1>6, <1>7

\* delete_expired takes rows without an artifact.
LEMMA SweepEndStep ==
    ASSUME IInv, SweepEnd
    PROVE  IInv'
  <1> USE DEF IInv, AcknowledgedIndexed, TypeOK
  <1>1. TypeOK'
    BY DEF SweepEnd, PgOnly, Idle, Modes, StoreEnds
  <1>2. \A j \in Ids : st'[j] = "indexed" /\ j \in data' /\ del'[j] = "none" => j \in pg'
    BY DEF SweepEnd, PgOnly, Idle, Begun, DoomedGone
  <1>3. Begun'
    BY DEF SweepEnd, PgOnly, Idle, Begun
  <1>4. DoomedGone'
    BY DEF SweepEnd, PgOnly, Idle, Begun, DoomedGone
  <1>5. CopyCurrent'
    BY DEF SweepEnd, PgOnly, Idle, Begun, DoomedGone, CopyCurrent, RowDue, Storing,
           Mirrors
  <1>6. MirrorKept'
    BY DEF SweepEnd, PgOnly, Idle, Begun, DoomedGone, CopyCurrent, MirrorKept, RowDue
  <1>7. DeleteOrdered'
    BY DEF SweepEnd, Idle, PgOnly, Storing, Begun, DeleteOrdered
  <1> QED
    BY <1>1, <1>2, <1>3, <1>4, <1>5, <1>6, <1>7

-----------------------------------------------------------------------------
(* The migration command *)

\* The rows a restore reads are there.
LEMMA CopyReadStep ==
    ASSUME IInv, CopyRead
    PROVE  IInv'
  <1> USE DEF IInv, AcknowledgedIndexed, TypeOK
  <1>1. TypeOK'
    BY DEF CopyRead, PgOnly, LiveRows, Modes, StoreEnds
  <1>2. \A j \in Ids : st'[j] = "indexed" /\ j \in data' /\ del'[j] = "none" => j \in pg'
    BY DEF CopyRead, PgOnly, LiveRows, Begun, DoomedGone
  <1>3. Begun'
    BY DEF CopyRead, PgOnly, LiveRows, Begun
  <1>4. DoomedGone'
    BY DEF CopyRead, PgOnly, LiveRows, Begun, DoomedGone
  <1>5. CopyCurrent'
    BY DEF CopyRead, PgOnly, LiveRows, Begun, DoomedGone, CopyCurrent, RowDue, Storing,
           Mirrors
  <1>6. MirrorKept'
    BY DEF CopyRead, PgOnly, LiveRows, Begun, DoomedGone, CopyCurrent, MirrorKept, RowDue
  <1>7. DeleteOrdered'
    BY DEF CopyRead, LiveRows, PgOnly, Storing, Begun, DeleteOrdered
  <1> QED
    BY <1>1, <1>2, <1>3, <1>4, <1>5, <1>6, <1>7

\* A restore writes a point only while its row is there or is not due any
\* more.
LEMMA CopyWriteStep ==
    ASSUME IInv, NEW i \in Ids, CopyWrite(i)
    PROVE  IInv'
  <1> USE DEF IInv, AcknowledgedIndexed, TypeOK
  <1>1. TypeOK'
    BY DEF CopyWrite, Modes, StoreEnds
  <1>2. \A j \in Ids : st'[j] = "indexed" /\ j \in data' /\ del'[j] = "none" => j \in pg'
    BY DEF CopyWrite, Begun, DoomedGone
  <1>3. Begun'
    BY DEF CopyWrite, Begun, CopyCurrent
  <1>4. DoomedGone'
    BY DEF CopyWrite, Begun, DoomedGone
  <1>5. CopyCurrent'
    BY DEF CopyWrite, Begun, DoomedGone, CopyCurrent, RowDue, Storing, Mirrors
  <1>6. MirrorKept'
    BY DEF CopyWrite, Begun, DoomedGone, CopyCurrent, MirrorKept, RowDue
  <1>7. DeleteOrdered'
    BY DEF CopyWrite, PgOnly, Storing, Begun, DeleteOrdered
  <1> QED
    BY <1>1, <1>2, <1>3, <1>4, <1>5, <1>6, <1>7

LEMMA CopyEndStep ==
    ASSUME IInv, CopyEnd
    PROVE  IInv'
  <1> USE DEF IInv, AcknowledgedIndexed, TypeOK
  <1>1. TypeOK'
    BY DEF CopyEnd, NoCopy, Modes, StoreEnds
  <1>2. \A j \in Ids : st'[j] = "indexed" /\ j \in data' /\ del'[j] = "none" => j \in pg'
    BY DEF CopyEnd, NoCopy, Begun, DoomedGone
  <1>3. Begun'
    BY DEF CopyEnd, NoCopy, Begun
  <1>4. DoomedGone'
    BY DEF CopyEnd, NoCopy, Begun, DoomedGone
  <1>5. CopyCurrent'
    BY DEF CopyEnd, NoCopy, Begun, DoomedGone, CopyCurrent, RowDue, Storing, Mirrors
  <1>6. MirrorKept'
    BY DEF CopyEnd, NoCopy, Begun, DoomedGone, CopyCurrent, MirrorKept, RowDue
  <1>7. DeleteOrdered'
    BY DEF CopyEnd, NoCopy, PgOnly, Storing, Begun, DeleteOrdered
  <1> QED
    BY <1>1, <1>2, <1>3, <1>4, <1>5, <1>6, <1>7

\* Every live point is listed, and no store is in flight.
LEMMA VerifyReadStep ==
    ASSUME IInv, VerifyRead
    PROVE  IInv'
  <1> USE DEF IInv, AcknowledgedIndexed, TypeOK
  <1>1. TypeOK'
    BY DEF VerifyRead, LiveRows, Modes, StoreEnds
  <1>2. \A j \in Ids : st'[j] = "indexed" /\ j \in data' /\ del'[j] = "none" => j \in pg'
    BY DEF VerifyRead, LiveRows, Begun, DoomedGone
  <1>3. Begun'
    BY DEF VerifyRead, LiveRows, Begun
  <1>4. DoomedGone'
    BY DEF VerifyRead, LiveRows, Begun, DoomedGone
  <1>5. CopyCurrent'
    BY DEF VerifyRead, LiveRows, Begun, DoomedGone, CopyCurrent, RowDue, Storing, Mirrors
  <1>6. MirrorKept'
    BY DEF VerifyRead, LiveRows, Begun, DoomedGone, CopyCurrent, MirrorKept, RowDue
  <1>7. DeleteOrdered'
    BY DEF VerifyRead, LiveRows, PgOnly, Storing, Begun, DeleteOrdered
  <1> QED
    BY <1>1, <1>2, <1>3, <1>4, <1>5, <1>6, <1>7

\* Since the points were listed none was added, so that parity with the rows
\* of now says that every live point has its row.
LEMMA VerifyEndStep ==
    ASSUME IInv, VerifyEnd
    PROVE  IInv'
  <1> USE DEF IInv, AcknowledgedIndexed, TypeOK
  <1>1. TypeOK'
    BY DEF VerifyEnd, Parity, LiveRows, NoCopy, Modes, StoreEnds
  <1>2. \A j \in Ids : st'[j] = "indexed" /\ j \in data' /\ del'[j] = "none" => j \in pg'
    BY DEF VerifyEnd, Parity, LiveRows, NoCopy, Begun, DoomedGone
  <1>3. Begun'
    BY DEF VerifyEnd, Parity, LiveRows, NoCopy, Begun
  <1>4. DoomedGone'
    BY DEF VerifyEnd, Parity, LiveRows, NoCopy, Begun, DoomedGone
  <1>5. CopyCurrent'
    BY DEF VerifyEnd, Parity, LiveRows, NoCopy, Begun, DoomedGone, CopyCurrent, RowDue,
           Storing, Mirrors
  <1>6. MirrorKept'
    BY DEF VerifyEnd, Parity, LiveRows, NoCopy, CopyCurrent, MirrorKept, RowDue,
           Storing, Mirrors
  <1>7. DeleteOrdered'
    BY DEF VerifyEnd, Parity, LiveRows, NoCopy, PgOnly, Storing, Begun, DeleteOrdered
  <1> QED
    BY <1>1, <1>2, <1>3, <1>4, <1>5, <1>6, <1>7

-----------------------------------------------------------------------------
(* Time, and the operator *)

LEMMA ExpireStep ==
    ASSUME IInv, NEW i \in Ids, Expire(i)
    PROVE  IInv'
  <1> USE DEF IInv, AcknowledgedIndexed, TypeOK
  <1>1. TypeOK'
    BY DEF Expire, Modes, StoreEnds
  <1>2. \A j \in Ids : st'[j] = "indexed" /\ j \in data' /\ del'[j] = "none" => j \in pg'
    BY DEF Expire, Begun, DoomedGone
  <1>3. Begun'
    BY DEF Expire, Begun
  <1>4. DoomedGone'
    BY DEF Expire, Begun, DoomedGone
  <1>5. CopyCurrent'
    BY DEF Expire, Begun, DoomedGone, CopyCurrent, RowDue, Storing, Mirrors
  <1>6. MirrorKept'
    BY DEF Expire, Begun, DoomedGone, CopyCurrent, MirrorKept, RowDue
  <1>7. DeleteOrdered'
    BY DEF Expire, PgOnly, Storing, Begun, DeleteOrdered
  <1> QED
    BY <1>1, <1>2, <1>3, <1>4, <1>5, <1>6, <1>7

\* Writes of a cut-off store may still be applied: a point only where the row
\* was mirrored before.
LEMMA RestartStep ==
    ASSUME IInv, NEW m \in Modes, Restart(m)
    PROVE  IInv'
  <1> USE DEF IInv, AcknowledgedIndexed, TypeOK
  <1>1. TypeOK'
    <2>1. restarts' \in 0..MaxRestarts
      BY MemoryConstants DEF Restart
    <2>2. /\ mode' \in Modes /\ pg' \subseteq Ids /\ qd' \subseteq Ids
          /\ verified' \in BOOLEAN /\ data' \subseteq Ids
      BY DEF Restart
    <2>3. /\ sweep' \in [busy : BOOLEAN, todo : SUBSET Ids, doomed : SUBSET Ids]
          /\ copy' \in [kind : {"none", "backfill", "restore", "verify"}, rows : SUBSET Ids]
      BY DEF Restart, Idle, NoCopy
    <2>4. /\ st' \in [Ids -> {"none", "embed", "pg", "qd"} \cup StoreEnds]
          /\ del' \in [Ids -> {"none", "pg", "data", "qd", "asked"}]
      BY DEF Restart, StoreEnds
    <2> QED
      BY <2>1, <2>2, <2>3, <2>4
  <1>2. \A j \in Ids : st'[j] = "indexed" /\ j \in data' /\ del'[j] = "none" => j \in pg'
    BY DEF Restart, Idle, NoCopy, Storing, Begun, DoomedGone
  <1>3. Begun'
    BY DEF Restart, Idle, NoCopy, Storing, Begun
  <1>4. DoomedGone'
    BY DEF Restart, Idle, NoCopy, Storing, Begun, DoomedGone
  <1>5. CopyCurrent'
    BY DEF Restart, Idle, NoCopy, Storing, Begun, DoomedGone, CopyCurrent, RowDue,
           Storing, Mirrors
  <1>6. MirrorKept'
    BY Zenon DEF Restart, Idle, NoCopy, Storing, Begun, DoomedGone, CopyCurrent, MirrorKept,
           RowDue
  <1>7. DeleteOrdered'
    BY DEF Restart, Idle, NoCopy, PgOnly, Storing, Begun, DeleteOrdered
  <1> QED
    BY <1>1, <1>2, <1>3, <1>4, <1>5, <1>6, <1>7

-----------------------------------------------------------------------------

LEMMA InitIInv == Init => IInv
  <1> SUFFICES ASSUME Init PROVE IInv
    OBVIOUS
  <1>1. TypeOK
    <2>1. sweep \in Sweeps /\ verified \in BOOLEAN
      BY SweepType, Zenon DEF Init
    <2>1a. restarts \in 0..MaxRestarts
      BY MemoryConstants DEF Init
    <2>2. copy \in [kind : {"none", "backfill", "restore", "verify"}, rows : SUBSET Ids]
      BY DEF Init, NoCopy
    <2>3. /\ mode \in Modes /\ data \subseteq Ids /\ qd \subseteq Ids /\ pg \subseteq Ids
          /\ st \in [Ids -> {"none", "embed", "pg", "qd"} \cup StoreEnds]
          /\ del \in [Ids -> {"none", "pg", "data", "qd", "asked"}]
      BY DEF Init
    <2> QED
      BY <2>1, <2>1a, <2>2, <2>3 DEF TypeOK, Sweeps
  <1> QED
    BY <1>1 DEF Init, IInv, AcknowledgedIndexed, Begun, DoomedGone, CopyCurrent, MirrorKept,
                DeleteOrdered, Storing, Idle, NoCopy

LEMMA NextIInv == IInv /\ [Next]_vars => IInv'
  <1> SUFFICES ASSUME IInv, [Next]_vars PROVE IInv'
    OBVIOUS
  <1>1. CASE UNCHANGED vars
    BY <1>1 DEF vars, IInv, AcknowledgedIndexed, TypeOK, Begun, DoomedGone, CopyCurrent,
                MirrorKept, DeleteOrdered, RowDue, Mirrors, PgOnly, Storing
  <1>2. CASE Next
    BY <1>2, StoreStep, EmbedStep, UpsertRowStep, PutPointStep, DeleteStep, DeleteRowStep,
       DeleteArtifactStep, DeletePointStep, SweepListStep, SweepCheckStep, SweepDeleteStep, SweepEndStep,
       CopyReadStep, CopyWriteStep, CopyEndStep, VerifyReadStep, VerifyEndStep,
       ExpireStep, RestartStep
    DEF Next, SweepStep
  <1> QED
    BY <1>1, <1>2

LEMMA Invariance == Spec => []IInv
  BY InitIInv, NextIInv, PTL DEF Spec

\* A memory acknowledged by the pgvector mode keeps its row while its artifact
\* lives and nobody asks for its deletion, for any number of memories and
\* wherever a sweep, a migration or a restart comes between.
THEOREM MemoryAcknowledgedIndexed == Spec => []AcknowledgedIndexed
  <1>1. IInv => AcknowledgedIndexed
    BY DEF IInv
  <1> QED
    BY <1>1, Invariance, PTL

\* The cutover after verify loses no memory that a lookup in Qdrant can return.
THEOREM MemoryVerifiedCutover == Spec => []VerifiedCutover
  <1>1. IInv => VerifiedCutover
    BY DEF IInv, AcknowledgedIndexed, TypeOK, MirrorKept, VerifiedCutover, RowDue, LiveRows
  <1> QED
    BY <1>1, Invariance, PTL

\* An artifact leaves Valkey only by its TTL, with the store that failed to
\* index it, or for a delete, which in the pgvector mode has removed the row.
THEOREM MemoryArtifactsLeaveKnowingly == Spec => ArtifactsLeaveKnowingly
  <1> DEFINE Known(i) == \/ Expire(i)
                         \/ Storing(i) /\ st'[i] = "ended"
                         \/ ~PgOnly /\ del'[i] \in {"pg", "qd"}
                         \/ PgOnly /\ del[i] = "data" /\ i \notin pg
  <1>1. ASSUME IInv, Next, NEW i \in data \ data'
        PROVE  Known(i)
    <2>1. TypeOK /\ i \in Ids
      BY <1>1 DEF IInv, AcknowledgedIndexed, TypeOK
    <2>2. ASSUME NEW j \in Ids, Embed(j) \/ UpsertRow(j) \/ PutPoint(j) PROVE Known(i)
      BY <2>1, <2>2 DEF TypeOK, Embed, UpsertRow, PutPoint, GiveUp, Storing
    <2>3. ASSUME NEW j \in Ids, Delete(j) PROVE Known(i)
      BY <2>1, <2>3 DEF TypeOK, Delete
    <2>4. ASSUME NEW j \in Ids, DeleteArtifact(j) PROVE Known(i)
      BY <1>1, <2>1, <2>4 DEF IInv, DeleteOrdered, DeleteArtifact
    <2>5. ASSUME NEW j \in Ids, Expire(j) PROVE Known(i)
      <3>1. i = j
        BY <2>5 DEF Expire
      <3> QED
        BY <2>5, <3>1
    <2>6. ASSUME NEW j \in Ids, Store(j) PROVE FALSE
      BY <2>6 DEF Store
    <2>7. ASSUME data' = data PROVE FALSE
      BY <2>7
    <2> HIDE DEF Known
    <2> QED
      BY Zenon, <1>1, <2>2, <2>3, <2>4, <2>5, <2>6, <2>7
      DEF Next, SweepStep, DeleteRow, DeletePoint, SweepList, SweepCheck, SweepEnd, SweepDelete,
          SweepDeleteFails, CopyRead, CopyWrite, CopyEnd, VerifyRead, VerifyEnd, Restart
  <1>2. IInv /\ [Next]_vars => (\A i \in data \ data' : Known(i)) \/ UNCHANGED vars
    BY <1>1
  <1> QED
    BY <1>2, Invariance, PTL DEF Spec, ArtifactsLeaveKnowingly
=============================================================================
