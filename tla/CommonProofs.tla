----------------------------- MODULE CommonProofs -----------------------------
(***************************************************************************)
(* Safety of the two guards of common/ that stand before the services'     *)
(* work: the admission controller, for any callers, weights, budget and    *)
(* queue capacity, and the circuit breaker, for any number of requests,    *)
(* any threshold and any set of outcomes.                                  *)
(***************************************************************************)
EXTENDS Admission, CircuitBreaker, FiniteSetTheorems, SequenceTheorems, NaturalsInduction, TLAPS

(***************************************************************************)
(* The weight of a set of callers.                                         *)
(***************************************************************************)
LEMMA UnitsFinite ==
    ASSUME NEW S \in SUBSET Callers
    PROVE  IsFiniteSet(Units(S)) /\ WeightOf(S) \in Nat
  <1> DEFINE T == {{c} \X (1 .. Weight[c]) : c \in S}
             f == [c \in S |-> {c} \X (1 .. Weight[c])]
  <1>1. IsFiniteSet(S)
    BY AdmissionAssumption, FS_Subset
  <1>2. f \in Surjection(S, T)
    BY DEF Surjection
  <1>3. IsFiniteSet(T)
    BY Zenon, <1>1, <1>2, FS_Surjection
  <1>4. ASSUME NEW t \in T PROVE IsFiniteSet(t)
    <2>1. PICK c \in S : t = {c} \X (1 .. Weight[c])
      OBVIOUS
    <2>2. Weight[c] \in Nat
      BY AdmissionAssumption
    <2>3. IsFiniteSet({c})
      BY Zenon, FS_Singleton
    <2>4. IsFiniteSet(1 .. Weight[c])
      BY <2>2, FS_Interval
    <2> QED
      BY Zenon, <2>1, <2>3, <2>4, FS_Product
  <1>5. IsFiniteSet(Units(S))
    BY <1>3, <1>4, FS_UNION DEF Units
  <1> QED
    BY <1>5, FS_CardinalityType DEF WeightOf

LEMMA WeightOfUnion ==
    ASSUME NEW S \in SUBSET Callers, NEW T \in SUBSET Callers, S \cap T = {}
    PROVE  WeightOf(S \cup T) = WeightOf(S) + WeightOf(T)
  <1>1. Units(S \cup T) = Units(S) \cup Units(T)
    BY Zenon DEF Units
  <1>2. Units(S) \cap Units(T) = {}
    <2> SUFFICES ASSUME NEW x \in Units(S), x \in Units(T) PROVE FALSE
      OBVIOUS
    <2>1. PICK c \in S : x \in {c} \X (1 .. Weight[c])
      BY DEF Units
    <2>2. PICK d \in T : x \in {d} \X (1 .. Weight[d])
      BY DEF Units
    <2> QED
      BY <2>1, <2>2
  <1>3. IsFiniteSet(Units(S)) /\ IsFiniteSet(Units(T))
    BY UnitsFinite
  <1>4. WeightOf(S) \in Nat /\ WeightOf(T) \in Nat
    BY UnitsFinite
  <1>5. Cardinality(Units(S) \cup Units(T))
            = Cardinality(Units(S)) + Cardinality(Units(T)) - Cardinality(Units(S) \cap Units(T))
    BY <1>3, FS_Union
  <1>6. Cardinality(Units(S) \cap Units(T)) = 0
    BY <1>2, FS_EmptySet
  <1>7. WeightOf(S \cup T) = Cardinality(Units(S) \cup Units(T))
    BY Zenon, <1>1 DEF WeightOf
  <1>8. WeightOf(S) = Cardinality(Units(S)) /\ WeightOf(T) = Cardinality(Units(T))
    BY DEF WeightOf
  <1> QED
    BY ONLY <1>4, <1>5, <1>6, <1>7, <1>8

LEMMA WeightOfOne == ASSUME NEW c \in Callers PROVE WeightOf({c}) = Weight[c]
  <1>1. Units({c}) = {c} \X (1 .. Weight[c])
    BY Zenon DEF Units
  <1>2. Weight[c] \in Nat
    BY AdmissionAssumption
  <1>3. IsFiniteSet({c}) /\ Cardinality({c}) = 1
    BY Zenon, FS_Singleton
  <1>4. IsFiniteSet(1 .. Weight[c]) /\ Cardinality(1 .. Weight[c]) = Weight[c]
    <2> DEFINE n == Weight[c]
    <2>1. 1 \in Int /\ n \in Int /\ n \in Nat
      BY <1>2
    <2> HIDE DEF n
    <2>2. /\ IsFiniteSet(1 .. n)
          /\ Cardinality(1 .. n) = IF 1 > n THEN 0 ELSE n - 1 + 1
      BY Zenon, <2>1, FS_Interval
    <2>3. Cardinality(1 .. n) = n
      BY ONLY <2>1, <2>2
    <2> QED
      BY Zenon, <2>2, <2>3 DEF n
  <1>5. Cardinality({c} \X (1 .. Weight[c])) = Cardinality({c}) * Cardinality(1 .. Weight[c])
    BY Zenon, <1>3, <1>4, FS_Product
  <1>6. WeightOf({c}) = 1 * Weight[c]
    BY Zenon, <1>1, <1>3, <1>4, <1>5 DEF WeightOf
  <1> QED
    BY <1>2, <1>6

LEMMA WeightOfNone == WeightOf({}) = 0
  <1>1. Units({}) = {}
    BY Zenon DEF Units
  <1> QED
    BY <1>1, FS_EmptySet DEF WeightOf

-----------------------------------------------------------------------------
(***************************************************************************)
(* Least and greatest elements of sets of numbers.                         *)
(***************************************************************************)
LEMMA Least ==
    ASSUME NEW T, T \subseteq Nat, T # {}
    PROVE  \E x \in T : \A y \in T : x <= y
  <1>1. PICK x \in T : \A y \in T : ~(<<y, x>> \in OpToRel(<, Nat))
    BY Zenon, WFMin, NatLessThanWellFounded
  <1>2. \A y \in T : y < x => <<y, x>> \in OpToRel(<, Nat)
    BY DEF OpToRel
  <1>3. \A y \in T : ~(y < x)
    BY Zenon, <1>1, <1>2
  <1> QED
    BY <1>3

LEMMA MinIn ==
    ASSUME NEW T, T \subseteq Nat, T # {}
    PROVE  Min(T) \in T
  BY Zenon, Least DEF Min

LEMMA MaxIn ==
    ASSUME NEW n \in Nat, NEW T, T \subseteq 0 .. n, T # {}
    PROVE  Max(T) \in T /\ \A y \in T : y <= Max(T)
  <1> DEFINE D == {d \in 0 .. n : n - d \in T}
  <1>1. D \subseteq Nat /\ D # {}
    <2>1. PICK x \in T : TRUE
      OBVIOUS
    <2>2. n - x \in 0 .. n /\ n - (n - x) = x
      OBVIOUS
    <2>3. n - x \in D
      BY <2>2
    <2>4. D \subseteq Nat
      OBVIOUS
    <2> QED
      BY Zenon, <2>3, <2>4
  <1>2. PICK d \in D : \A e \in D : d <= e
    BY Zenon, <1>1, Least
  <1>3. ASSUME NEW y \in T PROVE n - d >= y
    <2>1. n - y \in 0 .. n /\ n - (n - y) = y
      OBVIOUS
    <2>2. d <= n - y
      BY <1>2, <2>1
    <2> QED
      BY <2>2
  <1>4. \E x \in T : \A y \in T : x >= y
    BY <1>3
  <1>5. Max(T) \in T /\ \A y \in T : Max(T) >= y
    BY Zenon, <1>4 DEF Max
  <1> QED
    BY <1>5

-----------------------------------------------------------------------------
(***************************************************************************)
(* What _drain pops.                                                       *)
(***************************************************************************)
\* The waiters that are pending in the first places of the queue.
LEMMA PendingUpToType ==
    ASSUME TypeOK, NEW k \in 0 .. Len(queue)
    PROVE  /\ PendingUpTo(k) \subseteq Callers
           /\ \A c \in PendingUpTo(k) : Pending(c)
           /\ PendingWeight(k) \in Nat
  <1>1. \A i \in 1 .. k : queue[i] \in Callers
    BY DEF TypeOK
  <1>2. PendingUpTo(k) \subseteq Callers /\ \A c \in PendingUpTo(k) : Pending(c)
    BY Zenon, <1>1 DEF PendingUpTo
  <1> QED
    BY Zenon, <1>2, UnitsFinite DEF PendingWeight

LEMMA PendingUpToNone == PendingUpTo(0) = {} /\ PendingWeight(0) = 0
  <1>1. PendingUpTo(0) = {}
    BY DEF PendingUpTo
  <1> QED
    BY Zenon, <1>1, WeightOfNone DEF PendingWeight

\* A waiter that is done adds nothing; one that is pending adds its weight.
LEMMA PendingUpToDone ==
    ASSUME NEW k \in Nat, k > 0, ~Pending(queue[k])
    PROVE  PendingUpTo(k) = PendingUpTo(k - 1)
  <1>1. {j \in 1 .. k : Pending(queue[j])} = {j \in 1 .. (k - 1) : Pending(queue[j])}
    OBVIOUS
  <1> QED
    BY Zenon, <1>1 DEF PendingUpTo

LEMMA PendingUpToNext ==
    ASSUME NEW k \in Nat, Pending(queue[k + 1])
    PROVE  PendingUpTo(k + 1) = PendingUpTo(k) \cup {queue[k + 1]}
  <1>1. {j \in 1 .. (k + 1) : Pending(queue[j])} = {j \in 1 .. k : Pending(queue[j])} \cup {k + 1}
    OBVIOUS
  <1> QED
    BY Zenon, <1>1 DEF PendingUpTo

(* Drained counts what the while loop of _drain pops: everything before    *)
(* the place where it stops is done or fits, and it stops at the end of    *)
(* the queue or at a pending waiter that does not fit.                     *)
LEMMA DrainedIsLoop ==
    ASSUME TypeOK, NEW used \in Nat
    PROVE  /\ Drained(used) \in 0 .. Len(queue)
           /\ \A j \in 1 .. Drained(used) :
                 ~Pending(queue[j]) \/ used + PendingWeight(j) <= Limit
           /\ Drained(used) < Len(queue) =>
                 /\ Pending(queue[Drained(used) + 1])
                 /\ ~(used + PendingWeight(Drained(used) + 1) <= Limit)
  <1> DEFINE Ok(j) == ~Pending(queue[j]) \/ used + PendingWeight(j) <= Limit
             K == {k \in 0 .. Len(queue) : \A j \in 1 .. k : Ok(j)}
             m == Drained(used)
  <1>1. m = Max(K)
    BY DEF Drained
  <1>2. Len(queue) \in Nat
    BY DEF TypeOK
  <1> HIDE DEF Ok, m
  <1>3. 0 \in K /\ K \subseteq 0 .. Len(queue)
    BY <1>2
  <1>4. m \in K /\ \A y \in K : y <= m
    <2> HIDE DEF K
    <2> QED
      BY <1>1, <1>2, <1>3, MaxIn
  <1>5. ASSUME m < Len(queue), Ok(m + 1) PROVE FALSE
    <2>1. m + 1 \in K
      BY <1>2, <1>4, <1>5
    <2> QED
      BY <1>2, <1>4, <2>1
  <1>6. m \in 0 .. Len(queue) /\ \A j \in 1 .. m : Ok(j)
    BY <1>4
  <1> QED
    BY Zenon, <1>5, <1>6 DEF Ok, m

\* So what _drain grants fits in the budget.
LEMMA DrainedFits ==
    ASSUME TypeOK, NEW used \in Nat, used <= Limit
    PROVE  used + PendingWeight(Drained(used)) <= Limit
  <1> DEFINE m == Drained(used)
             W(j) == PendingWeight(j)
             T == {j \in 0 .. m : ~(used + W(j) <= Limit)}
  <1>1. m \in Nat /\ m <= Len(queue) /\ Len(queue) \in Nat
    BY DrainedIsLoop DEF TypeOK
  <1>2. \A j \in 1 .. m : ~Pending(queue[j]) \/ used + W(j) <= Limit
    BY Zenon, DrainedIsLoop
  <1>3. W(0) = 0
    BY Zenon, PendingUpToNone
  <1>4. \A j \in 1 .. m : ~Pending(queue[j]) => W(j) = W(j - 1)
    BY <1>1, PendingUpToDone DEF PendingWeight
  <1> HIDE DEF m, W
  <1>5. ASSUME T # {} PROVE FALSE
    <2>1. PICK j \in T : \A i \in T : j <= i
      <3>1. T \subseteq Nat
        BY <1>1
      <3> QED
        BY Zenon, <1>5, <3>1, Least
    <2>2. j # 0
      BY <1>3, AdmissionAssumption
    <2>3. j \in 1 .. m /\ j - 1 \in 0 .. m /\ j - 1 \notin T
      BY <1>1, <2>1, <2>2
    <2>4. used + W(j - 1) <= Limit
      BY <2>3
    <2> QED
      BY <1>2, <1>4, <2>3, <2>4
  <1>6. m \in 0 .. m
    BY <1>1
  <1> QED
    BY <1>5, <1>6 DEF m, W

-----------------------------------------------------------------------------
(***************************************************************************)
(* The queue.                                                              *)
(***************************************************************************)
(* The line of waiters.  A caller stands in it at most once, as the future *)
(* it waits for; whoever stands in it has a future that is pending or was  *)
(* cancelled, never one that was granted; nobody whose future is pending   *)
(* is missing from it, so that _drain can find it; it respects the queue's *)
(* capacity; and an unlimited class has no line.                           *)
LineInv ==
    /\ \A i, j \in 1 .. Len(queue) : queue[i] = queue[j] => i = j
    /\ \A i \in 1 .. Len(queue) : task[queue[i]] \in {"waiting", "withdrawn"}
    /\ \A c \in Callers : Pending(c) => \E i \in 1 .. Len(queue) : queue[i] = c
    /\ Len(queue) <= QueueCapacity
    /\ Limit = 0 => queue = << >>

\* e is the queue with the waiter of c taken out and the others kept.
QueueWithout(e, c) ==
    /\ e \in Seq(Callers)
    /\ Len(e) <= Len(queue)
    /\ \A i, j \in 1 .. Len(e) : e[i] = e[j] => i = j
    /\ \A i \in 1 .. Len(e) : e[i] # c /\ \E j \in 1 .. Len(queue) : e[i] = queue[j]
    /\ \A i \in 1 .. Len(queue) : queue[i] # c => \E j \in 1 .. Len(e) : e[j] = queue[i]

LEMMA DropWaiterLine ==
    ASSUME TypeOK, LineInv, NEW c \in Callers
    PROVE  QueueWithout(DropWaiter(c), c)
  <1> DEFINE P == {i \in 1 .. Len(queue) : queue[i] = c}
             n == Len(queue)
  <1>1. queue \in Seq(Callers) /\ n \in Nat
    BY DEF TypeOK
  <1>2. \A i, j \in 1 .. n : queue[i] = queue[j] => i = j
    BY DEF LineInv
  <1>3. CASE P = {}
    <2>1. DropWaiter(c) = queue
      BY <1>3 DEF DropWaiter
    <2>2. \A i \in 1 .. n : queue[i] # c
      BY <1>3
    <2>3. QueueWithout(queue, c)
      BY <1>1, <1>2, <2>2 DEF QueueWithout
    <2> QED
      BY Zenon, <2>1, <2>3
  <1>4. CASE P # {}
    <2> DEFINE k == Min(P)
               a == SubSeq(queue, 1, k - 1)
               b == SubSeq(queue, k + 1, n)
               d == a \o b
    <2>1. k \in 1 .. n /\ queue[k] = c
      <3>1. P \subseteq Nat
        BY <1>1
      <3>2. Min(P) \in P
        BY Zenon, <1>4, <3>1, MinIn
      <3> QED
        BY <3>2
    <2>2. DropWaiter(c) = d
      BY Zenon, <1>4 DEF DropWaiter
    <2> HIDE DEF k
    <2>3. /\ a \in Seq(Callers) /\ Len(a) = k - 1
          /\ \A i \in 1 .. (k - 1) : a[i] = queue[i]
      BY <1>1, <2>1
    <2>4. /\ b \in Seq(Callers) /\ Len(b) = n - k
          /\ \A i \in 1 .. (n - k) : b[i] = queue[k + i]
      BY <1>1, <2>1
    <2> HIDE DEF a, b
    <2>5a. /\ d \in Seq(Callers) /\ Len(d) = Len(a) + Len(b)
           /\ \A i \in 1 .. (Len(a) + Len(b)) : d[i] = IF i <= Len(a) THEN a[i] ELSE b[i - Len(a)]
      BY <2>3, <2>4, ConcatProperties
    <2> HIDE DEF d
    <2>5. /\ d \in Seq(Callers) /\ Len(d) = n - 1
          /\ \A i \in 1 .. (n - 1) : d[i] = IF i < k THEN queue[i] ELSE queue[i + 1]
      <3>1. d \in Seq(Callers) /\ Len(d) = n - 1
        BY <1>1, <2>1, <2>3, <2>4, <2>5a
      <3>2. ASSUME NEW i \in 1 .. (n - 1) PROVE d[i] = IF i < k THEN queue[i] ELSE queue[i + 1]
        <4>1. d[i] = IF i <= Len(a) THEN a[i] ELSE b[i - Len(a)]
          BY <1>1, <2>1, <2>3, <2>4, <2>5a
        <4>2. CASE i < k
          BY <1>1, <2>1, <2>3, <4>1, <4>2
        <4>3. CASE ~(i < k)
          <5>1. i - Len(a) \in 1 .. (n - k) /\ k + (i - Len(a)) = i + 1
            BY <1>1, <2>1, <2>3, <4>3
          <5>2. b[i - Len(a)] = queue[i + 1]
            BY <2>4, <5>1
          <5> QED
            BY <1>1, <2>1, <2>3, <4>1, <4>3, <5>2
        <4> QED
          BY <4>2, <4>3
      <3> QED
        BY <3>1, <3>2
    <2>6. \A i, j \in 1 .. Len(d) : d[i] = d[j] => i = j
      BY <1>1, <1>2, <2>1, <2>5
    <2>7. ASSUME NEW i \in 1 .. Len(d)
          PROVE  d[i] # c /\ \E j \in 1 .. n : d[i] = queue[j]
      <3> DEFINE j == IF i < k THEN i ELSE i + 1
      <3>1. j \in 1 .. n /\ j # k /\ d[i] = queue[j]
        BY <1>1, <2>1, <2>5
      <3> QED
        BY Zenon, <1>2, <2>1, <3>1
    <2>8. ASSUME NEW i \in 1 .. n, queue[i] # c
          PROVE  \E j \in 1 .. Len(d) : d[j] = queue[i]
      <3>1. CASE i < k
        BY <1>1, <2>1, <2>5, <3>1
      <3>2. CASE i > k
        <4>1. i - 1 \in 1 .. Len(d) /\ d[i - 1] = queue[i]
          BY <1>1, <2>1, <2>5, <3>2
        <4> QED
          BY Zenon, <4>1
      <3> QED
        BY <1>1, <2>1, <2>8, <3>1, <3>2
    <2>9. Len(d) <= n
      BY <1>1, <2>5
    <2>10. QueueWithout(d, c)
      BY Zenon, <2>5, <2>6, <2>7, <2>8, <2>9 DEF QueueWithout
    <2> QED
      BY Zenon, <2>2, <2>10
  <1> QED
    BY Zenon, <1>3, <1>4

-----------------------------------------------------------------------------
(***************************************************************************)
(* The admission controller.                                               *)
(***************************************************************************)
AdmissionInv == BudgetConserved /\ LineInv

LEMMA InitAdmissionInv == Init => AdmissionInv
<1> SUFFICES ASSUME Init PROVE AdmissionInv
  OBVIOUS
<1>1. TypeOK
  BY DEF Init, TypeOK, TaskStates
<1>2. Owners = {}
  BY DEF Init, Owners
<1>3. OwnedWeight = 0
  BY Zenon, <1>2, WeightOfNone DEF OwnedWeight
<1>4. LineInv
  BY AdmissionAssumption DEF Init, LineInv, Pending
<1> QED
  BY <1>1, <1>3, <1>4, AdmissionAssumption DEF Init, AdmissionInv, BudgetConserved

\* The counter follows the owners: it moves by the weight of the callers
\* that become owners or cease to be.
LEMMA OwnerJoins ==
    ASSUME NEW c \in Callers, c \notin Owners, Owners' = Owners \cup {c}
    PROVE  OwnedWeight' = OwnedWeight + Weight[c]
  <1>1. Owners \subseteq Callers
    BY Zenon DEF Owners
  <1>2. WeightOf(Owners \cup {c}) = WeightOf(Owners) + WeightOf({c})
    BY <1>1, WeightOfUnion
  <1>3. OwnedWeight' = WeightOf(Owners')
    BY DEF OwnedWeight, WeightOf, Units
  <1> QED
    BY Zenon, <1>2, <1>3, WeightOfOne DEF OwnedWeight

LEMMA OwnerLeaves ==
    ASSUME NEW c \in Owners
    PROVE  OwnedWeight = WeightOf(Owners \ {c}) + Weight[c] /\ WeightOf(Owners \ {c}) \in Nat
  <1>1. Owners \subseteq Callers /\ (Owners \ {c}) \cup {c} = Owners
    BY Zenon DEF Owners
  <1>2. WeightOf((Owners \ {c}) \cup {c}) = WeightOf(Owners \ {c}) + WeightOf({c})
    BY <1>1, WeightOfUnion
  <1>3. WeightOf(Owners \ {c}) \in Nat
    BY <1>1, UnitsFinite
  <1> QED
    BY Zenon, <1>1, <1>2, <1>3, WeightOfOne DEF OwnedWeight

LEMMA AcquireFastInv ==
    ASSUME AdmissionInv, NEW c \in Callers, AcquireFast(c)
    PROVE  AdmissionInv'
<1>1. TypeOK /\ LineInv /\ active = OwnedWeight /\ (Limit > 0 => active <= Limit)
  BY DEF AdmissionInv, BudgetConserved
<1>2. /\ task[c] = "idle" /\ task' = [task EXCEPT ![c] = "holding"]
      /\ active' = active + Weight[c] /\ queue' = queue
      /\ Limit > 0 => active + Weight[c] <= Limit
  BY AdmissionAssumption DEF AcquireFast
<1>3. Weight[c] \in Nat
  BY AdmissionAssumption
<1>4. TypeOK'
  BY <1>1, <1>2, <1>3 DEF TypeOK, TaskStates
<1>5. c \notin Owners /\ Owners' = Owners \cup {c}
  BY <1>1, <1>2 DEF Owners, TypeOK
<1>6. OwnedWeight' = OwnedWeight + Weight[c]
  BY <1>5, OwnerJoins
<1>7. LineInv'
  BY <1>1, <1>2 DEF LineInv, TypeOK, Pending
<1> QED
  BY <1>1, <1>2, <1>4, <1>6, <1>7 DEF AdmissionInv, BudgetConserved

LEMMA AcquireQueueInv ==
    ASSUME AdmissionInv, NEW c \in Callers, AcquireQueue(c)
    PROVE  AdmissionInv'
<1>1. TypeOK /\ LineInv /\ active = OwnedWeight /\ (Limit > 0 => active <= Limit)
  BY DEF AdmissionInv, BudgetConserved
<1>2. /\ task[c] = "idle" /\ task' = [task EXCEPT ![c] = "waiting"]
      /\ active' = active /\ queue' = Append(queue, c)
      /\ Limit > 0 /\ Len(queue) < QueueCapacity
  BY DEF AcquireQueue
<1>3. TypeOK'
  BY <1>1, <1>2 DEF TypeOK, TaskStates
<1>4. Owners' = Owners
  BY <1>1, <1>2 DEF Owners, TypeOK
<1>5. OwnedWeight' = OwnedWeight
  BY <1>4 DEF OwnedWeight, WeightOf, Units
<1>6. LineInv'
  <2>1. /\ queue \in Seq(Callers) /\ Len(queue) \in Nat /\ Len(queue') = Len(queue) + 1
        /\ \A i \in 1 .. Len(queue) : queue'[i] = queue[i]
        /\ queue'[Len(queue) + 1] = c
    BY <1>1, <1>2 DEF TypeOK
  <2>2. \A i \in 1 .. Len(queue) : queue[i] # c
    BY <1>1, <1>2 DEF LineInv
  <2>3. \A i, j \in 1 .. Len(queue') : queue'[i] = queue'[j] => i = j
    BY <1>1, <2>1, <2>2 DEF LineInv
  <2>4. \A i \in 1 .. Len(queue') : task'[queue'[i]] \in {"waiting", "withdrawn"}
    BY <1>1, <1>2, <2>1 DEF LineInv, TypeOK
  <2>5. ASSUME NEW d \in Callers, Pending(d)'
        PROVE  \E i \in 1 .. Len(queue') : queue'[i] = d
    <3>1. CASE d = c
      BY <2>1, <3>1
    <3>2. CASE d # c
      <4>1. Pending(d)
        BY <1>1, <1>2, <2>5, <3>2 DEF Pending, TypeOK
      <4>2. PICK i \in 1 .. Len(queue) : queue[i] = d
        BY <1>1, <4>1 DEF LineInv
      <4> QED
        BY <2>1, <4>2
    <3> QED
      BY <3>1, <3>2
  <2>6. Len(queue') <= QueueCapacity /\ Limit # 0
    BY <1>2, <2>1, AdmissionAssumption
  <2> QED
    BY <2>3, <2>4, <2>5, <2>6 DEF LineInv
<1> QED
  BY <1>1, <1>2, <1>3, <1>5, <1>6 DEF AdmissionInv, BudgetConserved

\* Resume and Cancel move a task between states of the same kind.
LEMMA MovesInv ==
    ASSUME AdmissionInv, NEW c \in Callers, Resume(c) \/ Cancel(c)
    PROVE  AdmissionInv'
<1>1. TypeOK /\ LineInv /\ active = OwnedWeight /\ (Limit > 0 => active <= Limit)
  BY DEF AdmissionInv, BudgetConserved
<1>2. PICK t \in {"holding", "withdrawn", "revoked"} :
        /\ task' = [task EXCEPT ![c] = t]
        /\ task[c] = IF t = "withdrawn" THEN "waiting" ELSE "granted"
        /\ active' = active /\ queue' = queue
  BY DEF Resume, Cancel
<1>3. TypeOK'
  BY <1>1, <1>2 DEF TypeOK, TaskStates
<1>4. Owners' = Owners
  BY <1>1, <1>2 DEF Owners, TypeOK
<1>5. OwnedWeight' = OwnedWeight
  BY <1>4 DEF OwnedWeight, WeightOf, Units
<1>6. LineInv'
  BY <1>1, <1>2 DEF LineInv, TypeOK, Pending
<1> QED
  BY <1>1, <1>2, <1>3, <1>5, <1>6 DEF AdmissionInv, BudgetConserved

LEMMA HandleCancelledInv ==
    ASSUME AdmissionInv, NEW c \in Callers, HandleCancelled(c)
    PROVE  AdmissionInv'
<1>1. TypeOK /\ LineInv /\ active = OwnedWeight /\ (Limit > 0 => active <= Limit)
  BY DEF AdmissionInv, BudgetConserved
<1>2. /\ task[c] \in {"withdrawn", "revoked"} /\ task' = [task EXCEPT ![c] = "idle"]
      /\ active' = IF task[c] = "revoked" THEN active - Weight[c] ELSE active
      /\ queue' = DropWaiter(c)
  BY DEF HandleCancelled
<1>3. Weight[c] \in Nat
  BY AdmissionAssumption
<1>4. /\ queue' \in Seq(Callers) /\ Len(queue') <= Len(queue)
      /\ \A i, j \in 1 .. Len(queue') : queue'[i] = queue'[j] => i = j
      /\ \A i \in 1 .. Len(queue') :
            queue'[i] # c /\ \E j \in 1 .. Len(queue) : queue'[i] = queue[j]
      /\ \A i \in 1 .. Len(queue) :
            queue[i] # c => \E j \in 1 .. Len(queue') : queue'[j] = queue[i]
  <2>1. QueueWithout(queue', c)
    BY Zenon, <1>1, <1>2, DropWaiterLine
  <2> QED
    BY Zenon, <2>1 DEF QueueWithout
<1>5. active' = OwnedWeight' /\ active' \in Nat /\ active' <= active
  <2>1. CASE task[c] = "revoked"
    <3>1. c \in Owners /\ Owners' = Owners \ {c}
      BY <1>1, <1>2, <2>1 DEF Owners, TypeOK
    <3>2. OwnedWeight' = WeightOf(Owners \ {c})
      BY <3>1 DEF OwnedWeight, WeightOf, Units
    <3> QED
      BY <1>1, <1>2, <1>3, <2>1, <3>1, <3>2, OwnerLeaves
  <2>2. CASE task[c] # "revoked"
    <3>1. Owners' = Owners
      BY <1>1, <1>2, <2>2 DEF Owners, TypeOK
    <3>2. OwnedWeight' = OwnedWeight
      BY <3>1 DEF OwnedWeight, WeightOf, Units
    <3> QED
      BY <1>1, <1>2, <2>2, <3>2 DEF TypeOK
  <2> QED
    BY <2>1, <2>2
<1>6. TypeOK'
  <2>1. task' \in [Callers -> TaskStates]
    BY <1>1, <1>2 DEF TypeOK, TaskStates
  <2> QED
    BY <1>4, <1>5, <2>1 DEF TypeOK
<1>7. LineInv'
  <2>1. \A i \in 1 .. Len(queue') : task'[queue'[i]] \in {"waiting", "withdrawn"}
    <3> SUFFICES ASSUME NEW i \in 1 .. Len(queue')
                 PROVE  task'[queue'[i]] \in {"waiting", "withdrawn"}
      OBVIOUS
    <3>1. PICK j \in 1 .. Len(queue) : queue'[i] = queue[j]
      BY Zenon, <1>4
    <3>2. queue[j] # c /\ queue[j] \in Callers
      BY <1>1, <1>4, <3>1 DEF TypeOK
    <3>3. task'[queue[j]] = task[queue[j]]
      BY <1>1, <1>2, <3>2 DEF TypeOK
    <3> QED
      BY Zenon, <1>1, <3>1, <3>3 DEF LineInv
  <2>2. ASSUME NEW d \in Callers, Pending(d)'
        PROVE  \E i \in 1 .. Len(queue') : queue'[i] = d
    <3>1. d # c /\ Pending(d)
      BY <1>1, <1>2, <2>2 DEF Pending, TypeOK
    <3>2. PICK i \in 1 .. Len(queue) : queue[i] = d
      BY <1>1, <3>1 DEF LineInv
    <3> QED
      BY Zenon, <1>4, <3>1, <3>2
  <2>3. Len(queue') <= QueueCapacity
    <3>1. Len(queue) \in Nat /\ Len(queue') \in Nat /\ Len(queue) <= QueueCapacity
      BY <1>1, <1>4 DEF TypeOK, LineInv
    <3> QED
      BY <1>4, <3>1, AdmissionAssumption
  <2>4. Limit = 0 => queue' = << >>
    <3>1. Limit = 0 => Len(queue) = 0
      BY <1>1 DEF LineInv
    <3> QED
      BY <1>1, <1>4, <3>1 DEF TypeOK
  <2> QED
    BY Zenon, <1>4, <2>1, <2>2, <2>3, <2>4 DEF LineInv
<1>8. Limit > 0 => active' <= Limit
  BY <1>1, <1>5, AdmissionAssumption DEF TypeOK
<1> QED
  BY <1>5, <1>6, <1>7, <1>8 DEF AdmissionInv, BudgetConserved

LEMMA Suffix ==
    ASSUME NEW S, NEW s \in Seq(S), NEW k \in 0 .. Len(s)
    PROVE  /\ Len(SubSeq(s, k + 1, Len(s))) = Len(s) - k
           /\ \A i \in 1 .. (Len(s) - k) : SubSeq(s, k + 1, Len(s))[i] = s[k + i]
  OBVIOUS

\* What a release() followed by _drain does to the budget.
LEMMA ReleaseFacts ==
    ASSUME AdmissionInv, NEW c \in Callers, Release(c), NEW k, k = Drained(active - Weight[c])
    PROVE  /\ active - Weight[c] \in Nat
           /\ active' = active - Weight[c] + PendingWeight(k)
           /\ queue' = SubSeq(queue, k + 1, Len(queue))
           /\ task[c] = "holding"
           /\ task' = [d \in Callers |->
                         IF d = c THEN "idle"
                         ELSE IF d \in PendingUpTo(k) THEN "granted" ELSE task[d]]
<1>1. TypeOK /\ active = OwnedWeight /\ task[c] = "holding"
  BY DEF AdmissionInv, BudgetConserved, Release
<1>2. c \in Owners
  BY <1>1 DEF Owners
<1>3. active - Weight[c] \in Nat
  <2>1. Weight[c] \in Nat
    BY AdmissionAssumption
  <2>2. active = WeightOf(Owners \ {c}) + Weight[c] /\ WeightOf(Owners \ {c}) \in Nat
    BY Zenon, <1>1, <1>2, OwnerLeaves
  <2> QED
    BY <2>1, <2>2
<1>4. Max({0, active - Weight[c]}) = active - Weight[c]
  <2> DEFINE u == active - Weight[c]
             T == {0, u}
  <2>1. u \in Nat /\ T \subseteq 0 .. u /\ T # {} /\ u \in T
    BY <1>3
  <2> HIDE DEF u, T
  <2>2. Max(T) \in T /\ u <= Max(T)
    BY <2>1, MaxIn
  <2>3. Max(T) = 0 \/ Max(T) = u
    BY <2>2 DEF T
  <2>4. Max(T) = u
    BY <2>1, <2>2, <2>3
  <2> QED
    BY <2>4 DEF u, T
<1>5. ReleaseAndDrain(c, active - Weight[c])
  BY Zenon, <1>4 DEF Release
<1> QED
  BY Zenon, <1>1, <1>3, <1>5 DEF ReleaseAndDrain

LEMMA ReleaseInv ==
    ASSUME AdmissionInv, NEW c \in Callers, Release(c)
    PROVE  AdmissionInv'
<1> DEFINE u == active - Weight[c]
           k == Drained(u)
           G == PendingUpTo(k)
           n == Len(queue)
<1>1. TypeOK /\ LineInv /\ active = OwnedWeight /\ (Limit > 0 => active <= Limit)
  BY DEF AdmissionInv, BudgetConserved
<1>2. /\ u \in Nat /\ active' = u + PendingWeight(k)
      /\ queue' = SubSeq(queue, k + 1, n) /\ task[c] = "holding"
      /\ task' = [d \in Callers |->
                    IF d = c THEN "idle" ELSE IF d \in G THEN "granted" ELSE task[d]]
  BY Zenon, ReleaseFacts
<1>3. k \in 0 .. n /\ n \in Nat /\ queue \in Seq(Callers) /\ active \in Nat
  <2>1. k \in 0 .. n
    <3> HIDE DEF u
    <3> QED
      BY Zenon, <1>1, <1>2, DrainedIsLoop
  <2> QED
    BY <1>1, <2>1 DEF TypeOK
<1>4. G \subseteq Callers /\ (\A d \in G : Pending(d)) /\ PendingWeight(k) \in Nat
  BY Zenon, <1>1, <1>3, PendingUpToType
<1>5. Weight[c] \in Nat /\ Limit \in Nat /\ QueueCapacity \in Nat
  BY AdmissionAssumption
<1>6. Limit > 0 => u + PendingWeight(k) <= Limit
  <2>1. Limit > 0 => u <= Limit
    BY <1>1, <1>3, <1>5
  <2> HIDE DEF u
  <2> QED
    BY <1>1, <1>2, <2>1, DrainedFits
<1> HIDE DEF u, k, G
<1>7. TypeOK'
  <2>1. task' \in [Callers -> TaskStates]
    BY <1>1, <1>2 DEF TypeOK, TaskStates
  <2>2. queue' \in Seq(Callers)
    BY <1>2, <1>3
  <2> QED
    BY <1>2, <1>4, <2>1, <2>2 DEF TypeOK
<1>8. OwnedWeight' = active'
  <2>1. c \notin G /\ c \in Owners
    BY <1>2, <1>4 DEF Pending, Owners
  <2>2. Owners' = (Owners \ {c}) \cup G
    BY <1>1, <1>2, <1>4, <2>1 DEF Owners, TypeOK
  <2>3. Owners \subseteq Callers /\ (Owners \ {c}) \cap G = {}
    BY <1>4 DEF Owners, Pending
  <2>4. WeightOf((Owners \ {c}) \cup G) = WeightOf(Owners \ {c}) + WeightOf(G)
    BY <1>4, <2>3, WeightOfUnion
  <2>5. OwnedWeight' = WeightOf((Owners \ {c}) \cup G)
    BY <2>2 DEF OwnedWeight, WeightOf, Units
  <2>6. WeightOf(G) = PendingWeight(k)
    BY DEF G, PendingWeight
  <2>7. OwnedWeight = WeightOf(Owners \ {c}) + Weight[c] /\ WeightOf(Owners \ {c}) \in Nat
    BY Zenon, <2>1, OwnerLeaves
  <2>8. WeightOf(Owners \ {c}) = u
    BY <1>1, <1>5, <2>7 DEF u
  <2> QED
    BY Zenon, <1>2, <2>4, <2>5, <2>6, <2>8
<1>9. LineInv'
  <2>1. Len(queue') = n - k /\ \A i \in 1 .. (n - k) : queue'[i] = queue[k + i]
    <3> DEFINE q == SubSeq(queue, k + 1, n)
    <3>1. Len(q) = n - k /\ \A i \in 1 .. (n - k) : q[i] = queue[k + i]
      BY <1>3, Suffix
    <3>2. queue' = q
      BY Zenon, <1>2
    <3> HIDE DEF q
    <3> QED
      BY Zenon, <3>1, <3>2
  <2>2. \A i, j \in 1 .. n : queue[i] = queue[j] => i = j
    BY <1>1 DEF LineInv
  <2>3. ASSUME NEW i \in 1 .. Len(queue'), NEW j \in 1 .. Len(queue'), queue'[i] = queue'[j]
        PROVE  i = j
    <3>1. /\ k + i \in 1 .. n /\ queue'[i] = queue[k + i]
          /\ k + j \in 1 .. n /\ queue'[j] = queue[k + j]
      <4>1. i \in 1 .. (n - k) /\ j \in 1 .. (n - k)
        BY Zenon, <2>1
      <4>2. k + i \in 1 .. n /\ k + j \in 1 .. n
        BY ONLY <1>3, <4>1
      <4> QED
        BY Zenon, <2>1, <4>1, <4>2
    <3>2. k + i = k + j
      BY Zenon, <2>2, <2>3, <3>1
    <3> QED
      BY <1>3, <3>2
  <2>4. ASSUME NEW i \in 1 .. Len(queue')
        PROVE  task'[queue'[i]] \in {"waiting", "withdrawn"}
    <3>1. k + i \in 1 .. n /\ k + i > k /\ queue'[i] = queue[k + i]
      BY <1>3, <2>1
    <3>2. task[queue[k + i]] \in {"waiting", "withdrawn"} /\ queue[k + i] \in Callers
      BY <1>1, <1>3, <3>1 DEF LineInv
    <3>3. queue[k + i] \notin G
      <4> SUFFICES ASSUME queue[k + i] \in G PROVE FALSE
        OBVIOUS
      <4>1. PICK j \in 1 .. k : queue[j] = queue[k + i]
        BY Zenon DEF G, PendingUpTo
      <4> QED
        BY <1>3, <2>2, <3>1, <4>1
    <3> QED
      BY Zenon, <1>2, <3>1, <3>2, <3>3
  <2>5. ASSUME NEW d \in Callers, Pending(d)'
        PROVE  \E i \in 1 .. Len(queue') : queue'[i] = d
    <3>1. d \notin G /\ Pending(d)
      BY <1>1, <1>2, <2>5 DEF Pending, TypeOK
    <3>2. PICK j \in 1 .. n : queue[j] = d
      BY <1>1, <3>1 DEF LineInv
    <3>3. ~(j \in 1 .. k)
      BY Zenon, <3>1, <3>2 DEF G, PendingUpTo
    <3>4. j - k \in 1 .. (n - k) /\ k + (j - k) = j
      BY <1>3, <3>3
    <3>5. j - k \in 1 .. Len(queue') /\ queue'[j - k] = d
      BY <2>1, <3>2, <3>4
    <3> QED
      BY Zenon, <3>5
  <2>6. Len(queue') <= QueueCapacity
    BY <1>1, <1>3, <1>5, <2>1 DEF LineInv
  <2>7. Limit = 0 => queue' = << >>
    <3>1. Limit = 0 => n = 0
      BY <1>1 DEF LineInv
    <3> QED
      BY <1>2, <1>3, <3>1
  <2> QED
    BY Zenon, <2>3, <2>4, <2>5, <2>6, <2>7 DEF LineInv
<1> QED
  BY <1>2, <1>6, <1>7, <1>8, <1>9 DEF AdmissionInv, BudgetConserved

\* Every step of acquire, release and a cancellation keeps the invariant.
LEMMA NextAdmissionInv == AdmissionInv /\ [Next]_vars => AdmissionInv'
<1> SUFFICES ASSUME AdmissionInv, [Next]_vars PROVE AdmissionInv'
  OBVIOUS
<1>1. ASSUME UNCHANGED vars PROVE AdmissionInv'
  BY <1>1 DEF vars, AdmissionInv, BudgetConserved, LineInv, TypeOK, Pending, OwnedWeight,
              WeightOf, Units, Owners
<1>2. ASSUME NEW c \in Callers, AcquireReject(c) PROVE AdmissionInv'
  BY <1>1, <1>2 DEF AcquireReject
<1> QED
  BY Zenon, <1>1, <1>2, AcquireFastInv, AcquireQueueInv, MovesInv, HandleCancelledInv, ReleaseInv
  DEF Next, Acquire

(* The admission controller never leaks or double-refunds a unit and never *)
(* admits more than the class's budget, whatever the weights and however   *)
(* grants and cancellations interleave (acquire, release, _drain).         *)
THEOREM AdmissionBudget == Spec => []BudgetConserved
<1>1. AdmissionInv => BudgetConserved
  BY DEF AdmissionInv
<1> QED
  BY <1>1, InitAdmissionInv, NextAdmissionInv, PTL DEF Spec

(* Each pending waiter stands in the bounded queue exactly once, and no    *)
(* caller that was granted or has left still does (_drain, _drop_waiter).  *)
THEOREM AdmissionLine == Spec => []LineInv
<1>1. AdmissionInv => LineInv
  BY DEF AdmissionInv
<1> QED
  BY <1>1, InitAdmissionInv, NextAdmissionInv, PTL DEF Spec

(* Admission is first come, first served: no step admits a caller past a   *)
(* waiter that is pending ahead of it (acquire's `not queue` test and the  *)
(* order in which _drain pops).                                            *)
THEOREM AdmissionFifo == Spec => NoOvertaking
<1> DEFINE Fair(c) == ~Admitted(task[c]) /\ Admitted(task'[c])
                         => \A w \in AheadOf(c) : Admitted(task'[w])
           Step == Limit > 0 => \A c \in Callers : Fair(c)
<1>1. ASSUME AdmissionInv, [Next]_vars PROVE [Step]_vars
  <2> SUFFICES ASSUME Next, Limit > 0, NEW c \in Callers,
                      ~Admitted(task[c]), Admitted(task'[c]),
                      NEW w \in AheadOf(c)
               PROVE  Admitted(task'[w])
    BY <1>1
  <2>1. TypeOK
    BY <1>1 DEF AdmissionInv, BudgetConserved
  <2>2. PICK i \in 1 .. Len(queue) :
          w = queue[i] /\ Pending(w) /\ \A j \in 1 .. i : queue[j] # c
    BY Zenon DEF AheadOf
  <2>3. ASSUME NEW d \in Callers, AcquireFast(d) PROVE FALSE
    BY <2>2, <2>3 DEF AcquireFast
  <2>4. ASSUME NEW d \in Callers,
               AcquireQueue(d) \/ AcquireReject(d) \/ Resume(d) \/ Cancel(d) \/ HandleCancelled(d)
        PROVE  FALSE
    BY <2>1, <2>4 DEF AcquireQueue, AcquireReject, Resume, Cancel, HandleCancelled, vars, TypeOK, Admitted
  <2>5. ASSUME NEW d \in Callers, Release(d) PROVE Admitted(task'[w])
    <3> DEFINE k == Drained(active - Weight[d])
    <3>1. /\ active - Weight[d] \in Nat /\ task[d] = "holding"
          /\ task' = [e \in Callers |->
                        IF e = d THEN "idle"
                        ELSE IF e \in PendingUpTo(k) THEN "granted" ELSE task[e]]
      BY Zenon, <1>1, <2>5, ReleaseFacts
    <3>2. k \in 0 .. Len(queue) /\ Len(queue) \in Nat
      <4>1. k \in 0 .. Len(queue)
        BY Zenon, <2>1, <3>1, DrainedIsLoop
      <4> QED
        BY <2>1, <4>1 DEF TypeOK
    <3> HIDE DEF k
    <3>3. c \in PendingUpTo(k)
      BY <3>1 DEF Admitted
    <3>4. PICK j \in 1 .. k : queue[j] = c
      BY Zenon, <3>3 DEF PendingUpTo
    <3>5. i \in 1 .. k
      BY <2>2, <3>2, <3>4
    <3>6. w \in PendingUpTo(k)
      BY Zenon, <2>2, <3>5 DEF PendingUpTo
    <3>7. w # d /\ w \in Callers
      BY <2>1, <2>2, <3>1 DEF Pending, TypeOK
    <3> QED
      BY <3>1, <3>6, <3>7 DEF Admitted
  <2> QED
    BY Zenon, <2>3, <2>4, <2>5 DEF Next, Acquire
<1>2. NoOvertaking <=> [][Step]_vars
  BY DEF NoOvertaking
<1> QED
  BY <1>1, <1>2, InitAdmissionInv, NextAdmissionInv, PTL DEF Spec

\* Nobody at the head of the line could be served: it is pending and does
\* not fit in what is left of the budget.
FrontBlocked ==
    queue # << >> => Pending(queue[1]) /\ active + Weight[queue[1]] > Limit

LEMMA DrainBlocks ==
    ASSUME AdmissionInv, NEW c \in Callers, Release(c)
    PROVE  FrontBlocked'
  <1> DEFINE u == active - Weight[c]
             k == Drained(u)
             n == Len(queue)
  <1>1. TypeOK /\ LineInv
    BY DEF AdmissionInv, BudgetConserved
  <1>2. /\ u \in Nat /\ active' = u + PendingWeight(k)
        /\ queue' = SubSeq(queue, k + 1, n) /\ task[c] = "holding"
        /\ task' = [d \in Callers |->
                      IF d = c THEN "idle" ELSE IF d \in PendingUpTo(k) THEN "granted" ELSE task[d]]
    BY Zenon, ReleaseFacts
  <1> HIDE DEF u
  <1>3. k \in 0 .. n /\ n \in Nat /\ queue \in Seq(Callers)
    <2>1. k \in 0 .. n
      BY Zenon, <1>1, <1>2, DrainedIsLoop
    <2> QED
      BY <1>1, <2>1 DEF TypeOK
  <1>4. k < n => Pending(queue[k + 1]) /\ ~(u + PendingWeight(k + 1) <= Limit)
    BY Zenon, <1>1, <1>2, DrainedIsLoop
  <1> HIDE DEF k
  <1> SUFFICES ASSUME queue' # << >>
               PROVE  task'[queue'[1]] = "waiting" /\ active' + Weight[queue'[1]] > Limit
    BY Zenon DEF FrontBlocked, Pending
  <1>5. k < n /\ queue'[1] = queue[k + 1]
    BY <1>2, <1>3
  <1> DEFINE w == queue[k + 1]
  <1>6. w \in Callers /\ Pending(w) /\ k + 1 \in 1 .. n
    BY <1>3, <1>4, <1>5
  <1>7. w \notin PendingUpTo(k)
    <2> SUFFICES ASSUME w \in PendingUpTo(k) PROVE FALSE
      OBVIOUS
    <2>1. PICK j \in 1 .. k : queue[j] = queue[k + 1]
      BY Zenon DEF PendingUpTo
    <2>2. j \in 1 .. n /\ j # k + 1
      BY <1>3, <1>5
    <2> QED
      BY Zenon, <1>1, <1>6, <2>1, <2>2 DEF LineInv
  <1>8. PendingWeight(k + 1) = PendingWeight(k) + Weight[w]
    <2>1. PendingUpTo(k + 1) = PendingUpTo(k) \cup {w}
      BY <1>3, <1>6, PendingUpToNext
    <2>2. PendingUpTo(k) \subseteq Callers
      BY Zenon, <1>1, <1>3, PendingUpToType
    <2>3. WeightOf(PendingUpTo(k) \cup {w}) = WeightOf(PendingUpTo(k)) + WeightOf({w})
      BY <1>6, <1>7, <2>2, WeightOfUnion
    <2> QED
      BY Zenon, <1>6, <2>1, <2>3, WeightOfOne DEF PendingWeight
  <1>9. task'[w] = "waiting"
    <2>1. w # c
      BY <1>2, <1>6 DEF Pending
    <2> QED
      BY Zenon, <1>2, <1>6, <1>7, <2>1 DEF Pending
  <1>10. active' + Weight[w] > Limit
    <2>1. PendingWeight(k) \in Nat /\ Weight[w] \in Nat /\ Limit \in Nat
      <3>1. PendingWeight(k) \in Nat
        BY Zenon, <1>1, <1>3, PendingUpToType
      <3> QED
        BY <1>6, <3>1, AdmissionAssumption
    <2> HIDE DEF w
    <2> QED
      BY <1>2, <1>4, <1>5, <1>8, <2>1
  <1> QED
    BY Zenon, <1>5, <1>9, <1>10

(* A release() hands out all it can: when its _drain returns, the queue is *)
(* empty or its first waiter is a live one that does not fit, even when    *)
(* cancelled waiters stood before it (the exits of _drain's while loop).   *)
THEOREM AdmissionDrainComplete == Spec => [][\A c \in Callers : Release(c) => FrontBlocked']_vars
<1>1. AdmissionInv => \A c \in Callers : Release(c) => FrontBlocked'
  BY Zenon, DrainBlocks
<1> QED
  BY <1>1, InitAdmissionInv, NextAdmissionInv, PTL DEF Spec

\* Whoever waits would fit in an empty class, and somebody is going to release
\* while anybody stands in the line.
Fits == \A c \in Callers : Pending(c) => Weight[c] <= Limit

Attended == queue # << >> => \E c \in Callers : Admitted(task[c])

NoneRevoked == \A c \in Callers : task[c] # "revoked"

\* Units in use have an owner, which will release them unless it was revoked.
LEMMA InUseAdmitted ==
    ASSUME BudgetConserved, NoneRevoked, active > 0
    PROVE  \E c \in Callers : Admitted(task[c])
  <1>1. Owners # {}
    <2> SUFFICES ASSUME Owners = {} PROVE FALSE
      OBVIOUS
    <2>1. OwnedWeight = 0
      BY Zenon, WeightOfNone DEF OwnedWeight
    <2> QED
      BY <2>1 DEF BudgetConserved
  <1> QED
    BY Zenon, <1>1 DEF Owners, NoneRevoked, Admitted

LEMMA NextAttended ==
    ASSUME AdmissionInv, AdmissionInv', Fits, Attended, NoneRevoked, NoneRevoked', [Next]_vars
    PROVE  Fits' /\ Attended'
<1>1. /\ TypeOK /\ BudgetConserved /\ BudgetConserved'
      /\ active \in Nat /\ active' \in Nat /\ task \in [Callers -> TaskStates]
      /\ queue \in Seq(Callers) /\ queue' \in Seq(Callers)
  BY DEF AdmissionInv, BudgetConserved, TypeOK
<1>2. Weight \in [Callers -> Nat] /\ Limit \in Nat
  BY AdmissionAssumption
<1>3. CASE UNCHANGED vars
  BY <1>3 DEF vars, Fits, Attended, Pending, Admitted
<1>4. ASSUME NEW c \in Callers, AcquireFast(c) PROVE Fits' /\ Attended'
  BY <1>1, <1>4 DEF AcquireFast, Fits, Attended, Pending, Admitted
<1>5. ASSUME NEW c \in Callers, AcquireQueue(c) PROVE Fits' /\ Attended'
  <2>1. Fits'
    BY <1>1, <1>5 DEF AcquireQueue, Fits, Pending
  <2>2. queue # << >> \/ active > 0
    BY <1>1, <1>2, <1>5 DEF AcquireQueue
  <2>3. \E d \in Callers : Admitted(task[d])
    BY Zenon, <1>1, <2>2, InUseAdmitted DEF Attended
  <2>4. \A d \in Callers : Admitted(task[d]) => Admitted(task'[d])
    BY <1>1, <1>5 DEF AcquireQueue, Admitted
  <2> QED
    BY Zenon, <2>1, <2>3, <2>4 DEF Attended
<1>6. ASSUME NEW c \in Callers, Resume(c) PROVE Fits' /\ Attended'
  BY <1>1, <1>6 DEF Resume, Fits, Attended, Pending, Admitted
<1>7. ASSUME NEW c \in Callers, Cancel(c) PROVE Fits' /\ Attended'
  BY <1>1, <1>7 DEF Cancel, Fits, Attended, Pending, Admitted, NoneRevoked
<1>8. ASSUME NEW c \in Callers, HandleCancelled(c) PROVE Fits' /\ Attended'
  <2>1. queue = << >> => queue' = << >>
    BY <1>1, <1>8 DEF HandleCancelled, DropWaiter
  <2> QED
    BY <1>1, <1>8, <2>1 DEF HandleCancelled, Fits, Attended, Pending, Admitted
<1>9. ASSUME NEW c \in Callers, Release(c) PROVE Fits' /\ Attended'
  <2>1. \A d \in Callers : task'[d] = "waiting" => task[d] = "waiting"
    BY <1>1, <1>9 DEF Release, ReleaseAndDrain
  <2>2. Fits'
    BY Zenon, <2>1 DEF Fits, Pending
  <2>3. queue' # << >> => task'[queue'[1]] = "waiting" /\ active' + Weight[queue'[1]] > Limit
    BY Zenon, <1>9, DrainBlocks DEF FrontBlocked, Pending
  <2>4. ASSUME queue' # << >> PROVE active' > 0
    <3>1. queue'[1] \in Callers
      BY <1>1, <2>4
    <3>2. Weight[queue'[1]] <= Limit
      BY Zenon, <2>2, <2>3, <2>4, <3>1 DEF Fits, Pending
    <3> QED
      BY <1>1, <1>2, <2>3, <2>4, <3>1, <3>2
  <2>5. active' > 0 => \E d \in Callers : Admitted(task'[d])
    <3>1. active' = OwnedWeight'
      BY <1>1 DEF BudgetConserved
    <3>2. Owners' = {} => OwnedWeight' = 0
      BY Zenon, WeightOfNone DEF OwnedWeight, WeightOf, Units
    <3> QED
      BY <3>1, <3>2 DEF Owners, NoneRevoked, Admitted
  <2> QED
    BY Zenon, <2>2, <2>4, <2>5 DEF Attended
<1> QED
  BY Zenon, <1>3, <1>4, <1>5, <1>6, <1>7, <1>8, <1>9 DEF Next, Acquire, AcquireReject

(* Nobody waits for nothing: as long as no grant is cancelled before its   *)
(* task resumes, whenever callers stand in the queue some caller is        *)
(* admitted and will call release(), which is the only thing that wakes    *)
(* them (acquire queues only behind units in use; _drain stops only there; *)
(* a cancelled waiter leaves without waking the others).                   *)
THEOREM AdmissionAttended == Spec /\ []NoneRevoked => []Attended
<1>1. Init => Fits /\ Attended
  BY DEF Init, Fits, Attended, Pending
<1> QED
  BY <1>1, InitAdmissionInv, NextAdmissionInv, NextAttended, PTL DEF Spec

-----------------------------------------------------------------------------
(***************************************************************************)
(* The circuit breaker.                                                    *)
(***************************************************************************)

(* HALF_OPEN is only ever entered by the check() that takes the probe, so  *)
(* the window starts with the flag set and exactly that request admitted.  *)
WindowInv ==
    state = "HALF_OPEN" => probe = TRUE /\ \E r \in Requests : probes = {r}

BreakerInv == BreakerTypeOK /\ WindowInv /\ ClosedBelowThreshold

LEMMA InitBreakerInv == BreakerInit => BreakerInv
<1> SUFFICES ASSUME BreakerInit PROVE BreakerInv
  OBVIOUS
<1>1. /\ state \in States
      /\ failures \in 0 .. MaxFailures
      /\ inflight \subseteq Requests /\ probes \subseteq Requests
      /\ WindowInv /\ ClosedBelowThreshold
  BY BreakerAssumption
  DEF BreakerAssumption, BreakerInit, WindowInv, ClosedBelowThreshold, States
<1>2. cooled \in BOOLEAN /\ probe \in BOOLEAN
  BY Zenon DEF BreakerInit
<1> QED
  BY <1>1, <1>2, Zenon DEF BreakerInv, BreakerTypeOK

(* Every operation of the breaker preserves the inductive invariant. *)
LEMMA NextBreakerInv ==
    BreakerInv /\ [BreakerNext]_BreakerVars => BreakerInv'
<1> SUFFICES ASSUME BreakerInv, [BreakerNext]_BreakerVars PROVE BreakerInv'
  OBVIOUS
<1> USE BreakerAssumption DEF BreakerAssumption, BreakerInv, BreakerTypeOK, WindowInv, ClosedBelowThreshold, States
<1>1. ASSUME NEW r \in Requests, CheckClosed(r) PROVE BreakerInv'
  BY <1>1 DEF CheckClosed
<1>2. ASSUME NEW r \in Requests, CheckProbe(r) PROVE BreakerInv'
  BY <1>2 DEF CheckProbe
<1>3. ASSUME NEW r \in Requests, CheckFastFail(r) PROVE BreakerInv'
  BY <1>3 DEF CheckFastFail, BreakerVars
<1>4. ASSUME NEW r \in Requests, Finish(r) PROVE BreakerInv'
  <2>1. CASE RecordSuccess
    <3>1. /\ state' \in States /\ failures' \in 0 .. MaxFailures
          /\ WindowInv' /\ ClosedBelowThreshold'
      BY <1>4, <2>1 DEF Finish, RecordSuccess
    <3>2. cooled' \in BOOLEAN /\ probe' \in BOOLEAN
      BY <2>1, Zenon DEF RecordSuccess
    <3> QED
      BY <1>4, <3>1, <3>2, Zenon DEF Finish
  <2>2. CASE RecordFailure
    <3>1. /\ state' \in States /\ failures' \in 0 .. MaxFailures
          /\ WindowInv' /\ ClosedBelowThreshold'
      BY <1>4, <2>2 DEF Finish, RecordFailure, Saturated
    <3>2. cooled' \in BOOLEAN /\ probe' \in BOOLEAN
      BY <2>2, Zenon DEF RecordFailure
    <3> QED
      BY <1>4, <3>1, <3>2, Zenon DEF Finish
  <2>3. CASE UNCHANGED <<state, failures, cooled, probe>>
    BY <1>4, <2>3 DEF Finish
  <2> QED
    BY Zenon, <1>4, <2>1, <2>2, <2>3 DEF Finish
<1>5. CASE Cooldown
  BY <1>5 DEF Cooldown
<1>6. CASE UNCHANGED BreakerVars
  BY <1>6 DEF BreakerVars
<1> QED
  BY Zenon, <1>1, <1>2, <1>3, <1>4, <1>5, <1>6 DEF BreakerNext

(* A HALF_OPEN window admits at most one request (check()'s probe flag).   *)
THEOREM BreakerOneProbe == BreakerSpec => []OneProbePerWindow
<1>1. BreakerInv => OneProbePerWindow
  <2> SUFFICES ASSUME BreakerInv, state = "HALF_OPEN" PROVE Cardinality(probes) <= 1
    BY DEF OneProbePerWindow
  <2>1. PICK r \in Requests : probes = {r}
    BY DEF BreakerInv, WindowInv
  <2>2. Cardinality({r}) = 1
    BY FS_Singleton
  <2> QED
    BY <2>1, <2>2
<1> QED
  BY <1>1, InitBreakerInv, NextBreakerInv, PTL DEF BreakerSpec

(* A closed circuit has counted fewer failures than the threshold.         *)
THEOREM BreakerClosedBelow == BreakerSpec => []ClosedBelowThreshold
<1>1. BreakerInv => ClosedBelowThreshold
  BY DEF BreakerInv
<1> QED
  BY <1>1, InitBreakerInv, NextBreakerInv, PTL DEF BreakerSpec
==============================================================================
