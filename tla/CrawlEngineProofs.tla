------------------------- MODULE CrawlEngineProofs -------------------------
(***************************************************************************)
(* Proofs about CrawlEngine, for every site, sitemap, limit and            *)
(* concurrency.                                                            *)
(*                                                                         *)
(* _seen is not a set of fetched URLs: a failing URL leaves it before its  *)
(* backoff, and another page may bring it back meanwhile.  What bounds the *)
(* fetches is Tried, which relates _seen to the retry count; what settles  *)
(* a URL once is InFlight with Settled: a task at work holds its URL in    *)
(* _seen.  Accounted needs to know where an attempted URL is while it is   *)
(* neither a page nor an error (Owed), that retries stand at the front of  *)
(* the queue, and that they count against max_pages (Reserved); and that   *)
(* nothing but the truncated sitemap is before the start URL (Reaches).    *)
(* What a cancelled job still fetches is bounded with the tasks that have  *)
(* not begun to (Ceasing).                                                 *)
(***************************************************************************)
EXTENDS CrawlEngine, WellFoundedInduction, TLAPS

Working == {i \in Slots : task[i].pc \in AtWork}
Known   == Range(pages) \cup Range(errors)

\* A URL has been fetched once more than it was retried, at most, and only then
\* is it in _seen.
Tried ==
  \A u \in Urls : /\ attempts[u] <= retries[u] + 1
                  /\ u \notin seen => attempts[u] <= retries[u]

\* A task at work has its URL for itself, in _seen and not settled.
InFlight ==
  /\ \A i \in Working : task[i].url \in seen \ Known /\ attempts[task[i].url] > 0
  /\ \A i, j \in Working : task[i].url = task[j].url => i = j

\* Each URL is one page or one error.
Settled ==
  /\ Known \subseteq seen
  /\ IsInjective(pages) /\ IsInjective(errors) /\ Range(pages) \cap Range(errors) = {}
  /\ \A p, q \in Range(pages) : p # q /\ Content[p] = Content[q] => Content[p] = NoHash

\* The tasks at work have room for their pages.
Limited == opt.max_pages > 0 => Len(pages) + Cardinality(Working) <= opt.max_pages

\* The tasks that have not asked for their page.
Waiting == {i \in Slots : task[i].pc \in {"start", "held"}}

\* What a cancelled job may still fetch.  A job may be cancelled between the read
\* of its status and the dispatch, but no task runs there; and a crawl that has
\* stopped does not dispatch.
Ceasing ==
  /\ late + Cardinality(Waiting) <= Concurrency
  /\ main = "dispatch" \/ status # "cancelled" => late = 0
  /\ stopped => main \in {"drain", "returned", "raised"}

\* URLs that were tried and are neither a page nor an error.
Unsettled == {u \in Urls : attempts[u] > 0 /\ u \notin Known}

Backing == {i \in Slots : task[i].pc = "backoff"}

\* u is to be retried, and only retries are before it in the queue.
Queued(u) ==
  \E k \in 1..Len(queue) : /\ queue[k].url = u
                           /\ \A j \in 1..k : attempts[queue[j].url] > 0

\* Where an unsettled URL is, unless the crawl was abandoned or stopped.
Owed ==
  /\ main \notin {"raised", "aborted"} /\ ~stopped => \A u \in Unsettled :
       \/ \E i \in Working : task[i].url = u
       \/ u \notin seen /\ (Queued(u) \/ \E i \in Backing : task[i].url = u)
  /\ \A i \in Backing : attempts[task[i].url] > 0
  /\ \A u \in Excluded : attempts[u] = 0
  /\ \A u \in Known : attempts[u] > 0

\* A retry has a page reserved.
Reserved ==
  /\ opt.max_pages > 0 => Len(pages) + Cardinality(Unsettled) <= opt.max_pages
  /\ main \in {"drain", "returned"} /\ ~stopped => Unsettled = {}

\* The start URL was filtered or tried, or it comes after the truncated sitemap.
Reaches ==
  /\ \A u \in seen : attempts[u] > 0 \/ u \in Range(filtered)
  /\ \/ attempts[Start] > 0 \/ Start \in Range(filtered)
     \/ /\ \A u \in Urls : attempts[u] > 0 => u \in Range(Truncated(Sitemap))
        /\ \E k \in 1..Len(queue) :
             /\ queue[k].url = Start
             /\ \A j \in 1..(k - 1) : queue[j].url \in Range(Truncated(Sitemap))

\* run() does not leave the loop by itself before the start URL.
Arrives ==
  main \in {"drain", "returned"} /\ ~stopped /\ opt.max_pages # 1 =>
    attempts[Start] > 0 \/ Start \in Range(filtered)

\* Nothing is fetched before the queue is seeded.
Unstarted == main = "seed" => \A u \in Urls : attempts[u] = 0

IInv ==
  /\ TypeOK /\ Tried /\ InFlight /\ Settled /\ Limited /\ Ceasing /\ Owed /\ Reserved
  /\ Reaches /\ Arrives /\ Unstarted

-----------------------------------------------------------------------------
(***************************************************************************)
(* Sequences.                                                              *)
(***************************************************************************)
LEMMA Least ==
    ASSUME NEW T, T \subseteq Nat, T # {}
    PROVE  \E x \in T : \A y \in T : x <= y
  <1>1. PICK x \in T : \A y \in T : ~(<<y, x>> \in OpToRel(<, Nat))
    BY Zenon, WFMin, NatLessThanWellFounded
  <1>2. \A y \in T : y < x => <<y, x>> \in OpToRel(<, Nat)
    BY Zenon DEF OpToRel
  <1>3. \A y \in T : ~(y < x)
    BY Zenon, <1>1, <1>2
  <1> QED
    BY <1>3

\* Kept is well defined: its recursive function exists and returns sequences.
KeptStep(f, s, T, i) ==
    IF i = 0 THEN <<>> ELSE IF s[i] \in T THEN Append(f[i - 1], s[i]) ELSE f[i - 1]

LEMMA KeptExists ==
    ASSUME NEW S, NEW s \in Seq(S), NEW T
    PROVE  \E f : f = [i \in 0..Len(s) |-> KeptStep(f, s, T, i)]
  <1> DEFINE P(n) == \E f \in [0..n -> Seq(S)] : \A i \in 0..n : f[i] = KeptStep(f, s, T, i)
             Bad == {n \in 0..Len(s) : ~P(n)}
  <1>1. P(0)
    <2> DEFINE f == [i \in 0..0 |-> <<>>]
    <2>1. f \in [0..0 -> Seq(S)] /\ \A i \in 0..0 : f[i] = KeptStep(f, s, T, i)
      BY DEF KeptStep
    <2> QED
      BY Zenon, <2>1
  <1>2. ASSUME NEW n \in 0..Len(s), n # 0, P(n - 1) PROVE P(n)
    <2>1. PICK f \in [0..(n - 1) -> Seq(S)] : \A i \in 0..(n - 1) : f[i] = KeptStep(f, s, T, i)
      BY Zenon, <1>2
    <2> DEFINE g == [i \in 0..n |-> IF i = n THEN KeptStep(f, s, T, n) ELSE f[i]]
    <2>2. n \in 1..Len(s) /\ s[n] \in S /\ f[n - 1] \in Seq(S) /\ n - 1 \in 0..(n - 1)
      BY <1>2
    <2>3. KeptStep(f, s, T, n) \in Seq(S)
      BY <2>2 DEF KeptStep
    <2>4. g \in [0..n -> Seq(S)]
      BY <2>3
    <2>5. \A i \in 0..n : KeptStep(g, s, T, i) = KeptStep(f, s, T, i)
      <3>1. \A i \in 0..n : i # 0 => i - 1 \in 0..n /\ i - 1 # n
        BY <1>2
      <3>2. \A i \in 0..n : i # 0 => g[i - 1] = f[i - 1]
        BY Zenon, <3>1
      <3> HIDE DEF g
      <3> QED
        BY Zenon, <3>2 DEF KeptStep
    <2>6. \A i \in 0..n : g[i] = KeptStep(g, s, T, i)
      BY <2>1, <2>5
    <2> QED
      BY Zenon, <2>4, <2>6
  <1> HIDE DEF P
  <1>3. Bad = {}
    <2> SUFFICES ASSUME Bad # {} PROVE FALSE
      BY Zenon
    <2>1. Bad \subseteq Nat
      OBVIOUS
    <2>2. PICK n \in Bad : \A m \in Bad : n <= m
      BY Zenon, <2>1, Least
    <2>3. n \in 0..Len(s) /\ ~P(n) /\ n # 0
      BY Zenon, <1>1
    <2>4. n - 1 \in 0..Len(s) /\ n - 1 \notin Bad
      BY <2>2, <2>3
    <2> QED
      BY Zenon, <1>2, <2>3, <2>4
  <1>4. P(Len(s))
    BY <1>3
  <1>5. PICK f \in [0..Len(s) -> Seq(S)] : \A i \in 0..Len(s) : f[i] = KeptStep(f, s, T, i)
    BY Zenon, <1>4 DEF P
  <1>6. f = [i \in 0..Len(s) |-> KeptStep(f, s, T, i)]
    BY Zenon, <1>5
  <1> QED
    BY Zenon, <1>6

LEMMA KeptType ==
    ASSUME NEW S, NEW s \in Seq(S), NEW T
    PROVE  Kept(s, T) \in Seq(S)
  <1> DEFINE f == CHOOSE f : f = [i \in 0..Len(s) |-> KeptStep(f, s, T, i)]
  <1>1. f = [i \in 0..Len(s) |-> KeptStep(f, s, T, i)]
    BY SMTT(20), KeptExists
  <1>2. Kept(s, T) = f[Len(s)]
    BY Zenon DEF Kept, KeptStep
  <1> HIDE DEF f
  <1> DEFINE Bad == {n \in 0..Len(s) : f[n] \notin Seq(S)}
  <1>3. Bad = {}
    <2> SUFFICES ASSUME Bad # {} PROVE FALSE
      BY Zenon
    <2>1. Bad \subseteq Nat
      OBVIOUS
    <2>2. PICK n \in Bad : \A m \in Bad : n <= m
      BY Zenon, <2>1, Least
    <2>3. n \in 0..Len(s) /\ f[n] \notin Seq(S) /\ f[n] = KeptStep(f, s, T, n)
      BY Zenon, <1>1
    <2>4. n # 0
      BY <2>3 DEF KeptStep
    <2>5. n - 1 \in 0..Len(s) /\ n - 1 \notin Bad /\ n \in 1..Len(s)
      BY <2>2, <2>3, <2>4
    <2>6. f[n - 1] \in Seq(S) /\ s[n] \in S
      BY <2>5
    <2> QED
      BY <2>3, <2>4, <2>6 DEF KeptStep
  <1> QED
    BY <1>2, <1>3

LEMMA RangeTypes ==
    ASSUME NEW S, NEW s \in Seq(S)
    PROVE  /\ Range(s) = {s[i] : i \in 1..Len(s)} /\ Range(s) \subseteq S
           /\ s \in Seq(Range(s))
  BY DEF Range

LEMMA Appended ==
    ASSUME NEW S, NEW s \in Seq(S), NEW x \in S
    PROVE  /\ Append(s, x) \in Seq(S) /\ Len(Append(s, x)) = Len(s) + 1
           /\ Range(Append(s, x)) = Range(s) \cup {x}
           /\ IsInjective(s) /\ x \notin Range(s) => IsInjective(Append(s, x))
  <1>1. /\ Append(s, x) \in Seq(S) /\ Len(Append(s, x)) = Len(s) + 1 /\ Len(s) \in Nat
        /\ \A i \in 1..Len(s) : Append(s, x)[i] = s[i]
        /\ Append(s, x)[Len(s) + 1] = x
        /\ DOMAIN Append(s, x) = 1..(Len(s) + 1) /\ DOMAIN s = 1..Len(s)
    OBVIOUS
  <1>2. Range(Append(s, x)) = Range(s) \cup {x}
    <2>1. Range(Append(s, x)) \subseteq Range(s) \cup {x}
      <3> SUFFICES ASSUME NEW i \in 1..(Len(s) + 1) PROVE Append(s, x)[i] \in Range(s) \cup {x}
        BY Zenon, <1>1 DEF Range
      <3>1. CASE i \in 1..Len(s)
        BY Zenon, <1>1, <3>1 DEF Range
      <3>2. CASE i = Len(s) + 1
        BY Zenon, <1>1, <3>2
      <3> QED
        BY <1>1, <3>1, <3>2
    <2>2. x \in Range(Append(s, x))
      BY <1>1 DEF Range
    <2>3. Range(s) \subseteq Range(Append(s, x))
      <3> SUFFICES ASSUME NEW i \in 1..Len(s) PROVE s[i] \in Range(Append(s, x))
        BY Zenon, <1>1 DEF Range
      <3> QED
        BY <1>1 DEF Range
    <2> QED
      BY Zenon, <2>1, <2>2, <2>3
  <1>3. ASSUME IsInjective(s), x \notin Range(s) PROVE IsInjective(Append(s, x))
    <2> SUFFICES ASSUME NEW i \in 1..(Len(s) + 1), NEW j \in 1..(Len(s) + 1),
                        Append(s, x)[i] = Append(s, x)[j]
                 PROVE  i = j
      BY Zenon, <1>1 DEF IsInjective
    <2>1. \A k \in 1..Len(s) : s[k] # x
      BY Zenon, <1>1, <1>3 DEF Range
    <2>2. CASE i \in 1..Len(s) /\ j \in 1..Len(s)
      BY Zenon, <1>1, <1>3, <2>2 DEF IsInjective
    <2>3. CASE i = Len(s) + 1 \/ j = Len(s) + 1
      BY <1>1, <2>1, <2>3
    <2> QED
      BY <1>1, <2>2, <2>3
  <1> QED
    BY Zenon, <1>1, <1>2, <1>3

LEMMA Joined ==
    ASSUME NEW S, NEW s \in Seq(S), NEW t \in Seq(S)
    PROVE  /\ s \o t \in Seq(S) /\ Len(s \o t) = Len(s) + Len(t)
           /\ \A k \in 1..Len(s) : (s \o t)[k] = s[k]
           /\ \A k \in 1..Len(t) : (s \o t)[Len(s) + k] = t[k]
           /\ Range(s \o t) = Range(s) \cup Range(t)
           /\ IsInjective(s) /\ IsInjective(t) /\ Range(s) \cap Range(t) = {}
                => IsInjective(s \o t)
  <1>1. /\ s \o t \in Seq(S) /\ Len(s \o t) = Len(s) + Len(t)
        /\ \A k \in 1..Len(s) : (s \o t)[k] = s[k]
        /\ \A k \in (Len(s) + 1)..(Len(s) + Len(t)) : (s \o t)[k] = t[k - Len(s)]
        /\ DOMAIN (s \o t) = 1..(Len(s) + Len(t)) /\ DOMAIN s = 1..Len(s) /\ DOMAIN t = 1..Len(t)
        /\ Len(s) \in Nat /\ Len(t) \in Nat
    OBVIOUS
  <1>2. \A k \in 1..Len(t) : (s \o t)[Len(s) + k] = t[k]
    <2> SUFFICES ASSUME NEW k \in 1..Len(t) PROVE (s \o t)[Len(s) + k] = t[k]
      BY Zenon
    <2>1. Len(s) + k \in (Len(s) + 1)..(Len(s) + Len(t)) /\ (Len(s) + k) - Len(s) = k
      BY <1>1
    <2> QED
      BY Zenon, <1>1, <2>1
  <1>3. Range(s \o t) = Range(s) \cup Range(t)
    <2>1. Range(s \o t) \subseteq Range(s) \cup Range(t)
      <3> SUFFICES ASSUME NEW k \in 1..(Len(s) + Len(t)) PROVE (s \o t)[k] \in Range(s) \cup Range(t)
        BY <1>1 DEF Range
      <3>1. CASE k \in 1..Len(s)
        BY Zenon, <1>1, <3>1 DEF Range
      <3>2. CASE k \in (Len(s) + 1)..(Len(s) + Len(t))
        <4>1. k - Len(s) \in 1..Len(t)
          BY <1>1, <3>2
        <4> QED
          BY Zenon, <1>1, <3>2, <4>1 DEF Range
      <3> QED
        BY <1>1, <3>1, <3>2
    <2>2. Range(s) \subseteq Range(s \o t)
      <3> SUFFICES ASSUME NEW k \in 1..Len(s) PROVE s[k] \in Range(s \o t)
        BY Zenon, <1>1 DEF Range
      <3>1. k \in DOMAIN (s \o t)
        BY <1>1
      <3> QED
        BY Zenon, <1>1, <3>1 DEF Range
    <2>3. Range(t) \subseteq Range(s \o t)
      <3> SUFFICES ASSUME NEW k \in 1..Len(t) PROVE t[k] \in Range(s \o t)
        BY Zenon, <1>1 DEF Range
      <3>1. Len(s) + k \in DOMAIN (s \o t)
        BY <1>1
      <3> QED
        BY Zenon, <1>2, <3>1 DEF Range
    <2> QED
      BY Zenon, <2>1, <2>2, <2>3
  <1>4. ASSUME IsInjective(s), IsInjective(t), Range(s) \cap Range(t) = {}
        PROVE  IsInjective(s \o t)
    <2> SUFFICES ASSUME NEW i \in 1..(Len(s) + Len(t)), NEW j \in 1..(Len(s) + Len(t)),
                        (s \o t)[i] = (s \o t)[j]
                 PROVE  i = j
      BY Zenon, <1>1 DEF IsInjective
    <2>1. \A k \in (Len(s) + 1)..(Len(s) + Len(t)) : k - Len(s) \in 1..Len(t)
      BY <1>1
    <2>2. CASE i \in 1..Len(s) /\ j \in 1..Len(s)
      BY Zenon, <1>1, <1>4, <2>2 DEF IsInjective
    <2>3. CASE i \notin 1..Len(s) /\ j \notin 1..Len(s)
      <3>1. i \in (Len(s) + 1)..(Len(s) + Len(t)) /\ j \in (Len(s) + 1)..(Len(s) + Len(t))
        BY <1>1, <2>3
      <3>2. t[i - Len(s)] = t[j - Len(s)]
        BY Zenon, <1>1, <3>1
      <3>3. i - Len(s) = j - Len(s)
        BY Zenon, <1>1, <1>4, <2>1, <3>1, <3>2 DEF IsInjective
      <3> QED
        BY <1>1, <3>3
    <2>4. ASSUME NEW k \in 1..Len(s), NEW l \in (Len(s) + 1)..(Len(s) + Len(t)),
                 (s \o t)[k] = (s \o t)[l]
          PROVE  FALSE
      <3>1. s[k] \in Range(s) /\ t[l - Len(s)] \in Range(t)
        BY Zenon, <1>1, <2>1 DEF Range
      <3> QED
        BY Zenon, <1>1, <1>4, <2>4, <3>1
    <2> QED
      BY <1>1, <2>2, <2>3, <2>4
  <1> QED
    BY Zenon, <1>1, <1>2, <1>3, <1>4

-----------------------------------------------------------------------------
(***************************************************************************)
(* Types, and what the sets of tasks become when slot i changes.           *)
(***************************************************************************)
Steps   == {"idle", "start", "held", "scrape", "backoff", "html", "paged", "done", "fatal"}
Tasks   == [pc : Steps, url : Urls, depth : 0..MaxDepth, sm : BOOLEAN, html : BOOLEAN]
Queries == [url : Urls, depth : 0..MaxDepth, sm : BOOLEAN]
Places  == {"seed", "loop", "dispatch", "wait", "drain", "returned", "aborted", "raised"}
Options == [max_pages : Limits, sitemap_mode : {"include", "skip", "only"}]

LEMMA Types ==
    TypeOK <=> /\ opt \in Options /\ main \in Places /\ queue \in Seq(Queries)
               /\ seen \subseteq Urls /\ retries \in [Urls -> 0..MaxRetries]
               /\ task \in [Slots -> Tasks]
               /\ pages \in Seq(Urls) /\ errors \in Seq(Urls) /\ filtered \in Seq(Urls)
               /\ status \in {"processing", "cancelled"} /\ stopped \in BOOLEAN
               /\ attempts \in [Urls -> Nat] /\ late \in Nat
  BY Zenon DEF TypeOK, Options, Places, Queries, Tasks, Steps

LEMMA TypesNext ==
    TypeOK' <=> /\ opt' \in Options /\ main' \in Places /\ queue' \in Seq(Queries)
                /\ seen' \subseteq Urls /\ retries' \in [Urls -> 0..MaxRetries]
                /\ task' \in [Slots -> Tasks]
                /\ pages' \in Seq(Urls) /\ errors' \in Seq(Urls) /\ filtered' \in Seq(Urls)
                /\ status' \in {"processing", "cancelled"} /\ stopped' \in BOOLEAN
                /\ attempts' \in [Urls -> Nat] /\ late' \in Nat
  BY Zenon DEF TypeOK, Options, Places, Queries, Tasks, Steps

LEMMA LimitType ==
    ASSUME TypeOK
    PROVE  opt.max_pages \in Nat
  <1>1. opt \in Options
    BY Zenon, Types
  <1> QED
    BY Zenon, <1>1, CrawlConstants DEF Options

LEMMA IdleTask == Idle \in Tasks /\ Idle.pc = "idle"
  BY CrawlConstants DEF Idle, Tasks, Steps

LEMMA Entries ==
    ASSUME NEW u \in Urls, NEW d \in 0..MaxDepth, NEW sm \in BOOLEAN
    PROVE  Entry(u, d, sm) \in Queries /\ Entry(u, d, sm).url = u
  BY Zenon DEF Entry, Queries

LEMMA EntrySeq ==
    ASSUME NEW s \in Seq(Urls), NEW d \in 0..MaxDepth, NEW sm \in BOOLEAN, NEW q,
           q = [k \in 1..Len(s) |-> Entry(s[k], d, sm)]
    PROVE  q \in Seq(Queries) /\ Len(q) = Len(s) /\ \A k \in 1..Len(s) : q[k].url = s[k]
  <1>1. ASSUME NEW k \in 1..Len(s) PROVE q[k] \in Queries /\ q[k].url = s[k]
    <2>1. s[k] \in Urls /\ q[k] = Entry(s[k], d, sm)
      OBVIOUS
    <2> QED
      BY Zenon, <2>1, Entries
  <1>2. Len(s) \in Nat /\ q \in [1..Len(s) -> Queries]
    BY <1>1
  <1>3. q \in Seq(Queries) /\ Len(q) = Len(s)
    BY <1>2
  <1> QED
    BY Zenon, <1>1, <1>3

Slot(i) ==
    /\ task' \in [Slots -> Tasks]
    /\ \A j \in Slots \ {i} : task'[j] = task[j]

LEMMA SlotSets ==
    ASSUME NEW i \in Slots, Slot(i)
    PROVE  /\ Working' = IF task'[i].pc \in AtWork
                         THEN Working \cup {i} ELSE Working \ {i}
           /\ Backing' = IF task'[i].pc = "backoff" THEN Backing \cup {i} ELSE Backing \ {i}
  <1>1. Working' = IF task'[i].pc \in AtWork THEN Working \cup {i} ELSE Working \ {i}
    BY Zenon DEF Working, Slot, AtWork
  <1>2. Backing' = IF task'[i].pc = "backoff" THEN Backing \cup {i} ELSE Backing \ {i}
    BY Zenon DEF Backing, Slot
  <1> QED
    BY <1>1, <1>2

LEMMA TaskMoves ==
    ASSUME TypeOK, NEW i \in Slots, NEW pc \in Steps, task' = Goto(i, pc)
    PROVE  Slot(i) /\ task'[i].pc = pc /\ task'[i].url = task[i].url
  <1>1. task \in [Slots -> Tasks]
    BY Zenon, Types
  <1> QED
    BY Zenon, <1>1 DEF Goto, Slot, Tasks

-----------------------------------------------------------------------------
(***************************************************************************)
(* The steps of a scrape task.                                             *)
(***************************************************************************)
\* The URL ends as an error.
Reports(i) ==
    /\ i \in Working /\ task'[i].pc \in {"done", "fatal"}
    /\ errors' = Append(errors, task[i].url)
    /\ UNCHANGED <<queue, seen, retries, pages>>

\* The URL leaves _seen and waits for another attempt.
Retries(i) ==
    /\ i \in Working /\ task'[i].pc = "backoff" /\ task'[i].url = task[i].url
    /\ retries[task[i].url] < MaxRetries
    /\ retries' = [retries EXCEPT ![task[i].url] = @ + 1]
    /\ seen' = seen \ {task[i].url}
    /\ UNCHANGED <<queue, pages, errors>>

\* The URL is put at the front of the queue.
Requeues(i) ==
    /\ i \in Backing /\ task'[i].pc = "done"
    /\ \E e \in Queries : e.url = task[i].url /\ queue' = <<e>> \o queue
    /\ UNCHANGED <<seen, retries, pages, errors>>

\* The task goes on with its URL.
Fetches(i) ==
    /\ i \in Working /\ task'[i].pc \in AtWork /\ task'[i].url = task[i].url
    /\ UNCHANGED <<queue, seen, retries, pages, errors>>

\* The crawl was stopped before the task began.
Quits(i) ==
    /\ i \in Working /\ stopped /\ task'[i].pc = "done"
    /\ UNCHANGED <<queue, seen, retries, pages, errors>>

\* The URL ends as a page.
Retains(i) ==
    /\ i \in Working /\ task'[i].pc = "paged"
    /\ \A p \in Range(pages) : Content[task[i].url] # NoHash => Content[p] # Content[task[i].url]
    /\ pages' = Append(pages, task[i].url)
    /\ UNCHANGED <<queue, seen, retries, errors>>

\* The links of a page are put at the end of the queue.
Discovers(i) ==
    /\ task[i].pc = "paged" /\ task'[i].pc = "done"
    /\ \E c \in Seq(Queries) : queue' = queue \o c
    /\ UNCHANGED <<seen, retries, pages, errors>>

\* Asking for the page ends the wait.
Asks(i) ==
    /\ task'[i].pc \in {"start", "held"} => i \in Waiting /\ late' = late
    /\ late' = late \/ (late' = late + 1 /\ status = "cancelled" /\ i \in Waiting)

TaskTurn(i) ==
    /\ Slot(i) /\ Yielded /\ UNCHANGED <<opt, main, filtered, status, stopped, attempts>>
    /\ Asks(i)
    /\ \/ Reports(i) \/ Retries(i) \/ Requeues(i) \/ Fetches(i) \/ Quits(i) \/ Retains(i)
       \/ Discovers(i)

LEMMA ChildrenType ==
    ASSUME TypeOK, NEW i \in Slots, task[i].depth < MaxDepth
    PROVE  Children(i) \in Seq(Queries)
  <1> DEFINE new == Kept(Links[task[i].url], Urls \ seen)
  <1>1. task[i].url \in Urls /\ task[i].depth + 1 \in 0..MaxDepth
    BY SMTT(20), Types, CrawlConstants DEF Tasks
  <1>2. new \in Seq(Urls)
    BY Zenon, <1>1, KeptType, CrawlConstants
  <1>3. Children(i) = [k \in 1..Len(new) |-> Entry(new[k], task[i].depth + 1, FALSE)]
    BY Zenon DEF Children
  <1> HIDE DEF new
  <1> QED
    BY Zenon, <1>1, <1>2, <1>3, EntrySeq

LEMMA TaskTurns ==
    ASSUME TypeOK, NEW i \in Slots, Scrape(i)
    PROVE  TaskTurn(i)
  <1>0. /\ "done" \in Steps /\ "fatal" \in Steps /\ "backoff" \in Steps /\ "html" \in Steps
        /\ "paged" \in Steps /\ "held" \in Steps /\ "scrape" \in Steps
    BY Zenon DEF Steps
  <1>1. task[i] \in Tasks /\ task[i].url \in Urls
    BY Zenon, Types DEF Tasks
  <1>2. CASE GiveUp(i) \/ FailStart(i) \/ FailForGood(i)
    <2>1. PICK pc \in {"done", "fatal"} : task' = Goto(i, pc)
      BY Zenon, <1>2 DEF GiveUp, FailStart, FailForGood
    <2>2. Slot(i) /\ task'[i].pc = pc
      BY Zenon, <1>0, <2>1, TaskMoves
    <2>3. i \in Working /\ Yielded
      BY Zenon, <1>2 DEF GiveUp, FailStart, FailForGood, Scraping, At, Working, AtWork
    <2> QED
      BY Zenon, <1>2, <2>2, <2>3 DEF TaskTurn, Asks, history, Reports, GiveUp, FailStart, FailForGood
  <1>3. CASE FailRetry(i)
    <2>1. Slot(i) /\ task'[i].pc = "backoff" /\ task'[i].url = task[i].url
      BY Zenon, <1>0, <1>3, TaskMoves DEF FailRetry
    <2>2. i \in Working /\ Yielded
      BY Zenon, <1>3 DEF FailRetry, Scraping, At, Working, AtWork
    <2> QED
      BY Zenon, <1>3, <2>1, <2>2 DEF TaskTurn, Asks, history, Retries, FailRetry
  <1>4. CASE BackoffEnds(i)
    <2>1. Slot(i) /\ task'[i].pc = "done"
      BY Zenon, <1>0, <1>4, TaskMoves DEF BackoffEnds
    <2>2. i \in Backing /\ Yielded
      BY Zenon, <1>4 DEF BackoffEnds, At, Backing
    <2>3. /\ Entry(task[i].url, task[i].depth, task[i].sm) \in Queries
          /\ Entry(task[i].url, task[i].depth, task[i].sm).url = task[i].url
      BY Zenon, <1>1, Entries DEF Tasks
    <2> QED
      BY Zenon, <1>4, <2>1, <2>2, <2>3 DEF TaskTurn, Asks, history, Requeues, BackoffEnds
  <1>5. CASE Scraped(i)
    <2>1. Slot(i) /\ task'[i].pc = "html" /\ task'[i].url = task[i].url
      BY Zenon, <1>0, <1>5, TaskMoves DEF Scraped
    <2>2. i \in Working /\ Yielded
      BY Zenon, <1>5 DEF Scraped, Scraping, At, Working, AtWork
    <2> QED
      BY Zenon, <1>5, <2>1, <2>2 DEF TaskTurn, Asks, AtWork, history, Fetches, Scraped
  <1>6. CASE HtmlFetched(i)
    <2>1. i \in Working /\ Yielded
      BY Zenon, <1>6 DEF HtmlFetched, At, Working, AtWork
    <2>2. PICK html \in BOOLEAN :
             IF DuplicateOf(task[i].url, html)
             THEN /\ errors' = Append(errors, task[i].url)
                  /\ task' = Goto(i, "done")
                  /\ UNCHANGED pages
             ELSE /\ pages' = Append(pages, task[i].url)
                  /\ task' = [task EXCEPT ![i].pc = "paged", ![i].html = html]
                  /\ UNCHANGED errors
      BY Zenon, <1>6 DEF HtmlFetched
    <2>3. UNCHANGED <<opt, main, queue, seen, retries, filtered, status, stopped, attempts, late>>
      BY Zenon, <1>6 DEF HtmlFetched, history
    <2>4. CASE DuplicateOf(task[i].url, html)
      <3>1. Slot(i) /\ task'[i].pc = "done"
        BY Zenon, <1>0, <2>2, <2>4, TaskMoves
      <3> QED
        BY Zenon, <2>1, <2>2, <2>3, <2>4, <3>1 DEF TaskTurn, Asks, Reports
    <2>5. CASE ~DuplicateOf(task[i].url, html)
      <3>1. task' = [task EXCEPT ![i].pc = "paged", ![i].html = html]
        BY Zenon, <2>2, <2>5
      <3>2. Slot(i) /\ task'[i].pc = "paged"
        <4>1. task \in [Slots -> Tasks]
          BY Zenon, Types
        <4> QED
          BY Zenon, <1>0, <3>1, <4>1 DEF Slot, Tasks
      <3>3. \A p \in Range(pages) :
               Content[task[i].url] # NoHash => Content[p] # Content[task[i].url]
        BY Zenon, <2>5 DEF DuplicateOf
      <3> QED
        BY Zenon, <2>1, <2>2, <2>3, <2>5, <3>2, <3>3 DEF TaskTurn, Asks, Retains
    <2> QED
      BY Zenon, <2>4, <2>5
  <1>7. CASE Discover(i)
    <2>1. Slot(i) /\ task'[i].pc = "done"
      BY Zenon, <1>0, <1>7, TaskMoves DEF Discover
    <2>2. task[i].pc = "paged" /\ Yielded
      BY Zenon, <1>7 DEF Discover, At
    <2>3. \E c \in Seq(Queries) : queue' = queue \o c
      <3>1. CASE queue' = queue
        <4>1. queue \o <<>> = queue /\ <<>> \in Seq(Queries)
          BY Types
        <4> QED
          BY Zenon, <3>1, <4>1
      <3>2. CASE task[i].depth < MaxDepth /\ queue' = queue \o Children(i)
        BY Zenon, <3>2, ChildrenType
      <3> QED
        BY Zenon, <1>7, <3>1, <3>2 DEF Discover
    <2> QED
      BY Zenon, <1>7, <2>1, <2>2, <2>3 DEF TaskTurn, Asks, history, Discovers, Discover
  <1>8. CASE Begin(i)
    <2>1. i \in Working /\ i \in Waiting /\ Yielded
      BY Zenon, <1>8 DEF Begin, At, Working, AtWork, Waiting
    <2>2. /\ UNCHANGED <<opt, main, queue, seen, retries, pages, errors, filtered, status, stopped,
                         attempts, late>>
          /\ task' = Goto(i, IF stopped THEN "done" ELSE "held")
      BY Zenon, <1>8 DEF Begin, history
    <2>3. CASE stopped
      <3>1. Slot(i) /\ task'[i].pc = "done"
        BY Zenon, <1>0, <2>2, <2>3, TaskMoves
      <3> QED
        BY Zenon, <2>1, <2>2, <2>3, <3>1 DEF TaskTurn, Asks, Quits
    <2>4. CASE ~stopped
      <3>1. Slot(i) /\ task'[i].pc = "held" /\ task'[i].url = task[i].url
        BY Zenon, <1>0, <2>2, <2>4, TaskMoves
      <3> QED
        BY Zenon, <2>1, <2>2, <3>1 DEF TaskTurn, Asks, Fetches, AtWork
    <2> QED
      BY Zenon, <2>3, <2>4
  <1>9. CASE Fetch(i)
    <2>1. i \in Working /\ i \in Waiting /\ Yielded
      BY Zenon, <1>9 DEF Fetch, At, Working, AtWork, Waiting
    <2>2. Slot(i) /\ task'[i].pc = "scrape" /\ task'[i].url = task[i].url
      BY Zenon, <1>0, <1>9, TaskMoves DEF Fetch
    <2> QED
      BY Zenon, <1>9, <2>1, <2>2 DEF Fetch, TaskTurn, Asks, Fetches, AtWork
  <1> QED
    BY Zenon, <1>2, <1>3, <1>4, <1>5, <1>6, <1>7, <1>8, <1>9 DEF Scrape

\* What a step of a task does to the settled URLs and to the queue.
LEMMA TaskFacts ==
    ASSUME TypeOK, InFlight, NEW i \in Slots, TaskTurn(i)
    PROVE  /\ task[i].url \in Urls
           /\ Working' = IF Fetches(i) THEN Working ELSE Working \ {i}
           /\ Backing' = IF Retries(i) THEN Backing \cup {i} ELSE Backing \ {i}
           /\ Known' = IF Reports(i) \/ Retains(i) THEN Known \cup {task[i].url} ELSE Known
           /\ Unsettled' = IF Reports(i) \/ Retains(i)
                           THEN Unsettled \ {task[i].url} ELSE Unsettled
           /\ \A j \in Working' : j \in Working /\ task'[j].url = task[j].url
           /\ seen' = IF Retries(i) THEN seen \ {task[i].url} ELSE seen
  <1>1. task[i].url \in Urls /\ pages \in Seq(Urls) /\ errors \in Seq(Urls)
    BY Zenon, Types DEF Tasks
  <1>4. Working' = IF Fetches(i) THEN Working ELSE Working \ {i}
    <2>1. task'[i].pc \in AtWork <=> Fetches(i)
      BY Zenon DEF AtWork, TaskTurn, Reports, Retries, Requeues, Fetches, Quits, Retains, Discovers
    <2>2. Fetches(i) => i \in Working
      BY Zenon DEF Fetches
    <2>3. Slot(i)
      BY Zenon DEF TaskTurn
    <2> QED
      BY <2>1, <2>2, <2>3, SlotSets
  <1>5. Backing' = IF Retries(i) THEN Backing \cup {i} ELSE Backing \ {i}
    <2>1. task'[i].pc = "backoff" <=> Retries(i)
      BY Zenon DEF AtWork, TaskTurn, Reports, Retries, Requeues, Fetches, Quits, Retains, Discovers
    <2>2. Slot(i)
      BY DEF TaskTurn
    <2> QED
      BY Zenon, <2>1, <2>2, SlotSets
  <1>6. /\ Range(Append(pages, task[i].url)) = Range(pages) \cup {task[i].url}
        /\ Range(Append(errors, task[i].url)) = Range(errors) \cup {task[i].url}
    BY <1>1, Appended
  <1>7. Known' = IF Reports(i) \/ Retains(i) THEN Known \cup {task[i].url} ELSE Known
    BY Zenon, <1>6
       DEF Known, TaskTurn, Reports, Retries, Requeues, Fetches, Quits, Retains, Discovers
  <1>8. Unsettled' = IF Reports(i) \/ Retains(i) THEN Unsettled \ {task[i].url} ELSE Unsettled
    BY Zenon, <1>7 DEF Unsettled, TaskTurn
  <1>9. \A j \in Working' : j \in Working /\ task'[j].url = task[j].url
    BY Zenon, <1>4 DEF TaskTurn, Slot, Fetches, Working
  <1>10. seen' = IF Retries(i) THEN seen \ {task[i].url} ELSE seen
    BY Zenon DEF TaskTurn, Reports, Retries, Requeues, Fetches, Quits, Retains, Discovers
  <1> QED
    BY Zenon, <1>1, <1>4, <1>5, <1>7, <1>8, <1>9, <1>10

LEMMA TaskTyped ==
    ASSUME TypeOK, NEW i \in Slots, TaskTurn(i)
    PROVE  TypeOK'
  <1>1. task[i].url \in Urls /\ pages \in Seq(Urls) /\ errors \in Seq(Urls)
    BY Zenon, Types DEF Tasks
  <1>2. pages' \in Seq(Urls) /\ errors' \in Seq(Urls)
    <2>1. Append(pages, task[i].url) \in Seq(Urls) /\ Append(errors, task[i].url) \in Seq(Urls)
      BY <1>1
    <2>2. /\ pages' = pages \/ pages' = Append(pages, task[i].url)
          /\ errors' = errors \/ errors' = Append(errors, task[i].url)
      BY Zenon DEF TaskTurn, Reports, Retries, Requeues, Fetches, Quits, Retains, Discovers
    <2> QED
      BY Zenon, <1>1, <2>1, <2>2
  <1>3. retries' \in [Urls -> 0..MaxRetries]
    <2>1. retries \in [Urls -> 0..MaxRetries]
      BY Zenon, Types
    <2>2. CASE Retries(i)
      <3>1. retries[task[i].url] + 1 \in 0..MaxRetries
        BY <1>1, <2>1, <2>2 DEF Retries, MaxRetries
      <3> QED
        BY Zenon, <1>1, <2>1, <2>2, <3>1 DEF Retries
    <2> QED
      BY Zenon, <2>1, <2>2 DEF TaskTurn, Reports, Requeues, Fetches, Quits, Retains, Discovers
  <1>4. queue' \in Seq(Queries)
    <2>1. queue \in Seq(Queries)
      BY Zenon, Types
    <2>2. CASE Requeues(i)
      <3>1. PICK e \in Queries : queue' = <<e>> \o queue
        BY Zenon, <2>2 DEF Requeues
      <3> QED
        BY <2>1, <3>1
    <2>3. CASE Discovers(i)
      <3>1. PICK c \in Seq(Queries) : queue' = queue \o c
        BY Zenon, <2>3 DEF Discovers
      <3> QED
        BY <2>1, <3>1
    <2> QED
      BY Zenon, <2>1, <2>2, <2>3 DEF TaskTurn, Reports, Retries, Fetches, Quits, Retains
  <1>5. seen' \subseteq Urls
    BY Zenon, Types DEF TaskTurn, Reports, Retries, Requeues, Fetches, Quits, Retains, Discovers
  <1>6. late' \in Nat
    <2>1. late \in Nat /\ late + 1 \in Nat
      BY Types
    <2> QED
      BY Zenon, <2>1 DEF TaskTurn, Asks
  <1> QED
    BY Zenon, <1>2, <1>3, <1>4, <1>5, <1>6, Types, TypesNext DEF TaskTurn, Slot

LEMMA TaskTried ==
    ASSUME TypeOK, Tried, InFlight, NEW i \in Slots, TaskTurn(i)
    PROVE  Tried'
  <1>1. retries \in [Urls -> 0..MaxRetries] /\ attempts \in [Urls -> Nat] /\ attempts' = attempts
    BY Zenon, Types DEF TaskTurn
  <1>2. CASE Retries(i)
    <2>1. /\ retries' = [retries EXCEPT ![task[i].url] = @ + 1]
          /\ seen' = seen \ {task[i].url} /\ task[i].url \in Urls
      BY Zenon, <1>2, TaskFacts DEF Retries
    <2> SUFFICES ASSUME NEW u \in Urls
                 PROVE  /\ attempts[u] <= retries'[u] + 1
                        /\ u \notin seen' => attempts[u] <= retries'[u]
      BY Zenon, <1>1 DEF Tried
    <2>2. CASE u = task[i].url
      <3>1. retries'[u] = retries[u] + 1
        BY Zenon, <1>1, <2>1, <2>2
      <3>2. attempts[u] \in Nat /\ retries[u] \in Nat /\ attempts[u] <= retries[u] + 1
        BY <1>1 DEF Tried, MaxRetries
      <3> QED
        BY <3>1, <3>2
    <2>3. CASE u # task[i].url
      BY Zenon, <1>1, <2>1, <2>3 DEF Tried
    <2> QED
      BY Zenon, <2>2, <2>3
  <1>3. CASE ~Retries(i)
    <2>1. retries' = retries /\ seen' = seen
      BY Zenon, <1>3 DEF TaskTurn, Reports, Requeues, Fetches, Quits, Retains, Discovers
    <2> QED
      BY Zenon, <1>1, <2>1 DEF Tried
  <1> QED
    BY Zenon, <1>2, <1>3

LEMMA TaskInFlight ==
    ASSUME TypeOK, InFlight, NEW i \in Slots, TaskTurn(i)
    PROVE  InFlight'
  <1>1. \A j \in Working' : j \in Working /\ task'[j].url = task[j].url
    BY Zenon, TaskFacts
  <1>2. \A j, k \in Working' : task'[j].url = task'[k].url => j = k
    BY Zenon, <1>1 DEF InFlight
  <1>3. ASSUME NEW j \in Working'
        PROVE  task'[j].url \in seen' \ Known' /\ attempts'[task'[j].url] > 0
    <2>1. task[j].url \in seen \ Known /\ attempts[task[j].url] > 0 /\ attempts' = attempts
      BY Zenon, <1>1 DEF InFlight, TaskTurn
    <2>2. CASE Fetches(i)
      <3>1. Known' = Known /\ seen' = seen
        BY Zenon, <2>2 DEF Fetches, Known
      <3> QED
        BY Zenon, <1>1, <2>1, <3>1
    <2>3. CASE ~Fetches(i)
      <3>1. j # i
        BY Zenon, <2>3, TaskFacts
      <3>2. i \in Working => task[j].url # task[i].url
        BY Zenon, <1>1, <3>1 DEF InFlight
      <3>3. Reports(i) \/ Retains(i) \/ Retries(i) => i \in Working
        BY Zenon DEF Reports, Retains, Retries
      <3> QED
        BY <1>1, <2>1, <3>2, <3>3, TaskFacts
    <2> QED
      BY Zenon, <2>2, <2>3
  <1> QED
    BY Zenon, <1>2, <1>3 DEF InFlight

LEMMA TaskSettled ==
    ASSUME TypeOK, InFlight, Settled, NEW i \in Slots, TaskTurn(i)
    PROVE  Settled'
  <1>1. task[i].url \in Urls /\ pages \in Seq(Urls) /\ errors \in Seq(Urls)
    BY Zenon, Types DEF Tasks
  <1>2. i \in Working => task[i].url \in seen \ Known
    BY Zenon DEF InFlight
  <1>3. Known' \subseteq seen'
    <2>1. Reports(i) \/ Retains(i) => i \in Working /\ ~Retries(i)
      BY Zenon DEF Reports, Retains, Retries
    <2>2. Retries(i) => i \in Working
      BY Zenon DEF Retries
    <2> QED
      BY <1>2, <2>1, <2>2, TaskFacts DEF Settled
  <1>4. CASE Reports(i)
    <2>1. errors' = Append(errors, task[i].url) /\ pages' = pages /\ i \in Working
      BY Zenon, <1>4 DEF Reports
    <2>2. task[i].url \notin Range(errors) /\ task[i].url \notin Range(pages)
      BY Zenon, <1>2, <2>1 DEF Known
    <2>3. IsInjective(errors') /\ Range(errors') = Range(errors) \cup {task[i].url}
      BY <1>1, <2>1, <2>2, Appended DEF Settled
    <2> QED
      BY Zenon, <1>3, <2>1, <2>2, <2>3 DEF Settled
  <1>5. CASE Retains(i)
    <2>1. pages' = Append(pages, task[i].url) /\ errors' = errors /\ i \in Working
      BY Zenon, <1>5 DEF Retains
    <2>2. task[i].url \notin Range(errors) /\ task[i].url \notin Range(pages)
      BY Zenon, <1>2, <2>1 DEF Known
    <2>3. IsInjective(pages') /\ Range(pages') = Range(pages) \cup {task[i].url}
      BY <1>1, <2>1, <2>2, Appended DEF Settled
    <2>4. \A p, q \in Range(pages') : p # q /\ Content[p] = Content[q] => Content[p] = NoHash
      BY Zenon, <1>5, <2>3 DEF Retains, Settled
    <2> QED
      BY Zenon, <1>3, <2>1, <2>2, <2>3, <2>4 DEF Settled
  <1>6. CASE ~Reports(i) /\ ~Retains(i)
    <2>1. pages' = pages /\ errors' = errors
      BY Zenon, <1>6 DEF TaskTurn, Retries, Requeues, Fetches, Quits, Discovers
    <2> QED
      BY Zenon, <1>3, <2>1 DEF Settled
  <1> QED
    BY Zenon, <1>4, <1>5, <1>6

\* The queue only grows: a retry at its front, links at its end.
Grows(e) ==
    \/ queue' = queue
    \/ e \in Queries /\ attempts[e.url] > 0 /\ queue' = <<e>> \o queue
    \/ \E c \in Seq(Queries) : queue' = queue \o c

LEMMA TaskGrows ==
    ASSUME TypeOK, Owed, NEW i \in Slots, TaskTurn(i)
    PROVE  \E e : Grows(e) /\ (Requeues(i) => e.url = task[i].url /\ queue' = <<e>> \o queue)
  <1>1. CASE Requeues(i)
    <2>1. PICK e \in Queries : e.url = task[i].url /\ queue' = <<e>> \o queue
      BY Zenon, <1>1 DEF Requeues
    <2>2. attempts[e.url] > 0
      BY Zenon, <1>1, <2>1 DEF Requeues, Owed
    <2> QED
      BY Zenon, <2>1, <2>2 DEF Grows
  <1>2. CASE ~Requeues(i)
    BY Zenon, <1>2 DEF Grows, TaskTurn, Reports, Retries, Fetches, Quits, Retains, Discovers
  <1> QED
    BY Zenon, <1>1, <1>2

LEMMA Pushed ==
    ASSUME queue \in Seq(Queries), NEW e \in Queries, queue' = <<e>> \o queue
    PROVE  /\ Len(queue') = Len(queue) + 1 /\ Len(queue) \in Nat /\ queue'[1] = e
           /\ \A k \in 1..Len(queue) : queue'[k + 1] = queue[k]
           /\ \A k \in 1..(Len(queue) + 1) : k # 1 =>
                 k - 1 \in 1..Len(queue) /\ queue'[k] = queue[k - 1]
  <1>1. <<e>> \in Seq(Queries) /\ Len(<<e>>) = 1 /\ <<e>>[1] = e /\ Len(queue) \in Nat
    OBVIOUS
  <1>2. /\ Len(queue') = 1 + Len(queue) /\ queue'[1] = e
        /\ \A k \in 1..Len(queue) : queue'[1 + k] = queue[k]
    BY <1>1, Joined
  <1>3. \A k \in 1..(Len(queue) + 1) : k # 1 => k - 1 \in 1..Len(queue) /\ 1 + (k - 1) = k
    BY <1>1
  <1>4. \A k \in 1..(Len(queue) + 1) : k # 1 => queue'[k] = queue[k - 1]
    BY Zenon, <1>2, <1>3
  <1>5. \A k \in 1..Len(queue) : queue'[k + 1] = queue[k]
    BY <1>1, <1>2
  <1> QED
    BY <1>1, <1>2, <1>3, <1>4, <1>5

LEMMA QueuedKept ==
    ASSUME TypeOK, NEW e, Grows(e), attempts' = attempts, NEW u, Queued(u)
    PROVE  Queued(u)'
  <1>0. queue \in Seq(Queries) /\ Len(queue) \in Nat
    BY Types
  <1>1. PICK k \in 1..Len(queue) : queue[k].url = u /\ \A j \in 1..k : attempts[queue[j].url] > 0
    BY Zenon DEF Queued
  <1>2. CASE queue' = queue
    BY Zenon, <1>1, <1>2 DEF Queued
  <1>3. CASE e \in Queries /\ attempts[e.url] > 0 /\ queue' = <<e>> \o queue
    <2>1. k + 1 \in 1..Len(queue') /\ queue'[k + 1].url = u
      BY <1>0, <1>1, <1>3, Pushed
    <2>2. ASSUME NEW j \in 1..(k + 1) PROVE attempts'[queue'[j].url] > 0
      <3>1. CASE j = 1
        BY Zenon, <1>0, <1>3, <3>1, Pushed
      <3>2. CASE j # 1
        <4>1. j - 1 \in 1..k /\ j \in 1..(Len(queue) + 1)
          BY <1>0, <3>2
        <4>2. queue'[j] = queue[j - 1]
          BY Zenon, <1>0, <1>3, <3>2, <4>1, Pushed
        <4> QED
          BY Zenon, <1>1, <4>1, <4>2
      <3> QED
        BY Zenon, <3>1, <3>2
    <2> QED
      BY Zenon, <2>1, <2>2 DEF Queued
  <1>4. ASSUME NEW c \in Seq(Queries), queue' = queue \o c PROVE Queued(u)'
    <2>1. Len(queue') = Len(queue) + Len(c) /\ \A j \in 1..Len(queue) : queue'[j] = queue[j]
      BY <1>0, <1>4, Joined
    <2>2. Len(c) \in Nat
      OBVIOUS
    <2>3. k \in 1..Len(queue') /\ queue'[k].url = u
      BY <1>0, <1>1, <2>1, <2>2
    <2>4. \A j \in 1..k : j \in 1..Len(queue)
      BY <1>0
    <2>5. \A j \in 1..k : attempts'[queue'[j].url] > 0
      BY Zenon, <1>1, <2>1, <2>4
    <2> QED
      BY Zenon, <2>3, <2>5 DEF Queued
  <1> QED
    BY Zenon, <1>2, <1>3, <1>4 DEF Grows

LEMMA TaskOwed ==
    ASSUME TypeOK, InFlight, Owed, NEW i \in Slots, TaskTurn(i)
    PROVE  Owed'
  <1>1. attempts' = attempts /\ main' = main /\ stopped' = stopped /\ Yielded
    BY Zenon DEF TaskTurn
  <1>2. PICK e : Grows(e) /\ (Requeues(i) => e.url = task[i].url /\ queue' = <<e>> \o queue)
    BY Zenon, TaskGrows
  <1>3. \A u : Queued(u) => Queued(u)'
    BY Zenon, <1>1, <1>2, QueuedKept
  <1>4. \A j \in Slots \ {i} : task'[j] = task[j]
    BY Zenon DEF TaskTurn, Slot
  <1>5. ASSUME ~stopped, NEW u \in Unsettled'
        PROVE  \/ \E j \in Working' : task'[j].url = u
               \/ u \notin seen' /\ (Queued(u)' \/ \E j \in Backing' : task'[j].url = u)
    <2>1. /\ u \in Unsettled
          /\ Reports(i) \/ Retains(i) => u # task[i].url
      BY TaskFacts
    <2>2. \/ \E j \in Working : task[j].url = u
          \/ u \notin seen /\ (Queued(u) \/ \E j \in Backing : task[j].url = u)
      BY Zenon, <1>1, <1>5, <2>1 DEF Owed, Yielded
    <2>3. CASE \E j \in Working : task[j].url = u
      <3>1. PICK j \in Working : task[j].url = u
        BY Zenon, <2>3
      <3>2. CASE j # i
        BY Zenon, <1>4, <3>1, <3>2, TaskFacts DEF Working
      <3>3. CASE j = i
        <4>1. CASE Fetches(i)
          BY Zenon, <3>1, <3>3, <4>1, TaskFacts DEF Fetches
        <4>2. CASE Retries(i)
          <5>1. i \in Backing' /\ task'[i].url = u /\ u \notin seen'
            BY Zenon, <3>1, <3>3, <4>2, TaskFacts DEF Retries
          <5> QED
            BY Zenon, <5>1
        <4>3. ~Requeues(i) /\ ~Discovers(i) /\ ~Quits(i)
          BY Zenon, <1>5, <3>1, <3>3 DEF Requeues, Discovers, Quits, Working, AtWork, Backing
        <4> QED
          BY Zenon, <2>1, <3>1, <3>3, <4>1, <4>2, <4>3 DEF TaskTurn
      <3> QED
        BY Zenon, <3>2, <3>3
    <2>4. CASE u \notin seen /\ Queued(u)
      <3>1. u \notin seen'
        BY Zenon, <2>4, TaskFacts
      <3> QED
        BY Zenon, <1>3, <2>4, <3>1
    <2>5. ASSUME NEW j \in Backing, u \notin seen, task[j].url = u
          PROVE  u \notin seen' /\ (Queued(u)' \/ \E k \in Backing' : task'[k].url = u)
      <3>1. u \notin seen'
        BY Zenon, <2>5, TaskFacts
      <3>2. CASE j # i
        <4>1. j \in Backing' /\ task'[j].url = u
          BY Zenon, <1>4, <2>5, <3>2, TaskFacts DEF Backing
        <4> QED
          BY Zenon, <3>1, <4>1
      <3>3. CASE j = i
        <4>1. Requeues(i)
          BY Zenon, <2>5, <3>3
             DEF TaskTurn, Reports, Retries, Fetches, Quits, Retains, Discovers, Working, AtWork,
                 Backing
        <4>2. /\ queue' = <<e>> \o queue /\ e.url = u /\ attempts[e.url] > 0
              /\ queue \in Seq(Queries)
          BY Zenon, <1>2, <2>5, <3>3, <4>1, Types DEF Owed
        <4>3. e \in Queries
          <5>1. PICK f \in Queries : queue' = <<f>> \o queue
            BY Zenon, <4>1 DEF Requeues
          <5>2. (<<e>> \o queue)[1] = e /\ (<<f>> \o queue)[1] = f
            BY <4>2
          <5> QED
            BY Zenon, <4>2, <5>1, <5>2
        <4>4. 1 \in 1..Len(queue') /\ queue'[1] = e
          BY <4>2, <4>3, Pushed
        <4>5. \A l \in 1..1 : attempts'[queue'[l].url] > 0
          BY <1>1, <4>2, <4>4
        <4> QED
          BY Zenon, <3>1, <4>2, <4>4, <4>5 DEF Queued
      <3> QED
        BY Zenon, <3>2, <3>3
    <2> QED
      BY ZenonT(30), <2>2, <2>3, <2>4, <2>5
  <1>6. \A j \in Backing' : attempts'[task'[j].url] > 0
    <2> SUFFICES ASSUME NEW j \in Backing' PROVE attempts[task'[j].url] > 0
      BY Zenon, <1>1
    <2>1. CASE j # i
      BY Zenon, <1>4, <2>1, TaskFacts DEF Owed, Backing
    <2>2. CASE j = i
      <3>1. Retries(i)
        BY Zenon, <2>2, TaskFacts
      <3> QED
        BY Zenon, <2>2, <3>1 DEF Retries, InFlight
    <2> QED
      BY Zenon, <2>1, <2>2
  <1>7. \A u \in Known' : attempts'[u] > 0
    <2>1. Reports(i) \/ Retains(i) => attempts[task[i].url] > 0
      BY Zenon DEF Reports, Retains, InFlight
    <2> QED
      BY ZenonT(30), <1>1, <2>1, TaskFacts DEF Owed
  <1> QED
    BY Zenon, <1>1, <1>5, <1>6, <1>7 DEF Owed

LEMMA TaskReaches ==
    ASSUME TypeOK, InFlight, Owed, Reaches, NEW i \in Slots, TaskTurn(i)
    PROVE  Reaches'
  <1>1. /\ attempts' = attempts /\ filtered' = filtered /\ opt' = opt
        /\ Truncated(Sitemap)' = Truncated(Sitemap)
    BY Zenon DEF TaskTurn, Truncated
  <1>2. \A u \in seen' : attempts'[u] > 0 \/ u \in Range(filtered')
    BY Zenon, <1>1, TaskFacts DEF Reaches
  <1>3. CASE attempts[Start] > 0 \/ Start \in Range(filtered)
    BY Zenon, <1>1, <1>2, <1>3 DEF Reaches
  <1>4. CASE ~(attempts[Start] > 0 \/ Start \in Range(filtered))
    <2> DEFINE M == Range(Truncated(Sitemap))
    <2>1. \A u \in Urls : attempts[u] > 0 => u \in M
      BY Zenon, <1>4 DEF Reaches
    <2>2. PICK k \in 1..Len(queue) : queue[k].url = Start /\ \A j \in 1..(k - 1) : queue[j].url \in M
      BY Zenon, <1>4 DEF Reaches
    <2>3. queue \in Seq(Queries) /\ Len(queue) \in Nat
      BY Types
    <2>4. PICK e : Grows(e)
      BY Zenon, TaskGrows
    <2> HIDE DEF M
    <2>5. \E l \in 1..Len(queue') :
             queue'[l].url = Start /\ \A j \in 1..(l - 1) : queue'[j].url \in M
      <3>1. CASE queue' = queue
        BY Zenon, <2>2, <3>1
      <3>2. CASE e \in Queries /\ attempts[e.url] > 0 /\ queue' = <<e>> \o queue
        <4>1. k + 1 \in 1..Len(queue') /\ queue'[k + 1].url = Start
          BY <2>2, <2>3, <3>2, Pushed
        <4>2. ASSUME NEW j \in 1..((k + 1) - 1) PROVE queue'[j].url \in M
          <5>1. CASE j = 1
            <6>1. queue'[j] = e /\ e.url \in Urls
              BY Zenon, <2>3, <3>2, <5>1, Pushed DEF Queries
            <6> QED
              BY Zenon, <2>1, <3>2, <6>1
          <5>2. CASE j # 1
            <6>1. j - 1 \in 1..(k - 1) /\ j \in 1..(Len(queue) + 1)
              BY <2>3, <5>2
            <6>2. queue'[j] = queue[j - 1]
              BY Zenon, <2>3, <3>2, <5>2, <6>1, Pushed
            <6> QED
              BY Zenon, <2>2, <6>1, <6>2
          <5> QED
            BY Zenon, <5>1, <5>2
        <4> QED
          BY Zenon, <4>1, <4>2
      <3>3. ASSUME NEW c \in Seq(Queries), queue' = queue \o c
            PROVE  \E l \in 1..Len(queue') :
                      queue'[l].url = Start /\ \A j \in 1..(l - 1) : queue'[j].url \in M
        <4>1. Len(queue') = Len(queue) + Len(c) /\ \A j \in 1..Len(queue) : queue'[j] = queue[j]
          BY <2>3, <3>3, Joined
        <4>2. Len(c) \in Nat
          OBVIOUS
        <4>3. k \in 1..Len(queue') /\ queue'[k].url = Start
          BY <2>2, <2>3, <4>1, <4>2
        <4>4. \A j \in 1..(k - 1) : j \in 1..Len(queue)
          BY <2>3
        <4>5. \A j \in 1..(k - 1) : queue'[j].url \in M
          BY Zenon, <2>2, <4>1, <4>4
        <4> QED
          BY Zenon, <4>3, <4>5
      <3> QED
        BY Zenon, <2>4, <3>1, <3>2, <3>3 DEF Grows
    <2> QED
      BY Zenon, <1>1, <1>2, <2>1, <2>5 DEF Reaches, M
  <1> QED
    BY Zenon, <1>3, <1>4

-----------------------------------------------------------------------------
(***************************************************************************)
(* The main task.  Its steps other than DispatchTask are quiet: the tasks  *)
(* go on or leave their slots, and nothing else is tried.                  *)
(***************************************************************************)
Quiet ==
    /\ UNCHANGED <<opt, retries, pages, errors, attempts, late>>
    /\ seen \subseteq seen'
    /\ task' \in [Slots -> Tasks] /\ \A i \in Slots : task'[i] = task[i] \/ task'[i] = Idle

LEMMA QuietSets ==
    ASSUME Quiet
    PROVE  /\ Known' = Known /\ Unsettled' = Unsettled
           /\ Working' \subseteq Working /\ Backing' \subseteq Backing
           /\ Waiting' \subseteq Waiting
           /\ \A i \in Working' \cup Backing' : task'[i] = task[i]
           /\ task' = task => Working' = Working /\ Backing' = Backing /\ Pending' = Pending
  <1>1. Known' = Known /\ Unsettled' = Unsettled
    BY Zenon DEF Quiet, Known, Unsettled
  <1>2. \A i \in Slots : task'[i].pc # "idle" => task'[i] = task[i]
    BY Zenon, IdleTask DEF Quiet
  <1>3. /\ Working' \subseteq Working /\ Backing' \subseteq Backing
        /\ Waiting' \subseteq Waiting
        /\ \A i \in Working' \cup Backing' : task'[i] = task[i]
    BY Zenon, <1>2 DEF Working, AtWork, Backing, Waiting
  <1>4. task' = task => Working' = Working /\ Backing' = Backing /\ Pending' = Pending
    BY Zenon DEF Working, Backing, Pending
  <1> QED
    BY Zenon, <1>1, <1>3, <1>4

\* The URLs of an unchanged queue are still owed.
LEMMA QuietOwed ==
    ASSUME Owed, Quiet, queue' = queue, seen' = seen,
           main' \notin {"raised", "aborted"} /\ ~stopped' =>
             /\ main \notin {"raised", "aborted"} /\ ~stopped
             /\ Working \subseteq Working' /\ Backing \subseteq Backing'
    PROVE  Owed'
  <1>1. attempts' = attempts /\ \A u : Queued(u)' <=> Queued(u)
    BY Zenon DEF Quiet, Queued
  <1>2. ASSUME main' \notin {"raised", "aborted"}, ~stopped', NEW u \in Unsettled'
        PROVE  \/ \E i \in Working' : task'[i].url = u
               \/ u \notin seen' /\ (Queued(u)' \/ \E i \in Backing' : task'[i].url = u)
    <2>1. \/ \E i \in Working : task[i].url = u
          \/ u \notin seen /\ (Queued(u) \/ \E i \in Backing : task[i].url = u)
      BY Zenon, <1>2, QuietSets DEF Owed
    <2>2. \A i \in Working : i \in Working' /\ task'[i] = task[i]
      BY Zenon, <1>2, QuietSets
    <2>3. \A i \in Backing : i \in Backing' /\ task'[i] = task[i]
      BY Zenon, <1>2, QuietSets
    <2> QED
      BY Zenon, <1>1, <2>1, <2>2, <2>3
  <1> QED
    BY Zenon, <1>1, <1>2, QuietSets DEF Owed

LEMMA QuietReaches ==
    ASSUME Reaches, Quiet, queue' = queue, seen' = seen, filtered' = filtered
    PROVE  Reaches'
  <1>1. Truncated(Sitemap)' = Truncated(Sitemap)
    BY Zenon DEF Quiet, Truncated
  <1> QED
    BY Zenon, <1>1 DEF Reaches, Quiet

LEMMA QuietReserved ==
    ASSUME Reserved, Quiet,
           main' \in {"drain", "returned"} /\ ~stopped' =>
             Unsettled = {} \/ (main \in {"drain", "returned"} /\ ~stopped)
    PROVE  Reserved'
  BY Zenon, QuietSets DEF Reserved, Quiet

\* The queue loses its head.
LEMMA Popped ==
    ASSUME queue \in Seq(Queries), queue # <<>>
    PROVE  /\ Len(queue) \in Nat /\ Len(queue) >= 1 /\ Head(queue) = queue[1]
           /\ Head(queue) \in Queries
           /\ Tail(queue) \in Seq(Queries) /\ Len(Tail(queue)) = Len(queue) - 1
           /\ \A k \in 1..Len(queue) : k # 1 =>
                k - 1 \in 1..Len(Tail(queue)) /\ Tail(queue)[k - 1] = queue[k]
  <1>1. /\ Len(queue) \in Nat /\ Len(queue) >= 1 /\ Head(queue) = queue[1]
        /\ Head(queue) \in Queries
        /\ Tail(queue) \in Seq(Queries) /\ Len(Tail(queue)) = Len(queue) - 1
        /\ \A k \in 1..(Len(queue) - 1) : Tail(queue)[k] = queue[k + 1]
    OBVIOUS
  <1>2. \A k \in 1..Len(queue) : k # 1 => k - 1 \in 1..(Len(queue) - 1) /\ (k - 1) + 1 = k
    BY <1>1
  <1> QED
    BY Zenon, <1>1, <1>2

LEMMA SeededType ==
    ASSUME TypeOK, NEW urls \in {Sitemap, <<>>}
    PROVE  \E c \in Seq(Queries) :
              /\ Seeded(urls) = c \o queue
              /\ \A k \in 1..Len(c) : c[k].url \in Range(Truncated(Sitemap))
  <1> DEFINE M == Truncated(urls)
             D == 1..Len(M)
             first == {i \in D : /\ M[i] \notin LowValue \cup {Start}
                                 /\ \A j \in 1..(i - 1) : M[j] # M[i]}
             kept == Kept([i \in D |-> i], first)
             c == [k \in 1..Len(kept) |-> Entry(M[kept[(Len(kept) - k) + 1]], 0, TRUE)]
  <1>1. opt.max_pages \in Nat /\ urls \in Seq(Urls) /\ Len(urls) \in Nat
    <2>1. Sitemap \in Seq(Urls) /\ <<>> \in Seq(Urls)
      BY CrawlConstants
    <2>2. urls \in Seq(Urls)
      BY Zenon, <2>1
    <2> QED
      BY <2>2, LimitType
  <1>2. M \in Seq(Urls) /\ (urls = <<>> => M = <<>>)
    <2>1. CASE opt.max_pages > 1
      <3>1. PICK n \in 0..Len(urls) : M = SubSeq(urls, 1, n)
        BY <1>1, <2>1 DEF Truncated
      <3>2. SubSeq(urls, 1, n) \in Seq(Urls) /\ Len(SubSeq(urls, 1, n)) = n
        BY <1>1
      <3> QED
        BY <3>1, <3>2
    <2>2. CASE ~(opt.max_pages > 1)
      BY Zenon, <1>1, <2>2 DEF Truncated
    <2> QED
      BY Zenon, <2>1, <2>2
  <1>3. Range(M) \subseteq Range(Truncated(Sitemap))
    <2>1. CASE urls = Sitemap
      BY Zenon, <2>1
    <2>2. CASE urls = <<>>
      BY <1>2, <2>2 DEF Range
    <2> QED
      BY Zenon, <2>1, <2>2
  <1>4. Len(M) \in Nat /\ \A i \in D : M[i] \in Urls /\ M[i] \in Range(M)
    BY <1>2 DEF Range
  <1>5. Seeded(urls) = c \o queue
    BY Zenon DEF Seeded
  <1> HIDE DEF M
  <1>6. kept \in Seq(D) /\ Len(kept) \in Nat
    <2>1. [i \in D |-> i] \in Seq(D)
      BY <1>4
    <2> HIDE DEF D, first
    <2>2. kept \in Seq(D)
      BY Zenon, <2>1, KeptType
    <2> HIDE DEF kept
    <2> QED
      BY <2>2
  <1> HIDE DEF D, first, kept
  <1>7. ASSUME NEW k \in 1..Len(kept) PROVE c[k] \in Queries /\ c[k].url \in Range(M)
    <2>1. (Len(kept) - k) + 1 \in 1..Len(kept)
      BY <1>6
    <2> DEFINE x == kept[(Len(kept) - k) + 1]
    <2>2. M[x] \in Urls /\ M[x] \in Range(M)
      <3>1. x \in D
        BY <1>6, <2>1
      <3> QED
        BY Zenon, <1>4, <3>1
    <2>3. c[k] = Entry(M[x], 0, TRUE)
      BY Zenon
    <2>4. 0 \in 0..MaxDepth /\ TRUE \in BOOLEAN
      BY CrawlConstants
    <2> HIDE DEF c, x
    <2> QED
      BY Zenon, <2>2, <2>3, <2>4, Entries
  <1>8. c \in Seq(Queries) /\ Len(c) = Len(kept)
    <2>1. c \in [1..Len(kept) -> Queries]
      BY Zenon, <1>7
    <2> HIDE DEF c
    <2> QED
      BY <1>6, <2>1
  <1> HIDE DEF c
  <1> QED
    BY Zenon, <1>3, <1>5, <1>7, <1>8

-----------------------------------------------------------------------------
(***************************************************************************)
(* The lemmas that count: slots at work, URLs that are settled, pages left *)
(* of the budget; with them, the steps of the main task.                   *)
(***************************************************************************)
INSTANCE FiniteSetTheorems

LEMMA FiniteSlots ==
    /\ IsFiniteSet(Slots) /\ \A S \in SUBSET Slots : IsFiniteSet(S) /\ Cardinality(S) \in Nat
    /\ \A S, T \in SUBSET Slots : S \subseteq T => Cardinality(S) <= Cardinality(T)
    /\ Working \subseteq Pending /\ Backing \subseteq Pending /\ Pending \subseteq Slots
    /\ Working \subseteq Slots /\ Backing \subseteq Slots /\ Waiting \subseteq Slots
    /\ Cardinality(Slots) = Concurrency /\ Concurrency \in Nat
  <1>1. IsFiniteSet(Slots) /\ Cardinality(Slots) = Concurrency /\ Concurrency \in Nat
    BY CrawlConstants, FS_Interval DEF Slots
  <1>2. \A S \in SUBSET Slots : IsFiniteSet(S) /\ Cardinality(S) \in Nat
    BY Zenon, <1>1, FS_Subset, FS_CardinalityType
  <1>3. \A S, T \in SUBSET Slots : S \subseteq T => Cardinality(S) <= Cardinality(T)
    BY Zenon, <1>2, FS_Subset
  <1>4. /\ Working \subseteq Pending /\ Backing \subseteq Pending /\ Pending \subseteq Slots
        /\ Working \subseteq Slots /\ Backing \subseteq Slots /\ Waiting \subseteq Slots
    BY Zenon DEF Working, AtWork, Backing, Waiting, Pending
  <1> QED
    BY Zenon, <1>1, <1>2, <1>3, <1>4

\* One element more or less.
LEMMA Counting ==
    ASSUME NEW S, IsFiniteSet(S), NEW x
    PROVE  /\ IsFiniteSet(S \cup {x}) /\ IsFiniteSet(S \ {x}) /\ Cardinality(S) \in Nat
           /\ Cardinality(S \cup {x}) = IF x \in S THEN Cardinality(S) ELSE Cardinality(S) + 1
           /\ Cardinality(S \ {x}) = IF x \in S THEN Cardinality(S) - 1 ELSE Cardinality(S)
           /\ Cardinality(S) = 0 => S = {}
  <1>1. /\ IsFiniteSet(S \cup {x}) /\ IsFiniteSet(S \ {x}) /\ Cardinality(S) \in Nat
        /\ Cardinality(S \cup {x}) = IF x \in S THEN Cardinality(S) ELSE Cardinality(S) + 1
        /\ Cardinality(S \ {x}) = IF x \in S THEN Cardinality(S) - 1 ELSE Cardinality(S)
    BY Zenon, FS_AddElement, FS_RemoveElement, FS_CardinalityType
  <1>2. Cardinality(S) = 0 => S = {}
    BY Zenon, FS_EmptySet
  <1> QED
    BY Zenon, <1>1, <1>2

LEMMA FiniteUnsettled ==
    IsFiniteSet(Unsettled) /\ Cardinality(Unsettled) \in Nat
  BY Zenon, CrawlConstants, FS_Subset, FS_CardinalityType DEF Unsettled

LEMMA TaskLimited ==
    ASSUME TypeOK, InFlight, Limited, Reserved, NEW i \in Slots, TaskTurn(i)
    PROVE  Limited' /\ Reserved'
  <1>1. /\ pages \in Seq(Urls) /\ Len(pages) \in Nat /\ task[i].url \in Urls
        /\ opt.max_pages \in Nat /\ opt' = opt
    <2>1. pages \in Seq(Urls) /\ task[i].url \in Urls
      BY Zenon, Types DEF Tasks
    <2> QED
      BY <2>1, LimitType DEF TaskTurn
  <1>2. /\ Cardinality(Working) \in Nat /\ IsFiniteSet(Working)
        /\ Cardinality(Unsettled) \in Nat /\ IsFiniteSet(Unsettled)
    BY Zenon, FiniteSlots, FiniteUnsettled
  <1>3. /\ Cardinality(Working \ {i}) =
             IF i \in Working THEN Cardinality(Working) - 1 ELSE Cardinality(Working)
        /\ Cardinality(Unsettled \ {task[i].url}) =
             IF task[i].url \in Unsettled THEN Cardinality(Unsettled) - 1
                                          ELSE Cardinality(Unsettled)
    BY Zenon, <1>2, Counting
  <1>4. i \in Working => task[i].url \in Unsettled
    BY Zenon, <1>1 DEF InFlight, Unsettled
  <1>5. /\ Working' = IF Fetches(i) THEN Working ELSE Working \ {i}
        /\ Unsettled' = IF Reports(i) \/ Retains(i) THEN Unsettled \ {task[i].url} ELSE Unsettled
    BY Zenon, TaskFacts
  <1>6. main \in {"drain", "returned"} /\ ~stopped => Unsettled' = {}
    BY Zenon, <1>5 DEF Reserved
  <1>7. CASE Retains(i)
    <2>1. i \in Working /\ Len(pages') = Len(pages) + 1 /\ ~Fetches(i)
      BY Zenon, <1>1, <1>7, Appended DEF Retains, Fetches, AtWork
    <2>2. /\ Cardinality(Working') = Cardinality(Working) - 1
          /\ Cardinality(Unsettled') = Cardinality(Unsettled) - 1
      BY <1>3, <1>4, <1>5, <1>7, <2>1
    <2>3. Limited'
      BY <1>1, <1>2, <2>1, <2>2 DEF Limited
    <2>4. opt'.max_pages > 0 => Len(pages') + Cardinality(Unsettled') <= opt'.max_pages
      BY <1>1, <1>2, <2>1, <2>2 DEF Reserved
    <2> QED
      BY Zenon, <1>6, <2>3, <2>4 DEF Reserved, TaskTurn
  <1>8. CASE ~Retains(i)
    <2>1. pages' = pages
      BY Zenon, <1>8 DEF TaskTurn, Reports, Retries, Requeues, Fetches, Quits, Discovers
    <2>2. /\ Cardinality(Working') <= Cardinality(Working) /\ Cardinality(Working') \in Nat
          /\ Cardinality(Unsettled') <= Cardinality(Unsettled) /\ Cardinality(Unsettled') \in Nat
      <3>1. Working' \subseteq Working /\ Unsettled' \subseteq Unsettled
        BY Zenon, <1>5
      <3> QED
        BY <1>2, <3>1, FS_Subset, FS_CardinalityType
    <2>3. Limited'
      BY <1>1, <1>2, <2>1, <2>2 DEF Limited
    <2>4. opt'.max_pages > 0 => Len(pages') + Cardinality(Unsettled') <= opt'.max_pages
      BY <1>1, <1>2, <2>1, <2>2 DEF Reserved
    <2> QED
      BY <1>6, <2>3, <2>4 DEF Reserved, TaskTurn
  <1> QED
    BY Zenon, <1>7, <1>8

LEMMA TaskCeasing ==
    ASSUME TypeOK, Ceasing, NEW i \in Slots, TaskTurn(i)
    PROVE  Ceasing'
  <1>1. late \in Nat /\ main' = main /\ status' = status /\ stopped' = stopped /\ main # "dispatch"
    BY Zenon, Types DEF TaskTurn, Yielded
  <1>2. /\ Concurrency \in Nat /\ IsFiniteSet(Waiting)
        /\ Cardinality(Waiting) \in Nat /\ Cardinality(Waiting') \in Nat
    <2>1. Waiting' \subseteq Slots
      BY Zenon DEF Waiting
    <2> QED
      BY Zenon, <2>1, FiniteSlots
  <1>3. Waiting' = IF task'[i].pc \in {"start", "held"} THEN Waiting \cup {i} ELSE Waiting \ {i}
    BY Zenon DEF Waiting, TaskTurn, Slot
  <1>4. CASE late' = late
    <2>1. Waiting' \subseteq Waiting
      BY Zenon, <1>3 DEF TaskTurn, Asks
    <2>2. Cardinality(Waiting') <= Cardinality(Waiting)
      BY Zenon, <2>1, FiniteSlots
    <2>3. late' + Cardinality(Waiting') <= Concurrency
      BY <1>1, <1>2, <1>4, <2>2 DEF Ceasing
    <2> QED
      BY Zenon, <1>1, <1>4, <2>3 DEF Ceasing
  <1>5. CASE late' # late
    <2>1. /\ late' = late + 1 /\ status = "cancelled" /\ i \in Waiting
          /\ task'[i].pc \notin {"start", "held"}
      BY Zenon, <1>5 DEF TaskTurn, Asks
    <2>2. Waiting' = Waiting \ {i}
      BY Zenon, <1>3, <2>1
    <2>3. Cardinality(Waiting') = Cardinality(Waiting) - 1
      BY Zenon, <1>2, <2>1, <2>2, Counting
    <2>4. late' + Cardinality(Waiting') <= Concurrency
      BY <1>1, <1>2, <2>1, <2>3 DEF Ceasing
    <2> QED
      BY Zenon, <1>1, <2>1, <2>4 DEF Ceasing
  <1> QED
    BY Zenon, <1>4, <1>5

LEMMA TaskSteps ==
    ASSUME IInv, NEW i \in Slots, Scrape(i)
    PROVE  IInv'
  <1>1. TaskTurn(i)
    BY Zenon, TaskTurns DEF IInv
  <1>2. Ceasing'
    BY Zenon, <1>1, TaskCeasing DEF IInv
  <1>3. /\ opt' = opt /\ main' = main /\ filtered' = filtered /\ stopped' = stopped
        /\ attempts' = attempts
    BY Zenon, <1>1 DEF TaskTurn
  <1>4. Arrives' /\ Unstarted'
    BY Zenon, <1>3 DEF IInv, Arrives, Unstarted
  <1> QED
    BY <1>1, <1>2, <1>4, TaskTyped, TaskTried, TaskInFlight, TaskSettled, TaskLimited, TaskOwed,
       TaskReaches DEF IInv

LEMMA Onto ==
    ASSUME NEW S, IsFiniteSet(S), NEW T, NEW f \in [S -> T], \A y \in T : \E x \in S : f[x] = y
    PROVE  /\ IsFiniteSet(T) /\ Cardinality(T) <= Cardinality(S)
           /\ (\A x, z \in S : f[x] = f[z] => x = z) => Cardinality(T) = Cardinality(S)
  <1>1. f \in Surjection(S, T)
    BY Zenon DEF Surjection
  <1>2. (\A x, z \in S : f[x] = f[z] => x = z) => f \in Injection(S, T)
    BY Zenon DEF Injection, IsInjective
  <1> QED
    BY <1>1, <1>2, FS_Surjection

LEMMA SeqCount ==
    ASSUME NEW S, NEW s \in Seq(S)
    PROVE  /\ IsFiniteSet(Range(s)) /\ Cardinality(Range(s)) <= Len(s)
           /\ IsInjective(s) => Cardinality(Range(s)) = Len(s)
  <1>1. Len(s) \in Nat /\ DOMAIN s = 1..Len(s)
    OBVIOUS
  <1>2. IsFiniteSet(1..Len(s)) /\ Cardinality(1..Len(s)) = Len(s)
    BY <1>1, FS_Interval
  <1>3. s \in [1..Len(s) -> Range(s)] /\ \A y \in Range(s) : \E k \in 1..Len(s) : s[k] = y
    BY <1>1 DEF Range
  <1>4. IsInjective(s) => \A k, l \in 1..Len(s) : s[k] = s[l] => k = l
    BY Zenon, <1>1 DEF IsInjective
  <1> DEFINE D == 1..Len(s)
             T == Range(s)
  <1>5. /\ IsFiniteSet(D) /\ s \in [D -> T] /\ \A y \in T : \E k \in D : s[k] = y
        /\ Cardinality(D) = Len(s) /\ (IsInjective(s) => \A k, l \in D : s[k] = s[l] => k = l)
    BY Zenon, <1>2, <1>3, <1>4
  <1> HIDE DEF D, T
  <1>6. /\ IsFiniteSet(T) /\ Cardinality(T) <= Cardinality(D)
        /\ IsInjective(s) => Cardinality(T) = Cardinality(D)
    BY Zenon, <1>5, Onto
  <1> QED
    BY Zenon, <1>5, <1>6 DEF D, T

LEMMA QuietKeeps ==
    ASSUME TypeOK, Tried, InFlight, Settled, Limited, Quiet
    PROVE  Tried' /\ InFlight' /\ Settled' /\ Limited'
  <1>1. Tried'
    BY Zenon DEF Tried, Quiet
  <1>2. InFlight'
    BY Zenon, QuietSets DEF InFlight, Quiet
  <1>3. Settled'
    BY Zenon, QuietSets DEF Settled, Quiet
  <1>4. Limited'
    <2>1. /\ Cardinality(Working') <= Cardinality(Working)
          /\ Cardinality(Working') \in Nat /\ Cardinality(Working) \in Nat
      BY Zenon, QuietSets, FiniteSlots
    <2>2. Len(pages) \in Nat /\ opt.max_pages \in Nat
      BY Types, LimitType
    <2> QED
      BY <2>1, <2>2 DEF Limited, Quiet
  <1> QED
    BY Zenon, <1>1, <1>2, <1>3, <1>4

LEMMA QuietCeasing ==
    ASSUME TypeOK, Ceasing, Quiet,
           main' = "dispatch" \/ status' # "cancelled" => main = "dispatch" \/ status # "cancelled",
           stopped' => main' \in {"drain", "returned", "raised"}
    PROVE  Ceasing'
  <1>1. late \in Nat /\ late' = late
    BY Zenon, Types DEF Quiet
  <1>2. /\ Cardinality(Waiting') <= Cardinality(Waiting)
        /\ Cardinality(Waiting') \in Nat /\ Cardinality(Waiting) \in Nat
    BY Zenon, QuietSets, FiniteSlots
  <1>3. late' + Cardinality(Waiting') <= Concurrency
    BY <1>1, <1>2, FiniteSlots DEF Ceasing
  <1> QED
    BY Zenon, <1>1, <1>3 DEF Ceasing

\* With an empty queue and no task nothing is owed, and the start URL was reached.
LEMMA Exhausted ==
    ASSUME Owed, Reaches, queue = <<>>, Pending = {}, main \notin {"raised", "aborted"},
           ~stopped
    PROVE  Unsettled = {} /\ (attempts[Start] > 0 \/ Start \in Range(filtered))
  <1>1. 1..Len(queue) = {}
    OBVIOUS
  <1>2. Working = {} /\ Backing = {}
    BY Zenon, FiniteSlots
  <1>3. Unsettled = {}
    BY Zenon, <1>1, <1>2 DEF Owed, Queued
  <1> QED
    BY Zenon, <1>1, <1>3 DEF Reaches

\* At the page limit nothing is owed either; the truncated sitemap leaves a page
\* for the start URL.
LEMMA Filled ==
    ASSUME IInv, AtLimit
    PROVE  Unsettled = {} /\ (opt.max_pages # 1 => attempts[Start] > 0 \/ Start \in Range(filtered))
  <1>1. /\ opt.max_pages \in Nat /\ opt.max_pages > 0 /\ Len(pages) >= opt.max_pages
        /\ pages \in Seq(Urls) /\ Len(pages) \in Nat
    BY LimitType, Types DEF IInv, AtLimit
  <1>2. Unsettled = {}
    <2>1. Len(pages) + Cardinality(Unsettled) <= opt.max_pages
      BY Zenon, <1>1 DEF IInv, Reserved
    <2>2. Cardinality(Unsettled) = 0
      BY <1>1, <2>1, FiniteUnsettled
    <2> QED
      BY Zenon, <2>2, FiniteUnsettled, FS_EmptySet
  <1>3. ASSUME opt.max_pages # 1, ~(attempts[Start] > 0 \/ Start \in Range(filtered))
        PROVE  FALSE
    <2> DEFINE M == Truncated(Sitemap)
    <2>1. \A u \in Urls : attempts[u] > 0 => u \in Range(M)
      BY Zenon, <1>3 DEF IInv, Reaches
    <2>2. M \in Seq(Urls) /\ Len(M) \in Nat /\ Len(M) < opt.max_pages
      <3>1. opt.max_pages > 1 /\ Sitemap \in Seq(Urls) /\ Len(Sitemap) \in Nat
        BY <1>1, <1>3, CrawlConstants
      <3>2. PICK n \in 0..Len(Sitemap) : M = SubSeq(Sitemap, 1, n) /\ n < opt.max_pages
        BY <1>1, <3>1 DEF Truncated
      <3>3. SubSeq(Sitemap, 1, n) \in Seq(Urls) /\ Len(SubSeq(Sitemap, 1, n)) = n
        BY <3>1
      <3> QED
        BY <3>2, <3>3
    <2> HIDE DEF M
    <2>3. Range(pages) \subseteq Range(M)
      <3>1. Range(pages) \subseteq Urls /\ \A u \in Range(pages) : attempts[u] > 0
        BY Zenon, <1>1, RangeTypes DEF IInv, Owed, Known
      <3> QED
        BY Zenon, <2>1, <3>1
    <2>4. IsFiniteSet(Range(M)) /\ Cardinality(Range(M)) <= Len(M) /\ Cardinality(Range(M)) \in Nat
      BY <2>2, SeqCount, FS_CardinalityType
    <2>5. Cardinality(Range(pages)) = Len(pages)
      BY Zenon, <1>1, SeqCount DEF IInv, Settled
    <2>6. Cardinality(Range(pages)) <= Cardinality(Range(M))
      BY <2>3, <2>4, FS_Subset
    <2> QED
      BY <1>1, <2>2, <2>4, <2>5, <2>6
  <1> QED
    BY <1>2, <1>3

LEMMA SeedStep ==
    ASSUME IInv, Seed
    PROVE  IInv'
  <1>0. /\ TypeOK /\ Tried /\ InFlight /\ Settled /\ Limited /\ Owed /\ Reserved /\ Reaches
        /\ Unstarted /\ Ceasing
    BY Zenon DEF IInv
  <1>1. /\ main = "seed" /\ main' = "loop" /\ "loop" \in Places
        /\ UNCHANGED <<opt, seen, retries, task, pages, errors, filtered, status, stopped,
                       attempts, late>>
    BY Zenon DEF Seed, Places, history
  <1>2. PICK c \in Seq(Queries) :
          queue' = c \o queue /\ \A k \in 1..Len(c) : c[k].url \in Range(Truncated(Sitemap))
    <2>1. PICK urls \in {Sitemap, <<>>} : queue' = Seeded(urls)
      BY Zenon DEF Seed
    <2> QED
      BY Zenon, <1>0, <2>1, SeededType
  <1>3. queue \in Seq(Queries) /\ Len(queue) \in Nat /\ Len(c) \in Nat
    BY <1>0, Types
  <1>4. /\ queue' \in Seq(Queries) /\ Len(queue') = Len(c) + Len(queue)
        /\ \A k \in 1..Len(c) : queue'[k] = c[k]
        /\ \A k \in 1..Len(queue) : queue'[Len(c) + k] = queue[k]
    BY <1>2, <1>3, Joined
  <1>5. TypeOK'
    BY Zenon, <1>0, <1>1, <1>4, Types, TypesNext
  <1>6. Quiet
    BY <1>0, <1>1, Types DEF Quiet
  <1>7. Unsettled' = {} /\ Known' = Known /\ Backing' = Backing
    BY <1>0, <1>1, <1>6, QuietSets DEF Unstarted, Unsettled
  <1>8. Owed'
    BY ZenonT(30), <1>0, <1>1, <1>7 DEF Owed
  <1>9. Reserved'
    BY <1>0, <1>1, <1>6, QuietReserved
  <1>10. Reaches'
    <2> DEFINE M == Range(Truncated(Sitemap))
    <2>1. Truncated(Sitemap)' = Truncated(Sitemap)
      BY Zenon, <1>1 DEF Truncated
    <2>2. CASE attempts[Start] > 0 \/ Start \in Range(filtered)
      BY ZenonT(30), <1>0, <1>1, <2>2 DEF Reaches
    <2>3. CASE ~(attempts[Start] > 0 \/ Start \in Range(filtered))
      <3>1. PICK k \in 1..Len(queue) :
              queue[k].url = Start /\ \A j \in 1..(k - 1) : queue[j].url \in M
        BY ZenonT(30), <1>0, <2>3 DEF Reaches
      <3>2. Len(c) + k \in 1..Len(queue') /\ queue'[Len(c) + k].url = Start
        BY <1>3, <1>4, <3>1
      <3>3. ASSUME NEW j \in 1..((Len(c) + k) - 1) PROVE queue'[j].url \in M
        <4>1. CASE j \in 1..Len(c)
          BY <1>2, <1>4, <4>1
        <4>2. CASE j \notin 1..Len(c)
          <5>1. /\ j - Len(c) \in 1..(k - 1) /\ j - Len(c) \in 1..Len(queue)
                /\ Len(c) + (j - Len(c)) = j
            BY <1>3, <4>2
          <5> QED
            BY Zenon, <1>4, <3>1, <5>1
        <4> QED
          BY <4>1, <4>2
      <3> HIDE DEF M
      <3>4. \E l \in 1..Len(queue') :
              queue'[l].url = Start /\ \A j \in 1..(l - 1) : queue'[j].url \in M
        BY Zenon, <3>2, <3>3
      <3> QED
        BY ZenonT(30), <1>0, <1>1, <2>1, <2>3, <3>4 DEF Reaches, M
    <2> QED
      BY Zenon, <2>2, <2>3
  <1>11. Arrives' /\ Unstarted'
    BY Zenon, <1>1 DEF Arrives, Unstarted
  <1>12. Ceasing'
    <2>1. ~stopped
      BY Zenon, <1>0, <1>1 DEF Ceasing
    <2> QED
      BY Zenon, <1>0, <1>1, <1>6, <2>1, QuietCeasing
  <1> QED
    BY <1>0, <1>5, <1>6, <1>8, <1>9, <1>10, <1>11, <1>12, QuietKeeps DEF IInv

LEMMA LoopHeadStep ==
    ASSUME IInv, LoopHead
    PROVE  IInv'
  <1> DEFINE over == (queue = <<>> /\ Pending = {}) \/ AtLimit
  <1>0. /\ TypeOK /\ Tried /\ InFlight /\ Settled /\ Limited /\ Owed /\ Reserved /\ Reaches
        /\ Ceasing
    BY Zenon DEF IInv
  <1>1. /\ main = "loop" /\ main' \in {"drain", "dispatch"} /\ main' \in Places
        /\ main' = "drain" /\ ~stopped' => over
        /\ main' = "dispatch" => status # "cancelled"
        /\ stopped' \in BOOLEAN /\ (stopped' => main' = "drain")
        /\ UNCHANGED <<opt, queue, seen, retries, task, pages, errors, filtered, status, attempts,
                       late>>
    BY Zenon DEF LoopHead, Places, history
  <1>a. ~stopped
    BY Zenon, <1>0, <1>1 DEF Ceasing
  <1>2. over => /\ Unsettled = {}
                /\ opt.max_pages # 1 => attempts[Start] > 0 \/ Start \in Range(filtered)
    BY <1>0, <1>1, <1>a, Exhausted, Filled
  <1> HIDE DEF over
  <1>3. TypeOK'
    BY <1>0, <1>1, Types, TypesNext
  <1>4. Quiet
    BY Zenon, <1>0, <1>1, Types DEF Quiet
  <1>5. Owed'
    BY <1>0, <1>1, <1>4, <1>a, QuietSets, QuietOwed
  <1>6. Reserved'
    BY <1>0, <1>1, <1>2, <1>4, QuietReserved
  <1>7. Reaches'
    BY <1>0, <1>1, <1>4, QuietReaches
  <1>8. Unstarted' /\ Arrives'
    BY <1>1, <1>2 DEF Unstarted, Arrives
  <1>9. Ceasing'
    BY Zenon, <1>0, <1>1, <1>4, QuietCeasing
  <1> QED
    BY <1>0, <1>3, <1>4, <1>5, <1>6, <1>7, <1>8, <1>9, QuietKeeps DEF IInv

LEMMA DispatchFullStep ==
    ASSUME IInv, DispatchFull
    PROVE  IInv'
  <1>0. /\ TypeOK /\ Tried /\ InFlight /\ Settled /\ Limited /\ Owed /\ Reserved /\ Reaches
        /\ Ceasing
    BY DEF IInv
  <1>1. /\ main = "dispatch" /\ main' \in {"wait", "drain", "loop"} /\ main' \in Places
        /\ main' = "drain" => Pending = {} /\ queue = <<>>
        /\ UNCHANGED <<opt, queue, seen, retries, task, pages, errors, filtered, status, stopped,
                       attempts, late>>
    BY Zenon DEF DispatchFull, AfterDispatch, Places, history
  <1>a. ~stopped
    BY Zenon, <1>0, <1>1 DEF Ceasing
  <1>2. main' = "drain" => Unsettled = {} /\ (attempts[Start] > 0 \/ Start \in Range(filtered))
    BY Zenon, <1>0, <1>1, <1>a, Exhausted
  <1>3. TypeOK'
    BY Zenon, <1>0, <1>1, Types, TypesNext
  <1>4. Quiet
    BY Zenon, <1>0, <1>1, Types DEF Quiet
  <1>5. Owed'
    BY <1>0, <1>1, <1>4, <1>a, QuietSets, QuietOwed
  <1>6. Reserved'
    BY <1>0, <1>1, <1>2, <1>4, QuietReserved
  <1>7. Reaches'
    BY Zenon, <1>0, <1>1, <1>4, QuietReaches
  <1>8. Unstarted' /\ Arrives'
    BY Zenon, <1>1, <1>2 DEF Unstarted, Arrives
  <1>9. Ceasing'
    BY Zenon, <1>0, <1>1, <1>4, <1>a, QuietCeasing
  <1> QED
    BY <1>0, <1>3, <1>4, <1>5, <1>6, <1>7, <1>8, <1>9, QuietKeeps DEF IInv

LEMMA DispatchSkipStep ==
    ASSUME IInv, DispatchSkip
    PROVE  IInv'
  <1> DEFINE e == Head(queue)
             gone == {e.url}
  <1>0. /\ TypeOK /\ Tried /\ InFlight /\ Settled /\ Limited /\ Owed /\ Reserved /\ Reaches
        /\ Ceasing
    BY DEF IInv
  <1>1. /\ main = "dispatch" /\ main' \in {"wait", "drain", "loop"} /\ main' \in Places
        /\ main' = "drain" => Pending = {} /\ Tail(queue) = <<>>
        /\ queue # <<>> /\ queue' = Tail(queue)
        /\ UNCHANGED <<opt, retries, task, pages, errors, status, stopped, attempts, late>>
    BY Zenon DEF DispatchSkip, AfterDispatch, Places, Room, history
  <1>a. ~stopped
    BY Zenon, <1>0, <1>1 DEF Ceasing
  <1>2. queue \in Seq(Queries) /\ filtered \in Seq(Urls) /\ seen \subseteq Urls
    BY Zenon, <1>0, Types
  <1>3. /\ Len(queue) \in Nat /\ Len(queue) >= 1 /\ e = queue[1] /\ e \in Queries
        /\ queue' \in Seq(Queries) /\ Len(queue') = Len(queue) - 1
        /\ \A k \in 1..Len(queue) : k # 1 =>
             k - 1 \in 1..Len(queue') /\ queue'[k - 1] = queue[k]
    BY Zenon, <1>1, <1>2, Popped
  <1>4. e.url \in Urls /\ ~(e.depth > MaxDepth)
    BY <1>3, CrawlConstants DEF Queries
  <1>5. \/ e.url \in seen /\ seen' = seen /\ filtered' = filtered
        \/ /\ e.url \in Excluded /\ seen' = seen \cup gone /\ filtered' = Append(filtered, e.url)
    BY Zenon, <1>4 DEF DispatchSkip, Skipped
  <1> HIDE DEF e
  <1>6. /\ filtered' \in Seq(Urls) /\ Range(filtered) \subseteq Range(filtered')
        /\ seen \subseteq seen' /\ seen' \subseteq seen \cup gone
        /\ e.url \in seen \/ (e.url \in Range(filtered') /\ e.url \in Excluded)
    <2>1. /\ Append(filtered, e.url) \in Seq(Urls)
          /\ Range(Append(filtered, e.url)) = Range(filtered) \cup {e.url}
      BY <1>2, <1>4, Appended
    <2> QED
      BY Zenon, <1>2, <1>5, <2>1
  <1>7. TypeOK'
    BY Zenon, <1>0, <1>1, <1>3, <1>4, <1>6, Types, TypesNext
  <1>8. Quiet
    BY <1>0, <1>1, <1>6, Types DEF Quiet
  <1>9. /\ Known' = Known /\ Unsettled' = Unsettled /\ Working' = Working /\ Backing' = Backing
        /\ Pending' = Pending
    BY Zenon, <1>1, <1>8, QuietSets
  <1>10. Owed'
    <2>1. ASSUME NEW u \in Unsettled
          PROVE  \/ \E i \in Working : task[i].url = u
                 \/ u \notin seen' /\ (Queued(u)' \/ \E i \in Backing : task[i].url = u)
      <3>1. \/ \E i \in Working : task[i].url = u
            \/ u \notin seen /\ (Queued(u) \/ \E i \in Backing : task[i].url = u)
        BY Zenon, <1>0, <1>1, <1>a DEF Owed
      <3>2. u \notin Excluded
        BY <1>0 DEF Owed, Unsettled
      <3>3. u \notin seen => u # e.url /\ u \notin seen'
        BY Zenon, <1>6, <3>2
      <3>4. ASSUME u \notin seen, Queued(u) PROVE Queued(u)'
        <4>1. PICK k \in 1..Len(queue) :
                queue[k].url = u /\ \A j \in 1..k : attempts[queue[j].url] > 0
          BY Zenon, <3>4 DEF Queued
        <4>2. k # 1
          BY <1>3, <3>3, <3>4, <4>1
        <4>3. k - 1 \in 1..Len(queue') /\ queue'[k - 1].url = u
          BY Zenon, <1>3, <4>1, <4>2
        <4>4. ASSUME NEW j \in 1..(k - 1) PROVE attempts'[queue'[j].url] > 0
          <5>1. j + 1 \in 1..k /\ j + 1 \in 1..Len(queue) /\ j + 1 # 1 /\ (j + 1) - 1 = j
            BY <1>3
          <5> QED
            BY <1>1, <1>3, <4>1, <5>1
        <4> QED
          BY Zenon, <4>3, <4>4 DEF Queued
      <3> QED
        BY Zenon, <3>1, <3>3, <3>4
    <2> QED
      BY <1>0, <1>1, <1>9, <2>1 DEF Owed
  <1>11. Reaches'
    <2> DEFINE M == Range(Truncated(Sitemap))
    <2>1. Truncated(Sitemap)' = Truncated(Sitemap)
      BY Zenon, <1>1 DEF Truncated
    <2>2. \A u \in seen' : attempts'[u] > 0 \/ u \in Range(filtered')
      BY Zenon, <1>0, <1>1, <1>6 DEF Reaches
    <2>3. CASE attempts[Start] > 0 \/ Start \in Range(filtered')
      BY Zenon, <1>1, <2>2, <2>3 DEF Reaches
    <2>4. CASE ~(attempts[Start] > 0 \/ Start \in Range(filtered'))
      <3>1. \A u \in Urls : attempts[u] > 0 => u \in M
        BY Zenon, <1>0, <1>6, <2>4 DEF Reaches
      <3>2. PICK k \in 1..Len(queue) :
              queue[k].url = Start /\ \A j \in 1..(k - 1) : queue[j].url \in M
        BY ZenonT(30), <1>0, <1>6, <2>4 DEF Reaches
      <3> HIDE DEF M
      <3>3. Start \notin seen /\ e.url # Start
        BY ZenonT(30), <1>0, <1>6, <2>4 DEF Reaches
      <3>4. k # 1
        BY <1>3, <3>2, <3>3
      <3>5. k - 1 \in 1..Len(queue') /\ queue'[k - 1].url = Start
        BY <1>3, <3>2, <3>4
      <3>6. ASSUME NEW j \in 1..((k - 1) - 1) PROVE queue'[j].url \in M
        <4>1. j + 1 \in 1..(k - 1) /\ j + 1 \in 1..Len(queue) /\ j + 1 # 1 /\ (j + 1) - 1 = j
          BY <1>3
        <4> QED
          BY <1>3, <3>2, <4>1
      <3>7. \E l \in 1..Len(queue') :
              queue'[l].url = Start /\ \A j \in 1..(l - 1) : queue'[j].url \in M
        BY Zenon, <3>5, <3>6
      <3> QED
        BY <1>1, <2>1, <2>2, <3>1, <3>7 DEF Reaches, M
    <2> QED
      BY Zenon, <2>3, <2>4
  <1>12. ASSUME main' = "drain"
         PROVE  Unsettled = {} /\ (attempts'[Start] > 0 \/ Start \in Range(filtered'))
    <2>1. 1..Len(queue') = {} /\ Working = {} /\ Backing = {}
      BY <1>1, <1>12, FiniteSlots
    <2>2. Unsettled' = {}
      BY Zenon, <1>1, <1>9, <1>10, <1>a, <2>1 DEF Owed, Queued
    <2> QED
      BY <1>9, <1>11, <2>1, <2>2 DEF Reaches
  <1>13. Reserved'
    BY <1>0, <1>1, <1>8, <1>12, QuietReserved
  <1>14. Unstarted' /\ Arrives'
    BY Zenon, <1>1, <1>12 DEF Unstarted, Arrives
  <1>15. Ceasing'
    BY Zenon, <1>0, <1>1, <1>8, <1>a, QuietCeasing
  <1> QED
    BY <1>0, <1>7, <1>8, <1>10, <1>11, <1>13, <1>14, <1>15, QuietKeeps DEF IInv

\* The steps after which the tasks that ended, or all of them, have left.
Leaves ==
    /\ UNCHANGED <<opt, queue, seen, retries, pages, errors, filtered, status, stopped, attempts,
                   late>>
    /\ task' \in [Slots -> Tasks] /\ \A i \in Slots : task'[i] = task[i] \/ task'[i] = Idle
    /\ main' \in Places \ {"seed", "dispatch"}
    /\ stopped => main' \in {"drain", "returned", "raised"}
    /\ main' \in {"drain", "returned"} => main \in {"drain", "returned"}
    /\ main' \notin {"raised", "aborted"} =>
         main \notin {"raised", "aborted"} /\ Working \subseteq Working' /\ Backing \subseteq Backing'

LEMMA LeaveSteps ==
    ASSUME IInv, Leaves
    PROVE  IInv'
  <1>0. /\ TypeOK /\ Tried /\ InFlight /\ Settled /\ Limited /\ Owed /\ Reserved /\ Reaches
        /\ Arrives /\ Ceasing
    BY Zenon DEF IInv
  <1>1. TypeOK'
    BY Zenon, <1>0, Types, TypesNext DEF Leaves
  <1>2. Quiet
    BY Zenon DEF Quiet, Leaves
  <1>3. Owed'
    BY Zenon, <1>0, <1>2, QuietOwed DEF Leaves
  <1>4. Reserved'
    BY Zenon, <1>0, <1>2, QuietReserved DEF Leaves
  <1>5. Reaches'
    BY <1>0, <1>2, QuietReaches DEF Leaves
  <1>6. Unstarted' /\ Arrives'
    BY Zenon, <1>0 DEF Unstarted, Arrives, Leaves
  <1>7. Ceasing'
    BY Zenon, <1>0, <1>2, QuietCeasing DEF Leaves
  <1> QED
    BY <1>0, <1>1, <1>2, <1>3, <1>4, <1>5, <1>6, <1>7, QuietKeeps DEF IInv

LEMMA Leaving ==
    ASSUME IInv, Wake \/ Finish \/ Expire \/ Interrupt
    PROVE  Leaves
  <1>0. task \in [Slots -> Tasks] /\ Idle \in Tasks
    BY Zenon, Types, IdleTask DEF IInv
  <1>1. CASE Wake
    <2> DEFINE fatal == \E i \in Done : task[i].pc = "fatal"
    <2>1. /\ main = "wait" /\ main' = IF fatal THEN "aborted" ELSE "loop"
          /\ task' = [i \in Slots |-> IF fatal \/ i \in Done THEN Idle ELSE task[i]]
          /\ UNCHANGED <<opt, queue, seen, retries, pages, errors, filtered, status, stopped,
                         attempts, late>>
          /\ ~stopped
      BY Zenon, <1>1 DEF Wake, history, IInv, Ceasing
    <2> HIDE DEF fatal
    <2>2. task' \in [Slots -> Tasks] /\ \A i \in Slots : task'[i] = task[i] \/ task'[i] = Idle
      BY Zenon, <1>0, <2>1
    <2>3. Done \cap Working = {} /\ Done \cap Backing = {}
      BY Zenon DEF Done, Working, AtWork, Backing
    <2>4. ~fatal => \A i \in Slots : i \notin Done => task'[i] = task[i]
      BY Zenon, <2>1
    <2>5. ~fatal => Working \subseteq Working' /\ Backing \subseteq Backing'
      BY Zenon, <2>3, <2>4 DEF Working, Backing
    <2> QED
      BY Zenon, <2>1, <2>2, <2>5 DEF Leaves, Places
  <1>2. CASE Finish
    <2>1. Working = {} /\ Backing = {}
      BY ZenonT(30), <1>2, FiniteSlots DEF Finish, Done, Working, AtWork, Backing
    <2> QED
      BY Zenon, <1>0, <1>2, <2>1 DEF Finish, Leaves, Places, history
  <1>3. CASE Expire \/ Interrupt
    BY Zenon, <1>0, <1>3 DEF Expire, Interrupt, Leaves, Places, history
  <1> QED
    BY Zenon, <1>1, <1>2, <1>3

LEMMA CancelStep ==
    ASSUME IInv, CancelJob \/ UNCHANGED vars
    PROVE  IInv'
  <1>0. /\ TypeOK /\ Tried /\ InFlight /\ Settled /\ Limited /\ Owed /\ Reserved /\ Reaches
        /\ Arrives /\ Unstarted /\ Ceasing
    BY Zenon DEF IInv
  <1>1. /\ UNCHANGED <<opt, main, queue, seen, retries, task, pages, errors, filtered, stopped,
                       attempts, late>>
        /\ status' = status \/ status' = "cancelled"
    BY Zenon DEF CancelJob, vars, history
  <1>2. TypeOK'
    BY Zenon, <1>0, <1>1, Types, TypesNext
  <1>3. Quiet
    BY Zenon, <1>0, <1>1, Types DEF Quiet
  <1>4. Owed'
    BY <1>0, <1>1, <1>3, QuietSets, QuietOwed
  <1>5. Reserved'
    BY <1>0, <1>1, <1>3, QuietReserved
  <1>6. Reaches'
    BY Zenon, <1>0, <1>1, <1>3, QuietReaches
  <1>7. Unstarted' /\ Arrives'
    BY Zenon, <1>0, <1>1 DEF Unstarted, Arrives
  <1>8. Ceasing'
    <2>1. stopped' => main' \in {"drain", "returned", "raised"}
      BY Zenon, <1>0, <1>1 DEF Ceasing
    <2> QED
      BY Zenon, <1>0, <1>1, <1>3, <2>1, QuietCeasing
  <1> QED
    BY <1>0, <1>2, <1>3, <1>4, <1>5, <1>6, <1>7, <1>8, QuietKeeps DEF IInv

\* A task is created for the head of the queue, in a free slot.
LEMMA Dispatches ==
    ASSUME IInv, DispatchTask
    PROVE  \E i \in Slots, e \in Queries :
              /\ i \notin Pending /\ Slot(i)
              /\ task'[i].pc = "start" /\ task'[i].url = e.url
              /\ e = queue[1] /\ e.url \notin seen /\ e.url \notin Excluded
              /\ seen' = seen \cup {e.url}
              /\ attempts' = [attempts EXCEPT ![e.url] = @ + 1]
  <1> DEFINE free == Slots \ Pending
             e == Head(queue)
             i == CHOOSE i \in free : \A j \in free : i <= j
             t == [pc |-> "start", url |-> e.url, depth |-> e.depth, sm |-> e.sm, html |-> FALSE]
  <1>1. TypeOK /\ queue \in Seq(Queries) /\ queue # <<>> /\ task \in [Slots -> Tasks]
    BY Zenon, Types DEF IInv, DispatchTask, Room
  <1>2. e = queue[1] /\ e \in Queries
    BY Zenon, <1>1, Popped
  <1>3. free # {}
    <2>1. Cardinality(Pending) < Concurrency
      BY Zenon DEF DispatchTask, Room
    <2>2. Pending # Slots
      BY <2>1, FiniteSlots
    <2> QED
      BY Zenon, <2>2, FiniteSlots
  <1>4. i \in free
    <2>1. free \subseteq Nat
      BY CrawlConstants DEF Slots
    <2> HIDE DEF free
    <2>2. \E k \in free : \A j \in free : k <= j
      BY Zenon, <1>3, <2>1, Least
    <2> QED
      BY Zenon, <2>2
  <1>5. /\ task' = [task EXCEPT ![i] = t]
        /\ e.url \notin seen /\ e.url \notin Excluded
        /\ seen' = seen \cup {e.url}
        /\ attempts' = [attempts EXCEPT ![e.url] = @ + 1]
    BY Zenon DEF DispatchTask, Skipped
  <1>6. t \in Tasks /\ t.pc = "start" /\ t.url = e.url
    <2>1. "start" \in Steps
      BY Zenon DEF Steps
    <2> HIDE DEF e
    <2> QED
      BY Zenon, <1>2, <2>1 DEF Queries, Tasks
  <1> HIDE DEF t, i, e
  <1>7. i \in Slots /\ i \notin Pending /\ Slot(i) /\ task'[i] = t
    BY Zenon, <1>1, <1>4, <1>5, <1>6 DEF Slot
  <1> QED
    BY Zenon, <1>2, <1>5, <1>6, <1>7

LEMMA DispatchTaskStep ==
    ASSUME IInv, DispatchTask
    PROVE  IInv'
  <1>0. /\ TypeOK /\ Tried /\ InFlight /\ Settled /\ Limited /\ Owed /\ Reserved /\ Reaches
        /\ Ceasing
    BY Zenon DEF IInv
  <1>1. PICK i \in Slots, e \in Queries :
              /\ i \notin Pending /\ Slot(i)
              /\ task'[i].pc = "start" /\ task'[i].url = e.url
              /\ e = queue[1] /\ e.url \notin seen /\ e.url \notin Excluded
              /\ seen' = seen \cup {e.url}
              /\ attempts' = [attempts EXCEPT ![e.url] = @ + 1]
    BY Zenon, Dispatches
  <1>2. /\ main = "dispatch" /\ main' = main /\ queue # <<>> /\ queue' = Tail(queue)
        /\ UNCHANGED <<opt, retries, pages, errors, filtered, status, stopped, late>>
        /\ opt.max_pages = 0 \/ Len(pages) + Cardinality(Pending) < opt.max_pages
    BY Zenon DEF DispatchTask, Room
  <1>a. ~stopped
    BY Zenon, <1>0, <1>2 DEF Ceasing
  <1>3. /\ queue \in Seq(Queries) /\ attempts \in [Urls -> Nat] /\ seen \subseteq Urls
        /\ retries \in [Urls -> 0..MaxRetries] /\ pages \in Seq(Urls) /\ Len(pages) \in Nat
        /\ opt.max_pages \in Nat
    BY <1>0, Types, LimitType
  <1>4. /\ Len(queue) \in Nat /\ Len(queue) >= 1
        /\ queue' \in Seq(Queries) /\ Len(queue') = Len(queue) - 1
        /\ \A k \in 1..Len(queue) : k # 1 =>
             k - 1 \in 1..Len(queue') /\ queue'[k - 1] = queue[k]
    BY Zenon, <1>2, <1>3, Popped
  <1> DEFINE u == e.url
  <1>5. u \in Urls
    BY Zenon DEF Queries
  <1> HIDE DEF u
  <1>6. /\ \A v \in Urls : v # u => attempts'[v] = attempts[v]
        /\ attempts'[u] = attempts[u] + 1 /\ attempts' \in [Urls -> Nat]
        /\ attempts[u] \in Nat
        /\ task'[i].url = u /\ u \notin seen /\ u \notin Excluded /\ seen' = seen \cup {u}
        /\ queue[1].url = u
    <2>1. /\ task'[i].url = u /\ u \notin seen /\ u \notin Excluded /\ seen' = seen \cup {u}
          /\ queue[1].url = u /\ attempts' = [attempts EXCEPT ![u] = attempts[u] + 1]
      BY Zenon, <1>1 DEF u
    <2>2. attempts[u] \in Nat /\ attempts[u] + 1 \in Nat
      BY <1>3, <1>5
    <2> QED
      BY Zenon, <1>3, <1>5, <2>1, <2>2
  <1>7. \A v \in Urls : attempts[v] > 0 => attempts'[v] > 0
    <2> SUFFICES ASSUME NEW v \in Urls, attempts[v] > 0 PROVE attempts'[v] > 0
      BY Zenon
    <2>1. attempts[u] + 1 > 0
      BY <1>6
    <2> QED
      BY Zenon, <1>6, <2>1
  <1>8. TypeOK'
    BY Zenon, <1>0, <1>1, <1>2, <1>3, <1>4, <1>5, <1>6, Types, TypesNext DEF Slot
  <1>9. /\ i \notin Working /\ i \notin Backing
        /\ Working' = Working \cup {i} /\ Backing' = Backing /\ Known' = Known
        /\ \A j \in Working \cup Backing : task'[j] = task[j]
    <2>1. i \notin Working /\ i \notin Backing
      BY Zenon, <1>1, FiniteSlots
    <2>2. Working' = Working \cup {i} /\ Backing' = Backing
      BY <1>1, <2>1, SlotSets DEF AtWork
    <2>3. Known' = Known
      BY Zenon, <1>2 DEF Known
    <2>4. \A j \in Working \cup Backing : task'[j] = task[j]
      BY Zenon, <1>1, <2>1, FiniteSlots DEF Slot
    <2> QED
      BY Zenon, <2>1, <2>2, <2>3, <2>4
  <1>10. u \notin Known /\ Unsettled' = Unsettled \cup {u}
    <2>1. u \notin Known
      BY Zenon, <1>0, <1>6 DEF Settled
    <2>2. attempts'[u] > 0
      BY <1>6
    <2>3. \A v \in Urls : v # u => (attempts'[v] > 0 <=> attempts[v] > 0)
      BY Zenon, <1>6
    <2> QED
      BY Zenon, <1>5, <1>9, <2>1, <2>2, <2>3 DEF Unsettled
  <1>11. Tried'
    <2> SUFFICES ASSUME NEW v \in Urls
                 PROVE  /\ attempts'[v] <= retries[v] + 1
                        /\ v \notin seen' => attempts'[v] <= retries[v]
      BY Zenon, <1>2 DEF Tried
    <2>1. CASE v = u
      BY <1>0, <1>3, <1>6, <2>1 DEF Tried
    <2>2. CASE v # u
      BY Zenon, <1>0, <1>6, <2>2 DEF Tried
    <2> QED
      BY Zenon, <2>1, <2>2
  <1>12. InFlight'
    <2>1. \A j \in Working : task'[j].url \in seen /\ task'[j].url \notin Known
                             /\ attempts[task'[j].url] > 0
      BY Zenon, <1>0, <1>9 DEF InFlight
    <2>2. \A j \in Working : task'[j].url # u /\ attempts'[task'[j].url] > 0
      BY <1>3, <1>6, <1>7, <2>1
    <2>3. attempts'[u] > 0
      BY <1>6
    <2>4. \A j \in Working' : task'[j].url \in seen' \ Known' /\ attempts'[task'[j].url] > 0
      BY ZenonT(30), <1>6, <1>9, <1>10, <2>1, <2>2, <2>3
    <2>5. \A j, k \in Working' : task'[j].url = task'[k].url => j = k
      <3> SUFFICES ASSUME NEW j \in Working', NEW k \in Working', task'[j].url = task'[k].url
                   PROVE  j = k
        BY Zenon
      <3>1. j \in Working \cup {i} /\ k \in Working \cup {i}
        BY Zenon, <1>9
      <3>2. CASE j \in Working /\ k \in Working
        BY Zenon, <1>0, <1>9, <3>2 DEF InFlight
      <3> QED
        BY Zenon, <1>6, <2>2, <3>1, <3>2
    <2> QED
      BY Zenon, <2>4, <2>5 DEF InFlight
  <1>13. Settled'
    BY Zenon, <1>0, <1>2, <1>6, <1>9 DEF Settled
  <1>14. Limited'
    <2>1. IsFiniteSet(Working) /\ Cardinality(Working) <= Cardinality(Pending)
          /\ Cardinality(Pending) \in Nat
      BY Zenon, FiniteSlots
    <2>2. Cardinality(Working') = Cardinality(Working) + 1 /\ Cardinality(Working) \in Nat
      BY Zenon, <1>9, <2>1, Counting
    <2> QED
      BY <1>2, <1>3, <2>1, <2>2 DEF Limited
  <1>15. Owed'
    <2>1. ASSUME NEW v \in Unsettled'
          PROVE  \/ \E j \in Working' : task'[j].url = v
                 \/ v \notin seen' /\ (Queued(v)' \/ \E j \in Backing' : task'[j].url = v)
      <3>1. CASE v = u
        BY ZenonT(30), <1>6, <1>9, <3>1
      <3>2. CASE v # u
        <4>1. v \in Unsettled /\ (v \notin seen => v \notin seen')
          BY Zenon, <1>6, <1>10, <3>2
        <4>2. \/ \E j \in Working : task[j].url = v
              \/ v \notin seen /\ (Queued(v) \/ \E j \in Backing : task[j].url = v)
          BY ZenonT(30), <1>0, <1>2, <1>a, <4>1 DEF Owed
        <4>3. ASSUME Queued(v) PROVE Queued(v)'
          <5>1. PICK k \in 1..Len(queue) :
                  queue[k].url = v /\ \A j \in 1..k : attempts[queue[j].url] > 0
            BY Zenon, <4>3 DEF Queued
          <5>2. k # 1
            BY Zenon, <1>6, <3>2, <5>1
          <5>3. k - 1 \in 1..Len(queue') /\ queue'[k - 1].url = v
            BY Zenon, <1>4, <5>1, <5>2
          <5>4. ASSUME NEW j \in 1..(k - 1) PROVE attempts'[queue'[j].url] > 0
            <6>1. j + 1 \in 1..k /\ j + 1 \in 1..Len(queue) /\ j + 1 # 1 /\ (j + 1) - 1 = j
              BY <1>4
            <6>2. queue'[j] = queue[j + 1] /\ queue[j + 1] \in Queries
              BY <1>3, <1>4, <6>1
            <6>3. queue[j + 1].url \in Urls
              BY Zenon, <6>2 DEF Queries
            <6> QED
              BY <1>7, <5>1, <6>1, <6>2, <6>3
          <5> QED
            BY Zenon, <5>3, <5>4 DEF Queued
        <4> QED
          BY Zenon, <1>9, <4>1, <4>2, <4>3
      <3> QED
        BY Zenon, <3>1, <3>2
    <2>2. \A j \in Backing' : attempts'[task'[j].url] > 0
      <3>1. \A j \in Backing : task[j].url \in Urls
        BY Zenon, <1>0, Types DEF Backing, Tasks
      <3> QED
        BY Zenon, <1>0, <1>7, <1>9, <3>1 DEF Owed
    <2>3. \A v \in Excluded : attempts'[v] = 0
      BY Zenon, <1>0, <1>6, CrawlConstants DEF Owed
    <2>4. \A v \in Known' : attempts'[v] > 0
      <3>1. Known \subseteq Urls
        BY Zenon, <1>0, <1>3 DEF Settled
      <3> QED
        BY Zenon, <1>0, <1>7, <1>9, <3>1 DEF Owed
    <2> QED
      BY Zenon, <2>1, <2>2, <2>3, <2>4 DEF Owed
  <1>16. Reserved'
    <2>1. ASSUME opt.max_pages > 0 PROVE Len(pages) + Cardinality(Unsettled') <= opt.max_pages
      <3>1. CASE u \in Unsettled
        <4>1. Unsettled' = Unsettled
          BY Zenon, <1>10, <3>1
        <4> QED
          BY Zenon, <1>0, <2>1, <4>1 DEF Reserved
      <3>2. CASE u \notin Unsettled
        <4>1. ~(attempts[u] > 0)
          BY Zenon, <1>5, <1>10, <3>2 DEF Unsettled
        <4>2. \A v : ~Queued(v)
          <5> SUFFICES ASSUME NEW v, Queued(v) PROVE FALSE
            BY Zenon
          <5>1. PICK k \in 1..Len(queue) : \A j \in 1..k : attempts[queue[j].url] > 0
            BY Zenon DEF Queued
          <5>2. 1 \in 1..k
            OBVIOUS
          <5> QED
            BY Zenon, <1>6, <4>1, <5>1, <5>2
        <4>3. \A v \in Unsettled : \E j \in Pending : task[j].url = v
          BY <1>0, <1>2, <1>a, <4>2, FiniteSlots DEF Owed
        <4>4. Cardinality(Unsettled) <= Cardinality(Pending) /\ Cardinality(Pending) \in Nat
          <5> DEFINE P == {j \in Pending : task[j].url \in Unsettled}
                     f == [j \in P |-> task[j].url]
          <5>1. /\ IsFiniteSet(P) /\ Cardinality(P) \in Nat /\ Cardinality(P) <= Cardinality(Pending)
                /\ Cardinality(Pending) \in Nat
            BY Zenon, FiniteSlots
          <5>2. f \in [P -> Unsettled] /\ \A v \in Unsettled : \E j \in P : f[j] = v
            BY Zenon, <4>3
          <5> HIDE DEF P, f
          <5>3. Cardinality(Unsettled) <= Cardinality(P)
            BY Zenon, <5>1, <5>2, Onto
          <5> QED
            BY <5>1, <5>3, FiniteUnsettled
        <4>5. Cardinality(Unsettled') = Cardinality(Unsettled) + 1 /\ Cardinality(Unsettled) \in Nat
          BY Zenon, <1>10, <3>2, FiniteUnsettled, Counting
        <4> QED
          BY <1>2, <1>3, <2>1, <4>4, <4>5
      <3> QED
        BY Zenon, <3>1, <3>2
    <2> QED
      BY Zenon, <1>2, <2>1 DEF Reserved
  <1>17. Reaches'
    <2> DEFINE M == Range(Truncated(Sitemap))
    <2>1. Truncated(Sitemap)' = Truncated(Sitemap)
      BY Zenon, <1>2 DEF Truncated
    <2>2. \A v \in seen' : attempts'[v] > 0 \/ v \in Range(filtered')
      <3>1. attempts'[u] > 0
        BY <1>6
      <3> QED
        BY <1>0, <1>2, <1>3, <1>6, <1>7, <3>1 DEF Reaches
    <2>3. CASE u = Start \/ attempts[Start] > 0 \/ Start \in Range(filtered)
      <3>1. attempts'[Start] > 0 \/ Start \in Range(filtered')
        BY <1>2, <1>6, <1>7, <2>3, CrawlConstants
      <3> QED
        BY Zenon, <2>2, <3>1 DEF Reaches
    <2>4. CASE ~(u = Start \/ attempts[Start] > 0 \/ Start \in Range(filtered))
      <3>1. \A v \in Urls : attempts[v] > 0 => v \in M
        BY Zenon, <1>0, <2>4 DEF Reaches
      <3>2. PICK k \in 1..Len(queue) :
              queue[k].url = Start /\ \A j \in 1..(k - 1) : queue[j].url \in M
        BY Zenon, <1>0, <2>4 DEF Reaches
      <3> HIDE DEF M
      <3>3. k # 1
        BY Zenon, <1>6, <2>4, <3>2
      <3>4. k - 1 \in 1..Len(queue') /\ queue'[k - 1].url = Start /\ 1 \in 1..(k - 1)
        BY <1>4, <3>2, <3>3
      <3>5. u \in M
        BY Zenon, <1>6, <3>2, <3>4
      <3>6. \A v \in Urls : attempts'[v] > 0 => v \in M
        BY Zenon, <1>6, <3>1, <3>5
      <3>7. ASSUME NEW j \in 1..((k - 1) - 1) PROVE queue'[j].url \in M
        <4>1. j + 1 \in 1..(k - 1) /\ j + 1 \in 1..Len(queue) /\ j + 1 # 1 /\ (j + 1) - 1 = j
          BY <1>4
        <4> QED
          BY Zenon, <1>4, <3>2, <4>1
      <3>8. \E l \in 1..Len(queue') :
              queue'[l].url = Start /\ \A j \in 1..(l - 1) : queue'[j].url \in M
        BY Zenon, <3>4, <3>7
      <3> QED
        BY Zenon, <2>1, <2>2, <3>6, <3>8 DEF Reaches, M
    <2> QED
      BY Zenon, <2>3, <2>4
  <1>18. Unstarted' /\ Arrives'
    BY Zenon, <1>0, <1>2 DEF Unstarted, Arrives
  <1>19. Ceasing'
    <2>1. late = 0 /\ late' = 0
      BY Zenon, <1>0, <1>2 DEF Ceasing
    <2>2. Waiting' \subseteq Slots
      BY Zenon DEF Waiting
    <2>3. Cardinality(Waiting') <= Concurrency /\ Cardinality(Waiting') \in Nat
      BY Zenon, <2>2, FiniteSlots
    <2>4. late' + Cardinality(Waiting') <= Concurrency
      BY <2>1, <2>3
    <2> QED
      BY Zenon, <1>2, <1>a, <2>1, <2>4 DEF Ceasing
  <1> QED
    BY <1>8, <1>11, <1>12, <1>13, <1>14, <1>15, <1>16, <1>17, <1>18, <1>19 DEF IInv

-----------------------------------------------------------------------------
(***************************************************************************)
(* The theorems.                                                           *)
(***************************************************************************)
LEMMA CrawlInit ==
    ASSUME Init
    PROVE  IInv
  <1>1. /\ opt \in Options /\ main = "seed" /\ queue = <<Entry(Start, 0, FALSE)>> /\ seen = {}
        /\ retries = [u \in Urls |-> 0] /\ task = [i \in Slots |-> Idle]
        /\ pages = <<>> /\ errors = <<>> /\ filtered = <<>> /\ status = "processing"
        /\ stopped = FALSE /\ attempts = [u \in Urls |-> 0] /\ late = 0
    BY Zenon DEF Init, Options
  <1>2. Entry(Start, 0, FALSE) \in Queries /\ Entry(Start, 0, FALSE).url = Start
    <2>1. Start \in Urls /\ 0 \in 0..MaxDepth /\ FALSE \in BOOLEAN
      BY CrawlConstants
    <2> QED
      BY Zenon, <2>1, Entries
  <1>3. queue \in Seq(Queries) /\ Len(queue) = 1 /\ queue[1].url = Start
    <2> DEFINE e == Entry(Start, 0, FALSE)
    <2>1. queue = <<e>> /\ e \in Queries /\ e.url = Start
      BY Zenon, <1>1, <1>2
    <2> HIDE DEF e
    <2> QED
      BY <2>1
  <1>4. TypeOK
    <2>1. task \in [Slots -> Tasks] /\ retries \in [Urls -> 0..MaxRetries]
      BY <1>1, IdleTask DEF MaxRetries
    <2>2. main \in Places /\ attempts \in [Urls -> Nat] /\ late \in Nat /\ <<>> \in Seq(Urls)
      BY <1>1 DEF Places
    <2> QED
      BY Zenon, <1>1, <1>3, <2>1, <2>2, Types
  <1>5. Working = {} /\ Backing = {} /\ Waiting = {} /\ \A u \in Urls : attempts[u] = 0 /\ retries[u] = 0
    BY Zenon, <1>1, IdleTask DEF Working, AtWork, Backing, Waiting
  <1>6. Range(pages) = {} /\ Range(errors) = {} /\ Known = {} /\ Unsettled = {}
    BY <1>1, <1>5 DEF Range, Known, Unsettled
  <1>7. Tried /\ InFlight
    BY <1>5 DEF Tried, InFlight
  <1>8. Settled
    BY <1>1, <1>6 DEF Settled, IsInjective
  <1>9. Len(pages) = 0 /\ Cardinality({}) = 0 /\ opt.max_pages \in Nat
    BY Zenon, <1>1, <1>4, LimitType, FS_EmptySet
  <1>10. Limited /\ Reserved
    BY <1>5, <1>6, <1>9 DEF Limited, Reserved
  <1>11. Owed
    BY Zenon, <1>5, <1>6, CrawlConstants DEF Owed
  <1>12. Reaches
    <2>1. 1 \in 1..Len(queue) /\ 1..(1 - 1) = {}
      BY <1>3
    <2>2. \A u \in seen : attempts[u] > 0 \/ u \in Range(filtered)
      BY Zenon, <1>1
    <2>3. \A u \in Urls : attempts[u] > 0 => u \in Range(Truncated(Sitemap))
      BY <1>5
    <2>4. \E k \in 1..Len(queue) :
             /\ queue[k].url = Start
             /\ \A j \in 1..(k - 1) : queue[j].url \in Range(Truncated(Sitemap))
      BY Zenon, <1>3, <2>1
    <2> QED
      BY Zenon, <2>2, <2>3, <2>4 DEF Reaches
  <1>13. Arrives /\ Unstarted
    BY Zenon, <1>1, <1>5 DEF Arrives, Unstarted
  <1>14. Ceasing
    <2>1. late + Cardinality(Waiting) <= Concurrency
      BY <1>1, <1>5, <1>9, FiniteSlots
    <2> QED
      BY Zenon, <1>1, <2>1 DEF Ceasing
  <1> QED
    BY <1>4, <1>7, <1>8, <1>10, <1>11, <1>12, <1>13, <1>14 DEF IInv

LEMMA CrawlStep ==
    ASSUME IInv, [Next]_vars
    PROVE  IInv'
  <1>1. CASE Seed
    BY Zenon, <1>1, SeedStep
  <1>2. CASE LoopHead
    BY <1>2, LoopHeadStep
  <1>3. CASE DispatchFull
    BY <1>3, DispatchFullStep
  <1>4. CASE DispatchSkip
    BY <1>4, DispatchSkipStep
  <1>5. CASE DispatchTask
    BY <1>5, DispatchTaskStep
  <1>6. CASE Wake \/ Finish \/ Expire \/ Interrupt
    BY Zenon, <1>6, Leaving, LeaveSteps
  <1>7. CASE CancelJob \/ Terminated \/ UNCHANGED vars
    BY Zenon, <1>7, CancelStep DEF Terminated
  <1>8. ASSUME NEW i \in Slots, Scrape(i) PROVE IInv'
    BY Zenon, <1>8, TaskSteps
  <1> QED
    BY <1>1, <1>2, <1>3, <1>4, <1>5, <1>6, <1>7, <1>8 DEF Next, Run

THEOREM CrawlInductive == Spec => []IInv
  <1>1. Init => IInv
    BY Zenon, CrawlInit
  <1>2. IInv /\ [Next]_vars => IInv'
    BY Zenon, CrawlStep
  <1> QED
    BY <1>1, <1>2, PTL DEF Spec

(***************************************************************************)
(* _scrape_url and _create_scrape_task never fetch a URL twice at once, or *)
(* more than MaxRetries + 1 times, whatever the pages link to.             *)
(***************************************************************************)
THEOREM CrawlFetchesBounded == Spec => []FetchesBounded
  <1>1. ASSUME IInv PROVE FetchesBounded
    <2>1. \A i, j \in Slots : i # j /\ {task[i].pc, task[j].pc} \subseteq AtWork
                              => task[i].url # task[j].url
      BY Zenon, <1>1 DEF IInv, InFlight, Working
    <2>2. ASSUME NEW u \in Urls PROVE attempts[u] <= MaxRetries + 1
      <3>1. /\ retries \in [Urls -> 0..MaxRetries] /\ attempts \in [Urls -> Nat]
            /\ attempts[u] <= retries[u] + 1
        BY Zenon, <1>1, Types DEF IInv, Tried
      <3> QED
        BY <3>1 DEF MaxRetries
    <2> QED
      BY Zenon, <2>1, <2>2 DEF FetchesBounded
  <1>2. IInv => FetchesBounded
    BY <1>1
  <1> QED
    BY <1>2, CrawlInductive, PTL

(***************************************************************************)
(* Every URL is at most one page or one error entry, no two pages have the *)
(* same content, and there are at most max_pages of them.                  *)
(***************************************************************************)
THEOREM CrawlSettledOnce == Spec => []SettledOnce
  <1>1. ASSUME IInv PROVE SettledOnce
    <2>1. TypeOK /\ Settled /\ Limited /\ pages \in Seq(Urls) /\ errors \in Seq(Urls)
      BY Zenon, <1>1, Types DEF IInv
    <2>2. IsInjective(pages \o errors)
      BY Zenon, <2>1, Joined DEF Settled
    <2>3. opt.max_pages > 0 => Len(pages) <= opt.max_pages
      <3>1. /\ Len(pages) \in Nat /\ opt.max_pages \in Nat /\ Cardinality(Working) \in Nat
        BY <2>1, LimitType, FiniteSlots
      <3> QED
        BY <2>1, <3>1 DEF Limited
    <2> QED
      BY Zenon, <2>1, <2>2, <2>3 DEF SettledOnce, Settled
  <1>2. IInv => SettledOnce
    BY <1>1
  <1> QED
    BY <1>2, CrawlInductive, PTL

(***************************************************************************)
(* When run() returns and was not cancelled, every URL it tried is a page  *)
(* or an error entry, and the start URL was tried or filtered.             *)
(***************************************************************************)
THEOREM CrawlAccounted == Spec => []Accounted
  <1>1. ASSUME IInv, main = "returned", ~stopped
        PROVE  /\ \A u \in Urls : attempts[u] > 0 => u \in Range(pages \o errors)
               /\ opt.max_pages # 1 => attempts[Start] > 0 \/ Start \in Range(filtered)
    <2>1. pages \in Seq(Urls) /\ errors \in Seq(Urls) /\ Unsettled = {}
      BY Zenon, <1>1, Types DEF IInv, Reserved
    <2>2. Range(pages \o errors) = Known
      BY <2>1, Joined DEF Known
    <2>3. \A u \in Urls : attempts[u] > 0 => u \in Known
      BY Zenon, <2>1 DEF Unsettled
    <2> QED
      BY Zenon, <1>1, <2>2, <2>3 DEF IInv, Arrives
  <1>2. IInv => Accounted
    BY Zenon, <1>1 DEF Accounted
  <1> QED
    BY <1>2, CrawlInductive, PTL

(***************************************************************************)
(* Of the tasks that run() has created, or is creating, when the job is    *)
(* cancelled in the store, as many as may run at once may still ask the    *)
(* scraper for their page; no other fetch begins.                          *)
(***************************************************************************)
THEOREM CrawlLateFetchesBounded == Spec => []LateFetchesBounded
  <1>1. ASSUME IInv PROVE LateFetchesBounded
    <2>1. late \in Nat /\ Cardinality(Waiting) \in Nat /\ Concurrency \in Nat
      BY Zenon, <1>1, Types, FiniteSlots DEF IInv
    <2> QED
      BY <1>1, <2>1 DEF IInv, Ceasing, LateFetchesBounded
  <1>2. IInv => LateFetchesBounded
    BY <1>1
  <1> QED
    BY <1>2, CrawlInductive, PTL
=============================================================================
