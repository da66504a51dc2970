----------------------------- MODULE CrawlEngine -----------------------------
(***************************************************************************)
(* The breadth-first crawl of agent-svc/agent/crawler.py (CrawlEngine.run) *)
(* and the deduplication of agent-svc/agent/dedup.py.                      *)
(*                                                                         *)
(* The main task and the scrape tasks share one event loop.  A synchronous *)
(* stretch of the main task is cut into steps (loop, dispatch), but a      *)
(* scrape task moves only while the main task awaits (Yielded).  A URL     *)
(* stands for its normalised form.  The callbacks of the crawl stream and  *)
(* of the crawl job never suspend on an error, so recording an error and   *)
(* deciding about a retry is one step.                                     *)
(***************************************************************************)
EXTENDS Naturals, Sequences, FiniteSets, Functions

CONSTANTS Urls,        \* URLs of the site
          Start,       \* the URL the crawl starts from
          Links,       \* Links[u]: the links of page u that pass the link filters
          Content,     \* Content[u]: the hash of the page's markdown, or NoHash
          Canonical,   \* Canonical[u]: the page's canonical URL
          Excluded,    \* URLs that the path filters reject
          Sitemap,     \* the sitemap's URLs, in order
          LowValue,    \* URLs of index pages, which the sitemap does not seed
          Limits,      \* values of max_pages, 0 for no limit
          MaxDepth,
          Concurrency, \* _effective_concurrency
          NoHash

ASSUME CrawlConstants ==
  /\ IsFiniteSet(Urls) /\ Start \in Urls /\ Excluded \subseteq Urls
  /\ Links \in [Urls -> Seq(Urls)] /\ Sitemap \in Seq(Urls) /\ LowValue \subseteq Urls
  /\ Canonical \in [Urls -> Urls] /\ DOMAIN Content = Urls
  /\ Limits \subseteq Nat /\ MaxDepth \in Nat /\ Concurrency \in Nat \ {0}

MaxRetries == 2

VARIABLES opt,      \* options: max_pages and sitemap_mode
          main,     \* where run() is
          queue,    \* _queue: [url, depth, sm] (sm: from_sitemap)
          seen,     \* _seen
          retries,  \* _retry_count
          task,     \* task[i]: the scrape task in slot i (_pending_tasks)
          pages, errors, filtered, \* _pages, _errors, _filtered_out
          status,   \* the job's status in the store
          stopped,  \* _cancel_flag
          attempts, \* history: scrape tasks created per URL
          late      \* history: scrapes begun since the job was cancelled

history == <<attempts, late>>
vars == <<opt, main, queue, seen, retries, task, pages, errors, filtered, status,
          stopped, history>>

Slots == 1..Concurrency
Idle  == [pc |-> "idle", url |-> Start, depth |-> 0, sm |-> FALSE, html |-> FALSE]

Pending == {i \in Slots : task[i].pc # "idle"}
Done    == {i \in Pending : task[i].pc \in {"done", "fatal"}}
Ended   == main \in {"returned", "aborted", "raised"}

\* run() is at an await, so that the other tasks of the loop can run.
Yielded == main \in {"seed", "wait", "drain"}

Entry(u, d, sm) == [url |-> u, depth |-> d, sm |-> sm]

\* The URLs of s that are in T, in their order.
Kept(s, T) ==
  LET kept[i \in 0..Len(s)] ==
        IF i = 0 THEN <<>>
        ELSE IF s[i] \in T THEN Append(kept[i - 1], s[i]) ELSE kept[i - 1]
  IN kept[Len(s)]

Init ==
  /\ opt \in [max_pages : Limits, sitemap_mode : {"include", "skip", "only"}]
  /\ main = "seed"
  /\ queue = <<Entry(Start, 0, FALSE)>>
  /\ seen = {}
  /\ retries = [u \in Urls |-> 0]
  /\ task = [i \in Slots |-> Idle]
  /\ pages = <<>> /\ errors = <<>> /\ filtered = <<>>
  /\ status = "processing"
  /\ stopped = FALSE
  /\ attempts = [u \in Urls |-> 0]
  /\ late = 0

-----------------------------------------------------------------------------
(***************************************************************************)
(* run: the sitemap's URLs are put before the start URL, the last one      *)
(* first; a sitemap that cannot be fetched is empty.                       *)
(***************************************************************************)
\* Mutant: the sitemap is not truncated.
Whole(urls) == urls

Truncated(urls) ==
  IF opt.max_pages > 1 THEN SubSeq(urls, 1, IF Len(urls) < opt.max_pages - 1
                                            THEN Len(urls) ELSE opt.max_pages - 1)
                       ELSE urls

\* Low-value URLs, repeated ones and the start URL are dropped after the cut.
Seeded(urls) ==
  LET cut   == Truncated(urls)
      first == {i \in 1..Len(cut) : /\ cut[i] \notin LowValue \cup {Start}
                                    /\ \A j \in 1..(i - 1) : cut[j] # cut[i]}
      kept  == Kept([i \in 1..Len(cut) |-> i], first)
  IN [k \in 1..Len(kept) |-> Entry(cut[kept[(Len(kept) - k) + 1]], 0, TRUE)] \o queue

Seed ==
  /\ main = "seed"
  /\ main' = "loop"
  /\ \E urls \in IF opt.sitemap_mode = "skip" THEN {<<>>} ELSE {Sitemap, <<>>} :
       queue' = Seeded(urls)
  /\ UNCHANGED <<opt, seen, retries, task, pages, errors, filtered, status, stopped, history>>

(***************************************************************************)
(* run: the head of the loop.                                              *)
(***************************************************************************)
AtLimit == opt.max_pages > 0 /\ Len(pages) >= opt.max_pages

\* Mutant: the job's status is not read.
LoopHeadBlind ==
  /\ main = "loop"
  /\ main' = IF (queue = <<>> /\ Pending = {}) \/ AtLimit THEN "drain" ELSE "dispatch"
  /\ UNCHANGED <<opt, queue, seen, retries, task, pages, errors, filtered, status,
                 stopped, history>>

\* The job's status is read only when none of the checks before it leaves.
LoopHead ==
  /\ main = "loop"
  /\ LET over == (queue = <<>> /\ Pending = {}) \/ AtLimit
     IN /\ main' = IF over \/ stopped \/ status = "cancelled" THEN "drain" ELSE "dispatch"
        /\ stopped' = (stopped \/ (~over /\ status = "cancelled"))
  /\ UNCHANGED <<opt, queue, seen, retries, task, pages, errors, filtered, status, history>>

\* The cancel token or the maximum duration ends the crawl with an exception;
\* the teardown cancels the tasks in flight and waits for them.
Expire ==
  /\ main = "loop"
  /\ queue # <<>> \/ Pending # {}
  /\ ~AtLimit
  /\ main' = "raised"
  /\ task' = [i \in Slots |-> Idle]
  /\ UNCHANGED <<opt, queue, seen, retries, pages, errors, filtered, status, stopped, history>>

(***************************************************************************)
(* run: the dispatch loop and _create_scrape_task.  A skipped URL ends the *)
(* dispatch loop; the main task then waits if a task is pending.           *)
(***************************************************************************)
\* Mutant: the pages in flight do not count against max_pages.
RoomRetained ==
  /\ queue # <<>>
  /\ Cardinality(Pending) < Concurrency
  /\ opt.max_pages = 0 \/ Len(pages) < opt.max_pages

Room ==
  /\ queue # <<>>
  /\ Cardinality(Pending) < Concurrency
  /\ opt.max_pages = 0 \/ Len(pages) + Cardinality(Pending) < opt.max_pages

\* Mutant: the main task waits although no task is pending.
AfterDispatchWaits(q) == IF Pending = {} /\ q = <<>> THEN "drain" ELSE "wait"

AfterDispatch(q) == IF Pending # {} THEN "wait" ELSE IF q = <<>> THEN "drain" ELSE "loop"

DispatchFull ==
  /\ main = "dispatch"
  /\ ~Room
  /\ main' = AfterDispatch(queue)
  /\ UNCHANGED <<opt, queue, seen, retries, task, pages, errors, filtered, status,
                 stopped, history>>

\* Mutant: only URLs that are settled are skipped.
SkippedSettled(e) == e.url \in Range(pages \o errors) \/ e.depth > MaxDepth

Skipped(e) == e.url \in seen \/ e.depth > MaxDepth

DispatchSkip ==
  /\ main = "dispatch"
  /\ Room
  /\ LET e == Head(queue) IN
       /\ Skipped(e) \/ e.url \in Excluded
       /\ queue' = Tail(queue)
       /\ main' = AfterDispatch(Tail(queue))
       /\ seen' = IF Skipped(e) THEN seen ELSE seen \cup {e.url}
       /\ filtered' = IF Skipped(e) THEN filtered ELSE Append(filtered, e.url)
  /\ UNCHANGED <<opt, retries, task, pages, errors, status, stopped, history>>

DispatchTask ==
  /\ main = "dispatch"
  /\ Room
  /\ LET e == Head(queue)
         i == CHOOSE i \in Slots \ Pending : \A j \in Slots \ Pending : i <= j
     IN /\ ~Skipped(e) /\ e.url \notin Excluded
        /\ queue' = Tail(queue)
        /\ seen' = seen \cup {e.url}
        /\ task' = [task EXCEPT ![i] = [pc |-> "start", url |-> e.url, depth |-> e.depth,
                                        sm |-> e.sm, html |-> FALSE]]
        /\ attempts' = [attempts EXCEPT ![e.url] = @ + 1]
  /\ UNCHANGED <<opt, main, retries, pages, errors, filtered, status, stopped, late>>

(***************************************************************************)
(* run: the wait for the first task to end.  A start URL that cannot be    *)
(* scraped ends the crawl; other failures of a task are logged.            *)
(***************************************************************************)
Wake ==
  /\ main = "wait"
  /\ Done # {}
  /\ LET fatal == \E i \in Done : task[i].pc = "fatal"
     IN /\ main' = IF fatal THEN "aborted" ELSE "loop"
        /\ task' = [i \in Slots |-> IF fatal \/ i \in Done THEN Idle ELSE task[i]]
  /\ UNCHANGED <<opt, queue, seen, retries, pages, errors, filtered, status, stopped, history>>

\* The wait for the tasks in flight when the loop was left, and the return.
Finish ==
  /\ main = "drain"
  /\ Pending = Done
  /\ main' = "returned"
  /\ task' = [i \in Slots |-> Idle]
  /\ UNCHANGED <<opt, queue, seen, retries, pages, errors, filtered, status, stopped, history>>

\* Forced cancellation of the owning task, at any of its awaits.
Interrupt ==
  /\ Yielded
  /\ main' = "raised"
  /\ task' = [i \in Slots |-> Idle]
  /\ UNCHANGED <<opt, queue, seen, retries, pages, errors, filtered, status, stopped, history>>

-----------------------------------------------------------------------------
(***************************************************************************)
(* _scrape_url.                                                            *)
(***************************************************************************)
At(i, pc) == Yielded /\ task[i].pc = pc

Goto(i, pc) == [task EXCEPT ![i].pc = pc]

\* The task's first step: it ends if the crawl was stopped, else it is held, by
\* the delay between scrapes and then by the admission of ScraperClient.scrape.
Begin(i) ==
  /\ At(i, "start")
  /\ task' = Goto(i, IF stopped THEN "done" ELSE "held")
  /\ UNCHANGED <<opt, main, queue, seen, retries, pages, errors, filtered, status,
                 stopped, history>>

\* Admitted: the page is asked of the scraper service, whatever the job's status.
Fetch(i) ==
  /\ At(i, "held")
  /\ task' = Goto(i, "scrape")
  /\ late' = IF status = "cancelled" THEN late + 1 ELSE late
  /\ UNCHANGED <<opt, main, queue, seen, retries, pages, errors, filtered, status,
                 stopped, attempts>>

\* The outcome of the scrape; the cache, a refused admission and the timeout also
\* settle a task that is held.
Scraping(i) == At(i, "held") \/ At(i, "scrape")

\* A timeout, an exception, a robots refusal or a cache miss: an error entry
\* and no retry, whatever the depth.
GiveUp(i) ==
  /\ Scraping(i)
  /\ errors' = Append(errors, task[i].url)
  /\ task' = Goto(i, "done")
  /\ UNCHANGED <<opt, main, queue, seen, retries, pages, filtered, status, stopped, history>>

\* A failed result or a barrier page: the start URL aborts the crawl, another
\* URL is retried twice; its error entry is removed, it leaves _seen at once
\* and the queue gets it back after the backoff.
Retryable(i) == task[i].depth > 0 \/ task[i].sm

FailStart(i) ==
  /\ Scraping(i)
  /\ ~Retryable(i)
  /\ errors' = Append(errors, task[i].url)
  /\ task' = Goto(i, "fatal")
  /\ UNCHANGED <<opt, main, queue, seen, retries, pages, filtered, status, stopped, history>>

\* Mutant: a retry is not counted.
FailRetryUncounted(i) ==
  /\ Scraping(i)
  /\ Retryable(i)
  /\ retries[task[i].url] < MaxRetries
  /\ retries' = retries
  /\ seen' = seen \ {task[i].url}
  /\ errors' = errors
  /\ task' = Goto(i, "backoff")
  /\ UNCHANGED <<opt, main, queue, pages, filtered, status, stopped, history>>

\* Mutant: a URL to retry stays in _seen.
FailRetrySeen(i) ==
  /\ Scraping(i)
  /\ Retryable(i)
  /\ retries[task[i].url] < MaxRetries
  /\ retries' = [retries EXCEPT ![task[i].url] = @ + 1]
  /\ seen' = seen
  /\ errors' = errors
  /\ task' = Goto(i, "backoff")
  /\ UNCHANGED <<opt, main, queue, pages, filtered, status, stopped, history>>

\* Mutant: the error entry of a retried attempt stays.
FailRetryReported(i) ==
  /\ Scraping(i)
  /\ Retryable(i)
  /\ retries[task[i].url] < MaxRetries
  /\ retries' = [retries EXCEPT ![task[i].url] = @ + 1]
  /\ seen' = seen \ {task[i].url}
  /\ errors' = Append(errors, task[i].url)
  /\ task' = Goto(i, "backoff")
  /\ UNCHANGED <<opt, main, queue, pages, filtered, status, stopped, history>>

FailRetry(i) ==
  /\ Scraping(i)
  /\ Retryable(i)
  /\ retries[task[i].url] < MaxRetries
  /\ retries' = [retries EXCEPT ![task[i].url] = @ + 1]
  /\ seen' = seen \ {task[i].url}
  /\ task' = Goto(i, "backoff")
  /\ UNCHANGED <<opt, main, queue, pages, errors, filtered, status, stopped, history>>

FailForGood(i) ==
  /\ Scraping(i)
  /\ Retryable(i)
  /\ retries[task[i].url] = MaxRetries
  /\ errors' = Append(errors, task[i].url)
  /\ task' = Goto(i, "done")
  /\ UNCHANGED <<opt, main, queue, seen, retries, pages, filtered, status, stopped, history>>

BackoffEnds(i) ==
  /\ At(i, "backoff")
  /\ queue' = <<Entry(task[i].url, task[i].depth, task[i].sm)>> \o queue
  /\ task' = Goto(i, "done")
  /\ UNCHANGED <<opt, main, seen, retries, pages, errors, filtered, status, stopped, history>>

\* A good page: its HTML is fetched before it is compared with the others.
Scraped(i) ==
  /\ Scraping(i)
  /\ task' = Goto(i, "html")
  /\ UNCHANGED <<opt, main, queue, seen, retries, pages, errors, filtered, status,
                 stopped, history>>

\* check_canonical and is_duplicate_content.
DuplicateOf(u, html) ==
  \/ html /\ Canonical[u] # u /\ Canonical[u] \in Range(pages)
  \/ Content[u] # NoHash /\ \E p \in Range(pages) : Content[p] = Content[u]

HtmlFetched(i) ==
  /\ At(i, "html")
  /\ \E html \in BOOLEAN :
       IF DuplicateOf(task[i].url, html)
       THEN /\ errors' = Append(errors, task[i].url)
            /\ task' = Goto(i, "done")
            /\ UNCHANGED pages
       ELSE /\ pages' = Append(pages, task[i].url)
            /\ task' = [task EXCEPT ![i].pc = "paged", ![i].html = html]
            /\ UNCHANGED errors
  /\ UNCHANGED <<opt, main, queue, seen, retries, filtered, status, stopped, history>>

\* The links not seen yet, one level deeper.
Children(i) ==
  LET new == Kept(Links[task[i].url], Urls \ seen)
  IN [k \in 1..Len(new) |-> Entry(new[k], task[i].depth + 1, FALSE)]

\* After the page callback the links are queued; a page whose HTML was not
\* fetched before gets a second chance.
Discover(i) ==
  /\ At(i, "paged")
  /\ \E html \in {task[i].html, TRUE} :
       queue' = IF html /\ task[i].depth < MaxDepth /\ opt.sitemap_mode # "only"
                THEN queue \o Children(i) ELSE queue
  /\ task' = Goto(i, "done")
  /\ UNCHANGED <<opt, main, seen, retries, pages, errors, filtered, status, stopped, history>>

\* DELETE of the crawl marks the job in the store; another process of the service
\* may handle it, so that run() need not be at an await.
CancelJob ==
  /\ ~Ended
  /\ status = "processing"
  /\ status' = "cancelled"
  /\ UNCHANGED <<opt, main, queue, seen, retries, task, pages, errors, filtered,
                 stopped, history>>

Run == Seed \/ LoopHead \/ DispatchFull \/ DispatchSkip \/ DispatchTask \/ Wake \/ Finish

Scrape(i) ==
  \/ Begin(i) \/ Fetch(i) \/ GiveUp(i) \/ FailStart(i) \/ FailRetry(i) \/ FailForGood(i)
  \/ BackoffEnds(i) \/ Scraped(i) \/ HtmlFetched(i) \/ Discover(i)

Terminated == Ended /\ UNCHANGED vars

Next == Run \/ Expire \/ Interrupt \/ CancelJob \/ (\E i \in Slots : Scrape(i)) \/ Terminated

Spec == Init /\ [][Next]_vars

(***************************************************************************)
(* The main task runs when it is ready; a scrape has a timeout of a minute *)
(* and a backoff of seconds, so every scrape task moves on.                *)
(***************************************************************************)
FairSpec == Spec /\ WF_vars(Run) /\ \A i \in Slots : WF_vars(Scrape(i))

-----------------------------------------------------------------------------
\* Type correctness.  Retry counts stay within MaxRetries and queued depths
\* within max_depth.
TypeOK ==
  /\ opt \in [max_pages : Limits, sitemap_mode : {"include", "skip", "only"}]
  /\ main \in {"seed", "loop", "dispatch", "wait", "drain", "returned", "aborted", "raised"}
  /\ queue \in Seq([url : Urls, depth : 0..MaxDepth, sm : BOOLEAN])
  /\ seen \subseteq Urls
  /\ retries \in [Urls -> 0..MaxRetries]
  /\ task \in [Slots -> [pc : {"idle", "start", "held", "scrape", "backoff", "html", "paged",
                               "done", "fatal"},
                         url : Urls, depth : 0..MaxDepth, sm : BOOLEAN, html : BOOLEAN]]
  /\ pages \in Seq(Urls) /\ errors \in Seq(Urls) /\ filtered \in Seq(Urls)
  /\ status \in {"processing", "cancelled"} /\ stopped \in BOOLEAN
  /\ attempts \in [Urls -> Nat] /\ late \in Nat

AtWork == {"start", "held", "scrape", "html"}

(***************************************************************************)
(* No two tasks work on the same URL at once, and a URL is fetched at most *)
(* MaxRetries + 1 times, although a failing URL leaves _seen before its    *)
(* backoff and other pages may link to it then.                            *)
(***************************************************************************)
FetchesBounded ==
  /\ \A i, j \in Slots : i # j /\ {task[i].pc, task[j].pc} \subseteq AtWork
                         => task[i].url # task[j].url
  /\ \A u \in Urls : attempts[u] <= MaxRetries + 1

(***************************************************************************)
(* A URL is settled once: it is retained once, or has one error entry, or  *)
(* neither; no two retained pages have the same content; and the crawl     *)
(* never retains more than max_pages pages, however many tasks are in      *)
(* flight, failing or waiting to retry.                                    *)
(***************************************************************************)
SettledOnce ==
  /\ TypeOK
  /\ IsInjective(pages \o errors)
  /\ \A p, q \in Range(pages) : p # q /\ Content[p] = Content[q] => Content[p] = NoHash
  /\ opt.max_pages > 0 => Len(pages) <= opt.max_pages

(***************************************************************************)
(* A crawl that was not cancelled accounts for every URL it tried: it is a *)
(* page or an error, and no retry is lost to the page limit.  The start    *)
(* URL is among them unless it was filtered: run() truncates the sitemap   *)
(* to reserve a page for it, which works when max_pages leaves room for    *)
(* both.                                                                   *)
(***************************************************************************)
Accounted ==
  main = "returned" /\ ~stopped =>
    /\ \A u \in Urls : attempts[u] > 0 => u \in Range(pages \o errors)
    /\ opt.max_pages # 1 => attempts[Start] > 0 \/ Start \in Range(filtered)

(***************************************************************************)
(* A cancelled job soon stops fetching: the status is read at the head of  *)
(* the loop only, so tasks that were created then, or that the dispatch    *)
(* loop is creating, may still sleep, be admitted and ask the scraper for  *)
(* their page, but no more of them than may run at once (one, if a delay   *)
(* is set).                                                                *)
(***************************************************************************)
LateFetchesBounded == late <= Concurrency

(***************************************************************************)
(* The crawl ends, whatever the pages link to and however often they fail. *)
(***************************************************************************)
CrawlEnds == <>Ended
=============================================================================
