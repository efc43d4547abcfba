---------------------------- MODULE AsyncCrawler ----------------------------
(***************************************************************************)
(* AsyncCrawler of python/async_crawler.py: crawl_all_with_client, an      *)
(* async generator that keeps at most max_pending crawls pending, at most  *)
(* max_pending_per_domain of them in one domain, and queues the other      *)
(* tasks by domain.                                                        *)
(*                                                                         *)
(* The generator gives the event loop up in two places only: in its wait   *)
(* for the first crawl that completes, and in its yield of a result.  A    *)
(* crawl always completes, with a response or an error: crawl_one catches  *)
(* every exception and the client has a timeout.                           *)
(*                                                                         *)
(* The consumer of a result may abandon the generator, and call the        *)
(* crawler again with the rest of the same iterator.                       *)
(***************************************************************************)
EXTENDS Integers, Sequences, FiniteSets

CONSTANTS
    N,                  \* tasks of the iterator
    Domain,             \* the domains they may belong to
    MaxPending,
    MaxPendingPerDomain,
    MaxAbandons         \* bounds how often the generator is abandoned

ASSUME CrawlerAssumption ==
    N \in Nat /\ MaxAbandons \in Nat /\ MaxPending \in Nat \ {0} /\ MaxPendingPerDomain \in Nat \ {0}

Task == 1 .. N          \* in the order of the iterator

VARIABLES
    domain,             \* the domain of each task
    place,              \* where each task is
    domain_queues,      \* the delayed tasks of each domain
    pending_tasks_per_domain,
    generator,                 \* where the generator is
    abandons            \* how often it was abandoned

crawlerVars == <<domain, place, domain_queues, pending_tasks_per_domain, generator, abandons>>

\* "pending" and "completed" tasks are in pending_tasks; a "done" task was
\* returned by asyncio.wait and is yielded next, or lost with the generator.
Place == {"iterator", "queued", "pending", "completed", "done", "yielded", "lost"}

CrawlerTypeOK ==
    /\ domain \in [Task -> Domain]
    /\ place \in [Task -> Place]
    /\ domain_queues \in [Domain -> Seq(Task)]
    /\ pending_tasks_per_domain \in [Domain -> Nat]
    /\ generator \in {"populate", "wait", "loop", "yield", "abandoned", "end"}
    /\ abandons \in 0 .. MaxAbandons

At(places) == {t \in Task : place[t] \in places}
Pending == At({"pending", "completed"})

CrawlerInit ==
    /\ domain \in [Task -> Domain]
    /\ place = [t \in Task |-> "iterator"]
    /\ domain_queues = [d \in Domain |-> <<>>]
    /\ pending_tasks_per_domain = [d \in Domain |-> 0]
    /\ generator = "populate"
    /\ abandons = 0

-----------------------------------------------------------------------------
(***************************************************************************)
(* populate_pending_tasks: a loop without an await.                        *)
(***************************************************************************)
\* The loop takes t, the next task of the iterator.
Fetches(t) ==
    /\ generator = "populate"
    /\ Cardinality(Pending) < MaxPending
    /\ place[t] = "iterator"
    /\ \A u \in Task : u < t => place[u] # "iterator"

AtLimit(d) == pending_tasks_per_domain[d] >= MaxPendingPerDomain

Delay(t) ==
    /\ Fetches(t)
    /\ AtLimit(domain[t])
    /\ place' = [place EXCEPT ![t] = "queued"]
    /\ domain_queues' = [domain_queues EXCEPT ![domain[t]] = Append(@, t)]
    /\ UNCHANGED <<domain, pending_tasks_per_domain, generator, abandons>>

StartCrawl(t) ==
    /\ Fetches(t)
    /\ ~AtLimit(domain[t])
    /\ place' = [place EXCEPT ![t] = "pending"]
    /\ pending_tasks_per_domain' = [pending_tasks_per_domain EXCEPT ![domain[t]] = @ + 1]
    /\ UNCHANGED <<domain, domain_queues, generator, abandons>>

\* Nothing left to take, or max_pending reached: wait, or stop when none is pending.
Populated ==
    /\ generator = "populate"
    /\ Cardinality(Pending) >= MaxPending \/ At({"iterator"}) = {}
    /\ generator' = IF Pending = {} THEN "end" ELSE "wait"
    /\ UNCHANGED <<domain, place, domain_queues, pending_tasks_per_domain, abandons>>

-----------------------------------------------------------------------------
\* A crawl completes while the event loop runs something else than the generator.
CrawlCompletes(t) ==
    /\ generator \in {"wait", "yield", "abandoned"}
    /\ place[t] = "pending"
    /\ place' = [place EXCEPT ![t] = "completed"]
    /\ UNCHANGED <<domain, domain_queues, pending_tasks_per_domain, generator, abandons>>

\* asyncio.wait returns all crawls that have completed by then.
AsyncioWaitReturns ==
    /\ generator = "wait"
    /\ At({"completed"}) # {}
    /\ place' = [t \in Task |-> IF place[t] = "completed" THEN "done" ELSE place[t]]
    /\ generator' = "loop"
    /\ UNCHANGED <<domain, domain_queues, pending_tasks_per_domain, abandons>>

\* Slip: the crawl that takes the place of the finished one is not counted.
YieldUncounted(t) ==
    LET d == domain[t]  q == domain_queues[d] IN
    /\ generator = "loop"
    /\ place[t] = "done"
    /\ IF q = <<>>
         THEN /\ place' = [place EXCEPT ![t] = "yielded"]
              /\ UNCHANGED domain_queues
         ELSE /\ place' = [place EXCEPT ![t] = "yielded", ![Head(q)] = "pending"]
              /\ domain_queues' = [domain_queues EXCEPT ![d] = Tail(q)]
    /\ pending_tasks_per_domain' = [pending_tasks_per_domain EXCEPT ![d] = @ - 1]
    /\ generator' = "yield"
    /\ UNCHANGED <<domain, abandons>>

\* Slip: the task delayed last is crawled first.
YieldLatest(t) ==
    LET d == domain[t]  q == domain_queues[d] IN
    /\ generator = "loop"
    /\ place[t] = "done"
    /\ IF q = <<>>
         THEN /\ place' = [place EXCEPT ![t] = "yielded"]
              /\ pending_tasks_per_domain' = [pending_tasks_per_domain EXCEPT ![d] = @ - 1]
              /\ UNCHANGED domain_queues
         ELSE /\ place' = [place EXCEPT ![t] = "yielded", ![q[Len(q)]] = "pending"]
              /\ domain_queues' = [domain_queues EXCEPT ![d] = SubSeq(q, 1, Len(q) - 1)]
              /\ UNCHANGED pending_tasks_per_domain
    /\ generator' = "yield"
    /\ UNCHANGED <<domain, abandons>>

\* The result of t is post-processed and yielded; a delayed task of the same
\* domain takes its place, so the counter of the domain changes only without one.
Yield(t) ==
    LET d == domain[t]  q == domain_queues[d] IN
    /\ generator = "loop"
    /\ place[t] = "done"
    /\ IF q = <<>>
         THEN /\ place' = [place EXCEPT ![t] = "yielded"]
              /\ pending_tasks_per_domain' = [pending_tasks_per_domain EXCEPT ![d] = @ - 1]
              /\ UNCHANGED domain_queues
         ELSE /\ place' = [place EXCEPT ![t] = "yielded", ![Head(q)] = "pending"]
              /\ domain_queues' = [domain_queues EXCEPT ![d] = Tail(q)]
              /\ UNCHANGED pending_tasks_per_domain
    /\ generator' = "yield"
    /\ UNCHANGED <<domain, abandons>>

\* The consumer asks for the next result.
Resume ==
    /\ generator = "yield"
    /\ generator' = IF At({"done"}) = {} THEN "populate" ELSE "loop"
    /\ UNCHANGED <<domain, place, domain_queues, pending_tasks_per_domain, abandons>>

\* The consumer leaves its loop or is cancelled, or post_processor raises: what
\* done holds and was not yielded is lost, everything else stays in the crawler.
Abandon ==
    /\ generator \in {"wait", "yield"}
    /\ abandons < MaxAbandons
    /\ abandons' = abandons + 1
    /\ place' = [t \in Task |-> IF place[t] = "done" THEN "lost" ELSE place[t]]
    /\ generator' = "abandoned"
    /\ UNCHANGED <<domain, domain_queues, pending_tasks_per_domain>>

\* crawl_all_with_client is called again, for the rest of the iterator.
CrawlAgain ==
    /\ generator = "abandoned"
    /\ generator' = "populate"
    /\ UNCHANGED <<domain, place, domain_queues, pending_tasks_per_domain, abandons>>

Generator ==
    \/ \E t \in Task : Delay(t) \/ StartCrawl(t) \/ Yield(t)
    \/ Populated \/ AsyncioWaitReturns

CrawlerNext ==
    \/ Generator \/ Resume \/ Abandon \/ CrawlAgain
    \/ \E t \in Task : CrawlCompletes(t)

CrawlerSpec == CrawlerInit /\ [][CrawlerNext]_crawlerVars

-----------------------------------------------------------------------------
(***************************************************************************)
(* Safety.                                                                 *)
(***************************************************************************)
Charged(d) == {t \in Task : domain[t] = d /\ place[t] \in {"pending", "completed", "done", "lost"}}

\* The counters tell the truth and the limits hold, the assertion of
\* populate_pending_tasks included; results lost with an abandoned generator
\* are charged to their domain for ever.
QuotaInv ==
    /\ \A d \in Domain :
          /\ pending_tasks_per_domain[d] = Cardinality(Charged(d))
          /\ pending_tasks_per_domain[d] <= MaxPendingPerDomain
    /\ Cardinality(At({"pending", "completed", "done"})) <= MaxPending

\* A task is delayed only while its domain has no quota left: whenever a result
\* is yielded the next delayed task of its domain takes over.  So the generator
\* can end with delayed tasks only behind results that were lost before.
DelayedAtLimit == \A d \in Domain :
    domain_queues[d] # <<>> => pending_tasks_per_domain[d] = MaxPendingPerDomain

QuotaKept == CrawlerTypeOK /\ QuotaInv /\ DelayedAtLimit

\* The tasks of a domain are started in the order of the iterator, delayed or not.
StartedInOrder == \A t, u \in Task :
    /\ t < u
    /\ domain[t] = domain[u]
    /\ place[u] \notin {"iterator", "queued"}
    => place[t] \notin {"iterator", "queued"}

\* The queue of a domain has its delayed tasks, each once, in the order of the iterator.
QueuesAreOrdered ==
    /\ \A d \in Domain : \A k \in 1 .. Len(domain_queues[d]) :
          place[domain_queues[d][k]] = "queued" /\ domain[domain_queues[d][k]] = d
    /\ \A d \in Domain : \A k, l \in 1 .. Len(domain_queues[d]) :
          k < l => domain_queues[d][k] < domain_queues[d][l]
    /\ \A t \in Task : place[t] = "queued" =>
          \E k \in 1 .. Len(domain_queues[domain[t]]) : domain_queues[domain[t]][k] = t

\* The tasks that the iterator still has are the last ones.
IteratorIsBehind ==
    \A t, u \in Task : t < u /\ place[t] = "iterator" => place[u] = "iterator"

\* Results wait to be yielded only while the generator goes through done.
DoneIsEmptied == generator \in {"populate", "wait", "abandoned", "end"} => At({"done"}) = {}

CrawlerInv ==
    QuotaKept /\ StartedInOrder /\ QueuesAreOrdered /\ IteratorIsBehind /\ DoneIsEmptied
=============================================================================
