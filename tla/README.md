# A TLA+ model of the DNS firewall

The repository is a DNS firewall in C (`src/src/`): it receives queries over UDP,
TCP and HTTPS (DoH), limits and quarantines clients, blocks names by blacklist and
heuristics, resolves the rest through a cache, and exports what it has learned.
The repository also holds the Python scripts that generated the domain lists of its
DGA evaluation (`src/evaluation/UMUDGA/`). This directory models the parts that threads
share, the resolver, and the loop of those scripts, checks them with TLC on small
instances, and proves with TLAPS what matters most for every size.

Paths are relative to the directory that holds `src/` and `tla/`, so the firewall's
main file is `src/src/main.c`.

## 1. Inventory

| Component | State | Operations | Used by |
|---|---|---|---|
| UDP front end (`main.c`) | job ring, `job_mutex`, `job_cond`, `g_running` | receive and enqueue or drop, worker loop, `cleanup` on a signal | 8 detached workers, main, whichever thread takes the signal |
| Rate limiter (`rate_limit.c`) | a token bucket per client, one lock | `rl_check` | every query with a remote client |
| Quarantine (`active_defense.c`) | list of block events, array of bans, one lock | `ad_report_block`, `ad_is_quarantined`, `ad_unquarantine` (never called) | every query with a remote client |
| Answer cache (`cache.c`) | open-addressing table, one lock; raw pointers leave it | `cache_lookup` (removes expired), `cache_store`, `cache_clean_expired` (never called) | resolver and processor |
| Query processor (`processor.c`) | none of its own | `process_dns_query`: parse, rate limit, quarantine, policy, resolution, dynamic policy, second lookup, send | UDP workers, the TCP listener, a thread per DoH connection |
| Resolver (`resolver.c`) | root hints, pool of 4 TCP connections to the forwarder | `resolve_internal` (recursive, depth 16), `borrow_tcp_conn` | processor |
| Reputation (`reputation.c`) | score per blocked domain in 256 lists, **no lock** | `rep_record_block`, `rep_decay`, exports | processor threads, main |
| Policy (`policy.c`) | blacklist and 4-gram tables (read only), flux tracker list (**no lock**) | `policy_check_*`, `policy_housekeeping` | processor threads, main |
| DoH (`doh.c`) | listening socket; a socket and a callback record per connection | accept, parse HTTP, `handle_connection` | clients |
| TCP listener (`main.c`) | one connection at a time | accept, read, process, close | clients |
| Housekeeping (`main.c`) | time of the last export | decay, flux cleanup, RPZ and CSV export after each packet | main, SIGHUP handler |
| Sinkhole HTTP (`active_defense.c`) | listening socket | serve the warning page or `rpz.zone` | blocked clients |
| Data set scripts (`evaluation/UMUDGA/.../run*.py`) | the set of domains found, up to seven lists, two counters, `stop` | draw a domain, collide or write it to every list with room, close the lists | run by hand; their lists are read by `evaluation_full.sh` |
| Wire format (`wire.c`), DNSSEC (`dnssec.c`) | none / trusted key | parse, build; validate (the verdict is only logged) | processor, resolver |

Hard to test here: all shared state is reached from several kinds of threads; the
clock is the wall clock in whole seconds and is read before locks are taken; two
structures have no lock; the cache hands out pointers that outlive its lock; shutdown
runs in a signal handler on a random thread; the forwarder's TCP streams are reused
after failures. `PROJECT.json` lists these as hazards, with the line where each bites
and the properties that would catch it.

What makes each part correct:

- *front end*: accepted jobs are started once, in order, and never wait for a worker
  that sleeps; a packet is dropped only when the ring is full;
- *rate limiter*: over any window a client gets no more than a full bucket plus one
  query per second, and a client that asks slowly is never dropped;
- *quarantine*: a client over the threshold is banned, and nobody else is;
- *cache*: an answer is what was stored for that name and is within its ttl; stores are
  found again; removing one entry leaves the others alone;
- *processor*: exactly one answer per query, correct for that query; the quarantine
  bites in time; the cache's buffers are neither leaked nor freed twice;
- *resolver*: a resolution ends, after a bounded number of questions, whatever servers do;
  it returns and caches what was said of the name it asked for; no message is freed twice;
- *reputation and fast-flux tracker*: without a lock, what races can lose is lost for a
  short time only, and nothing is invented; memory stays sound outside named overlaps;
- *export*: a domain that was blocked repeatedly reaches the zone file before it is forgotten;
- *data set scripts*: the lists are prefixes of one another without repetitions, and a
  script ends, for a reason its author meant;
- *forwarder pool*: one thread per connection, no lock left behind on an error path, an
  answer reaches the query it belongs to, and a query ends once the forwarder is back.

## 2. Modules

```
BoundedFifo  <--refines--  JobQueue
JobQueue, RateLimit <-- FrontEndProofs
CacheOps <-- Cache
Cache, Resolver, ForwarderPool <-- ResolutionProofs
CacheOps <-- Processor --INSTANCE--> Quarantine <-- QuarantineProofs
             Processor <-- ProcessorProofs --INSTANCE--> QuarantineProofs
UnlockedList <-- UnlockedListProofs
UnlockedList <-- FluxTracker;  FluxTracker, UnlockedListProofs <-- FluxTrackerProofs
UnlockedList <-- Reputation;   Reputation, UnlockedListProofs <-- ReputationProofs
DatasetScripts <-- Dataset <-- DatasetProofs
MCFrontEnd, MCJobQueue, MCForwarderPool, MCCache, MCQuarantine, MCProcessor, MCResolver,
MCFluxTracker, MCReputation, MCDataset: instances for TLC
JobQueue, RateLimit <-- MCFrontEnd
```

A module of proofs may extend the specifications of several components; where their names
would meet, those of RateLimit, Cache and ForwarderPool have a prefix (`LimitSpec`, `CacheSpec`,
`PoolSpec`, and likewise for `Init`, `Next`, `TypeOK` and the invariants).

**RateLimit** (`rate_limit.c`). `known`, `last_refill` and `tokens` are the buckets. One
call of `rl_check` is one step, because it holds `ctx->lock` throughout; its four paths
are four actions. The unsigned arithmetic is kept (`UInt`, modulo `UIntMod`): after
`ClockStepBack` the elapsed time wraps, and the sum wraps back before the cap. The
other variables are history: an observer that may start a window at any moment
(`ObserveFromNow`), so a bound on its window is a bound on every window. The hash
chains are a map keyed by address, since a chain is searched for an equal address.

**Quarantine** (`active_defense.c`). `events` and `quarantined` are the list and the
array. `time(NULL)` is read before the lock, so a report is two steps
(`ad_report_block_time`, `ad_report_block`) and reports can overtake each other. `Lag`
bounds how long a thread waits for the lock; without such a bound an event could be
arbitrarily older than those it is counted with. The list is kept oldest first; the
code prepends, and only counts.

**JobQueue** (`main.c`). Each critical section is one step, except that a worker that
has decided to wait is in `prewait` and holds `job_mutex` until `pthread_cond_wait` puts
it to sleep. That window is where `cleanup`, which does not take the mutex, can act.
Spurious wakeups are modelled. The signal handler takes over one thread, which never
returns to its work; if it is main inside its critical section the mutex stays locked.
The housekeeping that main does after unlocking touches no variable of this module.

**BoundedFifo** is what the ring promises: a queue of at most `Size` packets.

**CacheOps** has the probe sequence of `cache.c` as functions on the table, used by
**Cache** (the table alone: every operation is one step under `c->lock`) and by
Processor. An answer in Cache is the number of the store that brought it, so that
stale and foreign answers can be told apart.

**MCFrontEnd** checks JobQueue and RateLimit, the two parts a packet meets first, in one run.
They share no variable; `part` says which of them a behaviour is of.

**Processor** (`processor.c`, with the parts of `resolver.c`, `doh.c`, `cache.c` and
`main.c` it reaches). One action per step between two points where another
thread can interfere: a lock, an unlocked shared access, a wait for the network. It
extends CacheOps with the heap of buffers (an address, a stored name, the id in its
header, whether it has answers, whether the cache still owns it) and instantiates
Quarantine, whose actions it takes as steps of its own. Free choices: the verdict of
`rl_check`, the dynamic policy, what servers say, which free address `malloc` returns.
TCP and DoH queries begin with `accept`; what is read from the connection is rejected,
which closes it, or given to `process_dns_query`; a DoH connection is then closed by the
callback and by nothing else.
Reading a buffer after it was freed gives arbitrary contents; a crash is not modelled.
Queries have at least one question: with none `process_dns_query` reads
`questions[0]` of an empty array, which is outside the model.

**ForwarderPool** (`resolver.c`). `open` and `lock` are the slots of `tcp_pool`; `pc` and `at` are
where each thread is in `resolve_internal` and `borrow_tcp_conn`. `init_tcp_pool` is one step: it
runs under `pool_lock`, and a thread that does not see `pool_initialised` waits for that lock.
`asked` and `stream` are the two directions of a connection. The two reads of an answer
(length, body) are one step, since the slot is locked and nobody sees the state between
them; its outcomes are the whole answer, nothing (length 0), a body left unread (too
large for the buffer, or not there in time), and no length at all, after which the socket is
closed. What is left unread stays in the stream. `torn` says that the next byte to read is in
the middle of an answer: a reader there takes two bytes for a length and consumes some of what
is in the stream, none or all of it (`recv_torn`), so the next one begins in the middle of an
answer again or at the start of one, which may be the answer to an earlier query. Queries are sent
and answered on such a connection as on any other. `spoilt` is history: the rest of an answer
was left since the connection was made. The forwarder is external: it answers each query once,
in any order, late or never, may end a connection and may be down. `exchange_sigpipe` is the
default action of SIGPIPE on the second `send`.

**Resolver** (`resolver.c`, with `dns_parse_message` and `dns_free_message` of `wire.c`). One
thread inside `resolve_internal`: `stack` has a frame per active call, with the position in
its list of servers and the message it holds; `ret` is what the innermost call returned.
Names, servers and responses are reduced to what the control flow looks at: whether the
first answer is data, an alias or missing, how many servers have glue, whether there is an
authority section, NXDOMAIN, ttl 0. `heap` has the messages, so that a double free, a leak
and a use after a free are visible. `send_query` opens a socket each time; an answer that
comes after its wait has ended stays under way to that port (`late`), and the next socket
may get the port. `recvfrom` takes a datagram from anybody and nothing in it is compared, so
`Received` is also a foreign datagram, or a server's answer to another question; `mixed`
records for which names such a datagram was taken. `Store` is `cache_store`: it stores nothing
if the ttl is 0 or if the table is full and does not hold the name (`excuse`). Other threads appear only through the cache. Processor repeats the
outcomes of a resolution as free choices, because there the cache's buffers matter.

**UnlockedList** has the linked list that `policy.c` and `reputation.c` both use, with
pointers to freed entries (`Dangling`) and entries that have leaked. What a pointer leads to is
the least set of entries that has it and is closed under `next`, and a search stops where it
leaves the entries it passes; both are defined without recursion, so that they can be reasoned
about.

**FluxTracker** (`policy.c`) and **Reputation** (`reputation.c`, the housekeeping of
`main.c`, `ad_export_rpz`). The structures have no lock, so a step is one access of shared
memory: the search, the read of the head into `next`, the write of the head (`find` or `miss`,
`create`, `link`), the write of a score that was read earlier, a turn of the cleanup loop. So two
threads that miss a domain both make an entry, and the domain is listed twice. In `rep_decay`
the test of the age, the read and the write of `score--`, and the test of the score are steps
of their own. One `flux_add_ip` is one step;
if two threads are in it with the same entry, or main is at that entry, the outcome is
either the sequential one or undefined. What C leaves undefined sets `corrupt`, after
which nothing is claimed; the properties say when that can happen. Time is kept as ages,
so the models have no bound on time. Entries of different buckets never meet, so
Reputation has one list. Packets drive main and come at most `Gap + 1` seconds apart.

**DatasetScripts** and **Dataset** (`evaluation/UMUDGA/.../Domain Generation Algorithms`). The
main programs of the 42 scripts are copies of one loop, of which Dataset is the state
machine. DatasetScripts records, script by script, where the copies differ: how many lists
there are, how many collisions are tolerated, how a pass is nested, where `stop` is looked
at again, when a collision leaves the inner loop. pykspa runs two such loops, one after
the other, so there are 43 records. The domains are numbered in the order of their
appearance; a draw may be any old one or a new one. What a generator computes is data, with
one exception: ccleaner goes through a fixed list of 1000 times 11 domains, which are all
different and more than its lists take.

## 3. Runs

The runs finish within about three and a half minutes on two cores, most within one and a half.

| Run | Configuration | Shows |
|---|---|---|
| `front_end` | 3 workers, ring of 2, 5 packets; 1 client, bucket of 2, 16-valued unsigned int, 6 s, 4 queries/s | `NoLostWakeup`, `IInv`, refinement of BoundedFifo, `AcceptedIsStarted` (liveness); `WindowBound`, `NoStarvation`, and the inductive invariant `LimitInv` |
| `quarantine` | 2 threads, 2 clients, threshold 2, window 2, ban 3, 4 s, 4 events | `BanComplete`, `BanJustified`, `PardonIsLocal`, `IInv` |
| `job_queue_shutdown` | 1 worker | **violated**: the destructors run while a worker sleeps or works |
| `cache` | 3 slots, 3 colliding keys, 4 stores, 3 s | `CountExact`, `HitIsHonest`, `HiddenOnlyByHole`, `StoreIsKept` |
| `processor` | a UDP worker and a DoH connection, a remote and a local client, 2 colliding names (one blocked), 2 slots, 3 buffers, 3 queries, every outcome of resolution | `AnsweredOnce`, `BuffersOwned`, `OvershootBound` |
| `forwarder_pool` | 2 threads, 2 connections, 3 queries | `LockedWhileUsed`, `NoLateAnswer`, `PoolInv`, `BurstEnds` (liveness) |
| `processor_raw` | 2 threads, one name, 2 ids | **violated**: an answer carries another query's id |
| `processor_doh` | a DoH connection, one query | **violated**: a query that the rate limiter drops leaves its connection open |
| `resolver` | 2 names (one with a static forwarder), both modes, lists of 2 servers, depth limit 1, 1 port | `QueriesBounded`, `NoDangling`, `LeakOnlyNegative`, `AnswersQuestion`, `StoredForSender`, `Resolves` (liveness) |
| `flux_tracker` | 2 threads and main, 2 domains, 2 addresses, 2 entries, window 2 | `NoFalseAlarm`, `HealsInAWindow`, `CorruptOnlyByClash` |
| `reputation` | 2 threads and main, 2 domains, 3 entries, 3 blocks, both periods 3 s, a packet each second | `NeverOvercounts`, `SureIsListed`, `CorruptOnlyByDecay`, `ExportedBeforeForgotten` |
| `dataset` | all 43 loops, lists of 1 to 7 domains, the collision budgets of the code | `ListsAgree`, `DiesUntestedOnly`, `EndsForAReason`, `Halts` (liveness) |

Bounds. One client suffices for the rate limiter, since no step reads another client's
bucket; bucket 2 and 6 seconds let it fill, drain and refill, and a 16-valued integer
wraps for every clock set back. Threshold 2 with 4 events gives two bans, overtaking
reports and events on both ends of a window. Five packets wrap a ring of two twice and
overfill it. Three keys, two with one home slot and the third in the slot they
overflow to, make chains that wrap, fill the table and get holes. In `processor` the
bound of `OvershootBound` is reached (2 events at threshold 1 with two threads), so it is
tight; the third buffer lets a freed address be used again for another name while a thread
still holds it.
In `forwarder_pool` both threads race to initialise the pool, meet on a slot and follow each
other on a connection, and a connection is used, lost, reconnected and used again; three queries
let a third one read what is left of the first two on a spoilt connection.
In `resolver` a depth limit of 1 allows two levels, which is where a callee's result is handed
on, dropped or retried; one port makes every late answer meet the next question, with two names
an answer to another question is the answer to the other name, and the cache is full or not by choice; the bound
of `QueriesBounded` is reached. In `flux_tracker` and `reputation` two threads and main are all that
can meet on one entry. Two entries in `flux_tracker` and three in `reputation` are enough for a domain that
is listed twice, for entries of different domains in one list, and for a freed address that is used
again. The windows are long enough for entries to age while a call is under way. In `dataset` lists of one to
seven domains give every tier a boundary, and the budgets of 2, 10 and 100 collisions per domain
are the real ones.

The type invariant of each module is checked as a conjunct of one of its other invariants
(`IInv`, `LimitInv`, `PoolInv`, `NoDangling`, `CorruptOnlyByClash`, `NeverOvercounts`, `BuffersOwned`, `ListsAgree`), of Cache
by itself.

Where a run says `CHECK_DEADLOCK FALSE`, the model stops at a bound or the process exits.

Fairness is used by the liveness properties. `AcceptedIsStarted` has weak fairness of
`worker_take`, `worker_wait` and `worker_done`, that is, runnable threads are scheduled, the mutex
is handed on, and `process_dns_query` returns. The last is an assumption on the code: with
a dead TCP forwarder `borrow_tcp_conn` does not return (a listed hazard). Nothing is
assumed of the network, of signals or of spurious wakeups. `BurstEnds` has weak fairness of each
thread's steps in the exchange, which `SO_RCVTIMEO` and `SO_SNDTIMEO` justify, and nothing of the
forwarder; its premise is that the forwarder stays up from some time on. It speaks of a burst
of at most `MaxQueries` queries: `pthread_mutex_trylock` with a sleep is not fair, so under a load
that never ends one thread may lose every race, and the property does not claim otherwise.
`Resolves` has weak fairness of the steps of `resolve_internal`: the thread is scheduled, and
`SO_RCVTIMEO` ends every wait; nothing is assumed of servers. `Halts` has weak fairness of the one
thread of a script, and strong fairness of drawing a date for which there is any domain:
tempedreve and pykspa find none for some dates, and `random.random` does not draw only those.
It claims nothing of the eleven loops without a limit on collisions.

### What the violated runs show

1. `job_queue_shutdown`: `cleanup` says "wake up workers so they can exit", but broadcasts without
   `job_mutex` and goes on to free the cache and the other contexts without waiting. A worker
   that is between its test and its wait sleeps through the broadcast; one that is inside
   `process_dns_query` goes on with what is freed.
2. `processor_raw`: two threads hit the same entry, both write their id into the one
   buffer, and the first sends the second's id. The same run with more time reaches
   answers sent from a buffer that was freed and used again.
3. `processor_doh`: `doh.c` says that `process_dns_query` sends the answer through the callback, which
   closes the socket and frees `cb_arg`. A query that `rl_check` drops gets no callback: the thread
   ends, and the socket stays open. (`AnsweredOnce` counts such a query as dropped, not answered,
   and says nothing of its connection.)

### What the passing runs show besides

- A lookup of an expired key clears its slot without a tombstone, so a live answer stored
  behind it is no longer found. `HiddenOnlyByHole` shows that this is the only way an entry of
  the cache gets lost.
- An answer found behind an alias is stored for the alias's target only, so the second
  lookup of `process_dns_query` misses it (`StoredForSender`, `AnsweredOnce`).
- Neither address, id nor question of a datagram is compared: any late, foreign or mistaken one that
  is taken while a name is asked for may be returned and cached for that name. It spoils no other
  name (`AnswersQuestion`).
- A query to the TCP forwarder can get the answer to an earlier one, on a connection where the rest of
  an answer was left, and only there (`NoLateAnswer`).
- A resolution that succeeds leaves its answer in the cache, seen or stored, unless an alias, a
  ttl of 0 or a full table came in between (`StoredForSender`); then `process_dns_query` has
  nothing to send but SERVFAIL.
- A response that does not parse, and an NXDOMAIN below a referral or an alias, leak
  (`LeakOnlyNegative`).
- A domain that was blocked once may be forgotten without having been exported, as decay
  comes before export; with two points it cannot (`ExportedBeforeForgotten`).
- kraken v1, qadars and suppobox can die of a write to a closed file (`DiesUntestedOnly`).

## 4. Proofs

`tlapm` checks all proofs, for every value of the constants.

**RateLimit** (FrontEndProofs): `LimitSpec => []LimitInv`, `[]WindowBound`, `[]NoStarvation`. `WindowBound` alone
is not inductive: it says nothing of the tokens still in the bucket. `LimitInv` adds `Budget`:
what was let through plus what the bucket would offer now (`Available`, with the refill
not yet made) stays within the grant. `RefillIsAvailable` is the heart: the two unsigned
wraps of `rl_check` cancel, so the code computes `Available` even when the timestamp lies
in the future. It needs `MaxTime + MaxTokens < UIntMod`. `RefillPaid` (a refill is followed by
a payment in the same second) gives `NoStarvation`.

**Quarantine** (QuarantineProofs): `Spec => []IInv`, `[]BanComplete`, `[]BanJustified`, `PardonIsLocal`. `BanComplete`
speaks of the window that ends now; to survive the next tick it is strengthened to
`EveryWindowBanned`: every window of the log over the threshold, wherever it ends, left
a ban that outlives it. This holds although the code does not count events backwards
from the newest, because a late report also counts newer events. `TimedInThePast`
(a pending report is at most `Lag` old) gives `BanJustified`. Needs `WINDOW <= BAN`.

**JobQueue** (FrontEndProofs): `Spec => []IInv`, `[]NoLostWakeup`, and `Spec => RefinesFifo`, for any finite
set of workers and any ring size. `WaitsUnderLock` (a worker in `prewait` owns the mutex and
the ring is empty) is what makes `NoLostWakeup` inductive; `RingOK` ties the write index to
the read index and the count. The refinement maps the ring to the sequence `Pending`:
`worker_take` is `Start`, `main_enqueue` is `Accept`, `main_drop` is `Drop`, all else stutters.

**ForwarderPool** (ResolutionProofs): `PoolSpec => []PoolInv`, `[]LockedWhileUsed`, `[]NoLateAnswer`, for any number of threads,
slots and queries. `NoLateAnswer` rests on `StreamIsOwn`: a connection that is not spoilt has nothing
under way, or only the query or answer of the one thread that waits on it. A thread can leave a
connection with its answer still out only by closing it (`exchange_fail`) or by leaving the rest of an
answer unread (`recv_unread`), which spoils it until it is closed. Of spoilt connections nothing
is claimed but that they are used under their lock. `SlotsReady` says that no slot is in use while
`init_tcp_pool` initialises the mutexes.

**Cache** (ResolutionProofs): `CacheSpec => []CacheTypeOK`, `[]CountExact`, `[]HitIsHonest`, `[]HiddenOnlyByHole`, and the action
property `StoreIsKept`, for any capacity, any keys and any hash function. The first part is about
the walk: `ProbeFacts` (the probe sequence visits every slot once, wrapping included), `StopFacts` (a
walk stops at the first slot that is unused or holds the key) and `FoundIff` (an entry is found
exactly if every slot before it is in use for another key). With these `HiddenOnlyByHole` is inductive:
a store fills the first slot where its walk can stop, so it hides nobody, and a removal
records its hole. `HitIsHonest` needs `EntriesStored`: each entry is a store of its key with that
expiry; `StoreIsKept` needs `Numbered`: no answer's number is used twice.

**Resolver** (ResolutionProofs): `Spec => []QueriesBounded`, `[]NoDangling`, `[]LeakOnlyNegative`, `[]AnswersQuestion`,
`[]StoredForSender`, for any names, servers, lists, ports and depth limit. `Frames` describes the whole
stack: the i-th call is at depth i - 1 and holds a message exactly if it waits for a callee,
so that each message in use has one owner (`NoDangling`, `LeakOnlyNegative`). `Returning` carries what the
two cache properties promise through the returns: a message that is returned is of the name asked
for, unless that name is in `mixed` or an alias was followed. `QueriesBounded` needs `Budget`: what was sent,
plus what each call on the stack may still send, its callee left out, is within `Worst[0]`.
A sum over the stack is an induction over data; here it is a witness, the list of partial
sums (`Totals`), which each step extends, cuts or lowers. That the recursive function `Worst` satisfies
its equation is proved by a least counterexample (`WorstFacts`), from the well-foundedness of
the numbers in the library.

**Processor** (ProcessorProofs): `Spec => []AnsweredOnce`, `[]BuffersOwned`, `[]OvershootBound`, for any number of threads
of each kind, any clients, names and buffers, and any quarantine. `Local(t)` says what a thread
has at each place of `process_dns_query`; it gives `AnsweredOnce`. `Owned` pairs the used slots with the
live buffers, one to one. `OvershootBound` needs the quarantine's own invariant and `Overshoot`: a full
window that has not passed leaves room for the threads that are past the check (`Late`), each of
which can add one event; nobody else gets past, because a full window is a ban (`BanComplete`)
until it ends, which needs `WINDOW <= BAN`. The proof instantiates QuarantineProofs and cites its
lemmas: the step lemmas of the quarantine serve as they are, under the assumptions of the
instance (`Assumptions`). It assumes finitely many threads and as many buffers
as the table has slots: `malloc` does not fail.

**UnlockedList** (UnlockedListProofs) has what the two trackers share: facts about lists
without a lock. `Acyclic` says that every set of entries has one whose `next` is outside; from it follow
that a list does not come back (`NoLoop`), has one predecessor per entry (`OnePredecessor`), that one of
two entries is behind the other (`Linear`), and what a search finds (`SearchFacts`). `Unlink` shows that
unlinking one entry keeps the others in their order.

**FluxTracker** (FluxTrackerProofs): `Spec => []NoFalseAlarm`, `[]HealsInAWindow`, `[]CorruptOnlyByClash`, for any number
of threads, domains, addresses and entries, any window and threshold. The invariant:

- `Heap`: lists end, pointers lead to entries in use, and entries in use are reached;
- `Call`, `Walk`, `Recent`: a thread has an entry of its domain, whether or not there is another one; `flux_cleanup`'s `prev` points at its `curr`;
  an address that counts was reported no longer ago than the entry says. `Recent` gives `NoFalseAlarm`;
- `Meetings`, `Sound`, `Chain`: who counts as entangled; before the first clash no pointer dangles. That
  needs `Chain`: a `flux_cleanup` that met nobody knows the only pointer to the entry it frees;
- `Undisturbed`, `Exact`: a call that met no other has the first entry of its domain in the list, or has made it
  and found the head unchanged; and what was reported since the last meeting ended is
  recorded, with its time, in the first entry of its domain. `Exact` is the strengthening of
  `HealsInAWindow`: it holds at every moment of the recovery, not only after a whole window.

Assumed of the constants: finitely many threads and addresses, `Null` is no domain and `Main` no
thread.

**Reputation** (ReputationProofs): `Spec => []NeverOvercounts`, `[]SureIsListed`, `[]CorruptOnlyByDecay` and, if
`PacketsOften`, `[]ExportedBeforeForgotten`, for any number of threads, domains, entries and blocked
queries and any intervals. The invariant:

- `Heap`, `Walk`, `Meetings`, `Chain`: as in FluxTracker. Here `Chain` is needed while `rep_decay` runs and has met
  nobody: it frees an entry only after it has redirected the one pointer to it, which
  gives `CorruptOnlyByDecay` (`NoDangling` as long as no call has met `rep_decay`);
- `Counted`, `Calls` and `Losing` give `NeverOvercounts`, which is not inductive alone: a thread keeps a score it has
  read while others write, and `rep_decay` keeps one too, from which it subtracts. The query it is there for is already counted in
  `blocks` and not yet in that score, so writing it back, plus one, does not exceed `blocks`, however
  stale it is;
- `Undisturbed`, `Known`: a domain that is sure has a first entry in the list that is exactly as old as the
  block, and `rep_decay` lets entries that young alone; whatever was listed twice before, it is the first
  entry that every search finds. This gives `SureIsListed`;
- `Packets`, `Exported` give `ExportedBeforeForgotten`: what has had two points is in the zone file, or the
  time it has spent on its way to none (`Spent`, which counts a lost point as a whole interval)
  is at most the time since when an export has been due (`Delay`). The property speaks of the moment
  before `rep_decay` writes the last point away.

`PacketsOften` is `2 * DECAY_INTERVAL > EXPORT + 2 * Gap + 2`: two intervals of decay are longer than the time
to the next export, a packet's delay before and after included, and the second that the `>` in the
code adds. It is tight: with `DECAY_INTERVAL = EXPORT = 2` and `Gap = 0`, where both sides are equal,
TLC finds a domain that is forgotten first. The code's 60 and 60 meet it as long
as packets are at most 29 seconds apart (`Gap <= 28`); for a quieter server the property is not claimed.

**Dataset** (DatasetProofs): `Spec => []ListsAgree`, `[]DiesUntestedOnly`, `[]EndsForAReason`, for all the scripts, lists
of any sizes that grow, and any number of rows and items in a pass. `Running` says that until
the lists are closed the longest has room and the collisions are fewer than the budget: the budget
is `script.budget * counter`, so a new domain only raises it, and the test for equality is not jumped
over. `Stopped` says why they were closed, and survives what a script does afterwards: neither the
collisions nor the reasons get fewer. `Written` is what makes the part of `ListsAgree` on the longest list
inductive. `Progress` places ccleaner in its list of domains, all different and more than its
lists take (`YEARS * MONTHS > Tiers[3]`, an assumption with the code's numbers), so that it gives up
for no collision. `ScriptFacts` goes through the table once: only kraken_v1, qadars and suppobox have a
limit on collisions and do not test `stop` before each domain.

Only model-checked:

- liveness (`AcceptedIsStarted`, `BurstEnds`, `Resolves`, `Halts`), which is out of the prover's reach. The safety
  half of `Halts`, that a script does not end without a reason, is proved;
- that no more than `MaxBlocks` queries are counted in Reputation: a sum over a function, that is, an
  induction over data. It is a bound of the model, not a property of the code;
- the three violated properties, `WorkersLetGo`, `RawAnswersQuery` and `DohCloses`, which are false.

## 5. Not modelled

- The DGA score and the tunnelling heuristic: floating point over string features and
  4-gram tables. Their verdict is an input of Processor.
- HTTP and base64 parsing, packet layout, name compression; the bytes of a message. (A
  record returned by the resolver points into a buffer of a call that has ended, and
  queries without a question read past an empty array: both are below this abstraction.)
- DNSSEC cryptography, whose verdict is only logged; the sinkhole's pages; logging.
- What the generators of the data set scripts compute. Whether a script without a limit
  on collisions ends depends on it.
- The repository's other Python and shell scripts (training, scoring, plots, test servers,
  drivers that send live queries): straight-line passes over files, or I/O.
- The destructors are one step of `cleanup` (`WorkersLetGo` says who may still be running then)
  without effect on the other modules.
- Running out of memory is modelled where the code handles it (`rl_check`), not where it
  would crash. A clock set back is modelled for RateLimit and Quarantine, not for the ages of
  FluxTracker and Reputation.
- That `rpz.zone` is rewritten in place: the file changes in one step.

## 6. Plan

Done: RateLimit, Quarantine, JobQueue with BoundedFifo, ForwarderPool, CacheOps and Cache, Processor,
Resolver, FluxTracker, Reputation with the housekeeping, DatasetScripts and Dataset; proofs of
every safety property of a passing run.

Left: *Wire*, name decompression and its hop limit (TLC only, as its definitions are recursive).
