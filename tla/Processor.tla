------------------------------ MODULE Processor ------------------------------
(***************************************************************************)
(* process_dns_query of src/src/processor.c, run at the same time by the   *)
(* UDP workers, the TCP listener and the DoH connection threads, on the    *)
(* state they share: the cache (CacheOps) with the buffers it hands out,   *)
(* and the quarantine (Quarantine).                                        *)
(*                                                                         *)
(* A step is what happens between two points where another thread can be   *)
(* seen: a lock taken, a shared buffer touched without a lock, a wait for  *)
(* the network.                                                            *)
(*                                                                         *)
(* Abstracted here: the verdict of rl_check (module RateLimit) and the     *)
(* dynamic policy verdict are free choices, and so is what the servers say *)
(* to resolve_internal (module Resolver).  The report of a block is        *)
(* followed by rep_record_block, which shares no state with the rest and   *)
(* is module Reputation.  The DNSSEC verdict is only logged.               *)
(***************************************************************************)
EXTENDS CacheOps, Sequences, FiniteSets

CONSTANTS
    Threads,      \* threads that call process_dns_query
    Kind,         \* Kind[t]: "udp", "tcp" or "doh"
    Clients,      \* client addresses
    Localhost,    \* htonl(INADDR_LOOPBACK), one of Clients
    NoClient,     \* the NULL client of the TCP listener
    Ids,          \* ids of queries
    Blacklist,    \* names policy_check_blocklist blocks
    PreBlocked,   \* names policy_check_preresolve blocks
    Outcomes,     \* what the servers may say
    Blocks,       \* heap addresses that hold cached answers
    NoBlock,
    MAX_EVENTS, WINDOW, BAN, Lag, NoReport,  \* of Quarantine
    MaxTime,      \* bound: the last second modelled
    MaxQueries    \* bound: queries processed

Names == Keys

ASSUME ProcessorAssumption ==
    /\ IsFiniteSet(Threads)
    /\ Kind \in [Threads -> {"udp", "tcp", "doh"}]
    /\ Localhost \in Clients /\ NoClient \notin Clients
    /\ Blacklist \subseteq Names /\ PreBlocked \subseteq Names
    /\ Ids \subseteq Nat \ {0}
    /\ Outcomes \subseteq {"answer", "zero_ttl", "cname", "referral", "negative", "fail"}
    /\ IsFiniteSet(Blocks) /\ Cardinality(Blocks) >= Capacity  \* malloc succeeds
    /\ NoBlock \notin Blocks
    /\ MaxQueries \in Nat

\* A slot of the cache that is used.
Entry == [key : Names, data : Blocks, expiry : Int]

ASSUME UnusedAssumption == Unused \notin Entry

VARIABLES
    pc,           \* pc[t]: where thread t is in process_dns_query
    query,        \* query[t]: its query
    target,       \* target[t]: the name resolve_internal is working on
    raw,          \* raw[t]: the cached buffer it was given
    resp,         \* resp[t]: what it has sent for this query
    conn,         \* conn[t]: its TCP or DoH connection is open
    table, heap,  \* g_cache, and the buffers its entries point to
    now, events, quarantined, reports, forward, pardoned,  \* of Quarantine
    taken         \* history: the number of queries taken

cacheVars == <<table, heap>>
adVars    == <<now, events, quarantined, reports, forward, pardoned>>
vars      == <<pc, query, target, raw, resp, conn, cacheVars, adVars, taken>>

Q == INSTANCE Quarantine WITH MaxReports <- MaxQueries

ASSUME ReportAssumption ==
    /\ MAX_EVENTS \in Nat \ {0}
    /\ WINDOW \in Nat /\ BAN \in Nat /\ WINDOW <= BAN
    /\ Lag \in Nat /\ MaxTime \in Nat
    /\ NoReport \notin Q!Event

NoQuery == [id |-> 0, name |-> "none", client |-> NoClient]
Query   == [id : Ids, name : Names, client : Clients \cup {NoClient}]

\* What a response says: the sinkhole address, an error, or a cached answer.
Response == [what : {"sinkhole", "servfail", "raw"}, id : Ids \cup {0}, name : Names \cup {"none"}]

\* A cached answer: the name it was stored for, the id in its header, whether it has
\* answer records (ancount > 0), and whether the cache still owns the buffer.
Buffer == [name : Names \cup {"none"}, id : Ids \cup {0}, an : BOOLEAN, live : BOOLEAN]

PCs == {"idle", "read", "rate", "quarantine", "policy", "lookup", "cached", "upstream", "post",
        "second", "patch", "send", "report", "record", "done"}

TypeOK ==
    /\ pc \in [Threads -> PCs]
    /\ query \in [Threads -> Query \cup {NoQuery}]
    /\ target \in [Threads -> Names \cup {"none"}]
    /\ raw \in [Threads -> Blocks \cup {NoBlock}]
    /\ \A t \in Threads : \A i \in DOMAIN resp[t] : resp[t][i] \in Response
    /\ conn \in [Threads -> BOOLEAN]
    /\ \A s \in Used(table) : table[s] \in Entry
    /\ heap \in [Blocks -> Buffer]
    /\ Q!TypeOK
    /\ taken \in 0..MaxQueries

Init ==
    /\ pc = [t \in Threads |-> "idle"]
    /\ query = [t \in Threads |-> NoQuery]
    /\ target = [t \in Threads |-> "none"]
    /\ raw = [t \in Threads |-> NoBlock]
    /\ resp = [t \in Threads |-> << >>]
    /\ conn = [t \in Threads |-> FALSE]
    /\ table = EmptyTable
    /\ heap = [b \in Blocks |-> [name |-> "none", id |-> 0, an |-> FALSE, live |-> FALSE]]
    /\ Q!Init
    /\ taken = 0

-----------------------------------------------------------------------------
(* Common parts of the steps.                                              *)

\* client && !is_localhost: who is rate limited, quarantined and reported.
Accountable(t) == query[t].client \notin {NoClient, Localhost}

Goto(t, label) == pc' = [pc EXCEPT ![t] = label]

\* response_cb: doh_response_cb also closes its connection.
Respond(t, what, id, name) ==
    /\ resp' = [resp EXCEPT ![t] = Append(@, [what |-> what, id |-> id, name |-> name])]
    /\ conn' = [conn EXCEPT ![t] = @ /\ Kind[t] # "doh"]

Sinkhole(t) == Respond(t, "sinkhole", query[t].id, query[t].name)
Servfail(t) == Respond(t, "servfail", query[t].id, "none")

\* cache_lookup by thread t: a hit yields the buffer, an expired entry is freed.
CacheLookup(k) ==
    /\ table' = AfterLookup(table, k, now)
    /\ heap' = IF Removes(table, k, now)
               THEN [heap EXCEPT ![table[StopSlot(table, k)].data].live = FALSE]
               ELSE heap

\* A slip in cache_store: an overwritten answer is not freed.
CacheStoreLeaky(k, an, ttl) ==
    IF Stops(table, k) = {} THEN UNCHANGED cacheVars
    ELSE \E b \in {x \in Blocks : ~heap[x].live} :
            /\ heap' = [heap EXCEPT ![b] = [name |-> k, id |-> 0, an |-> an, live |-> TRUE]]
            /\ table' = AfterStore(table, k, b, now + ttl)

\* cache_store, ttl > 0: an overwritten answer is freed, then malloc may return
\* any address that is free, also the one just freed.
CacheStore(k, an, ttl) ==
    IF Stops(table, k) = {} THEN UNCHANGED cacheVars
    ELSE LET freed == IF Holds(table, k)
                      THEN [heap EXCEPT ![table[StopSlot(table, k)].data].live = FALSE]
                      ELSE heap
         IN  \E b \in {x \in Blocks : ~freed[x].live} :
                /\ heap' = [freed EXCEPT ![b] = [name |-> k, id |-> 0, an |-> an, live |-> TRUE]]
                /\ table' = AfterStore(table, k, b, now + ttl)

-----------------------------------------------------------------------------
(* A query arrives.                                                        *)

ClientsOf(t) == IF Kind[t] = "tcp" THEN {NoClient} ELSE Clients

Begin(t) == pc[t] = "idle" /\ taken < MaxQueries /\ taken' = taken + 1

\* tcp_listener accepts a connection, or doh_listener does and starts its thread.
accept(t) ==
    /\ Kind[t] # "udp"
    /\ Begin(t)
    /\ conn' = [conn EXCEPT ![t] = TRUE]
    /\ Goto(t, "read")
    /\ UNCHANGED <<query, target, raw, resp, cacheVars, adVars>>

\* What was read is no query: too short or too long, not HTTP, or HTTP without a
\* query in it.  The connection is closed and process_dns_query is not called.
reject(t) ==
    /\ pc[t] = "read"
    /\ conn' = [conn EXCEPT ![t] = FALSE]
    /\ Goto(t, "idle")
    /\ UNCHANGED <<query, target, raw, resp, cacheVars, adVars, taken>>

\* A datagram, or what a connection was read for, is given to process_dns_query.
Arrive(t) ==
    \/ Kind[t] = "udp" /\ Begin(t)
    \/ pc[t] = "read" /\ UNCHANGED taken

\* A message that does not parse is answered at once, with id 0.
parse_error(t) ==
    /\ Arrive(t)
    /\ Goto(t, "done")
    /\ resp' = [resp EXCEPT ![t] = << [what |-> "servfail", id |-> 0, name |-> "none"] >>]
    /\ conn' = [conn EXCEPT ![t] = @ /\ Kind[t] # "doh"]
    /\ UNCHANGED <<query, target, raw, cacheVars, adVars>>

parse(t) ==
    /\ Arrive(t)
    /\ \E id \in Ids, n \in Names, c \in ClientsOf(t) :
          query' = [query EXCEPT ![t] = [id |-> id, name |-> n, client |-> c]]
    /\ Goto(t, "rate")
    /\ UNCHANGED <<target, raw, resp, conn, cacheVars, adVars>>

(* Rate limit and quarantine.                                              *)

rate_pass(t) ==
    /\ pc[t] = "rate"
    /\ Goto(t, "quarantine")
    /\ UNCHANGED <<query, target, raw, resp, conn, cacheVars, adVars, taken>>

\* rl_check says no: nothing is sent, response_cb is not called.
rate_drop(t) ==
    /\ pc[t] = "rate"
    /\ Accountable(t)
    /\ Goto(t, "done")
    /\ UNCHANGED <<query, target, raw, resp, conn, cacheVars, adVars, taken>>

\* A slip: the quarantine is looked up for nobody.
NeverQuarantined(t, time) == FALSE

Quarantined(t, time) == Accountable(t) /\ Q!BannedAt(query[t].client, time)

\* ad_is_quarantined, whose clock is read up to Lag seconds before the lock is
\* taken: a client under a ban gets the sinkhole address for any name.
quarantine_check(t) ==
    /\ pc[t] = "quarantine"
    /\ \E time \in (now - Lag)..now :
          \/ Quarantined(t, time) /\ Sinkhole(t) /\ Goto(t, "done")
          \/ ~Quarantined(t, time) /\ Goto(t, "policy") /\ UNCHANGED <<resp, conn>>
    /\ UNCHANGED <<query, target, raw, cacheVars, adVars, taken>>

(* Policy before resolution, and the report that follows a block.          *)

\* The blocklist and the DGA score are looked up for the name asked for; both are
\* loaded at startup and never change, so threads share them safely.
policy_check_blocklist(n)  == n \in Blacklist
policy_check_preresolve(n) == n \in PreBlocked

policy_block(t) ==
    /\ pc[t] = "policy"
    /\ policy_check_blocklist(query[t].name) \/ policy_check_preresolve(query[t].name)
    /\ Sinkhole(t)
    /\ Goto(t, "report")
    /\ UNCHANGED <<query, target, raw, cacheVars, adVars, taken>>

policy_allow(t) ==
    /\ pc[t] = "policy"
    /\ ~policy_check_blocklist(query[t].name) /\ ~policy_check_preresolve(query[t].name)
    /\ target' = [target EXCEPT ![t] = query[t].name]
    /\ Goto(t, "lookup")
    /\ UNCHANGED <<query, raw, resp, conn, cacheVars, adVars, taken>>

report_time(t) ==
    /\ pc[t] = "report"
    /\ Accountable(t)
    /\ Q!ad_report_block_time(t, query[t].client)
    /\ Goto(t, "record")
    /\ UNCHANGED <<query, target, raw, resp, conn, cacheVars, taken>>

report_nobody(t) ==
    /\ pc[t] = "report"
    /\ ~Accountable(t)
    /\ Goto(t, "done")
    /\ UNCHANGED <<query, target, raw, resp, conn, cacheVars, adVars, taken>>

report_record(t) ==
    /\ pc[t] = "record"
    /\ Q!ad_report_block(t)
    /\ Goto(t, "done")
    /\ UNCHANGED <<query, target, raw, resp, conn, cacheVars, taken>>

-----------------------------------------------------------------------------
(* resolve_internal, and the policy that follows it.  A referral or a      *)
(* CNAME calls it again, for the same name or for the target; the model    *)
(* has no limit on the depth (16 in the code, beyond which it fails).      *)

resolve_lookup(t) ==
    /\ pc[t] = "lookup"
    /\ CacheLookup(target[t])
    /\ IF Hit(table, target[t], now)
       THEN /\ raw' = [raw EXCEPT ![t] = table[StopSlot(table, target[t])].data]
            /\ Goto(t, "cached")
       ELSE Goto(t, "upstream") /\ UNCHANGED raw
    /\ UNCHANGED <<query, target, resp, conn, adVars, taken>>

\* The cached buffer is parsed after c->lock was released.  If it was freed since,
\* its contents are arbitrary, and parsing may fail.
parse_cached(t) ==
    /\ pc[t] = "cached"
    /\ \/ /\ heap[raw[t]].live
          /\ Goto(t, IF heap[raw[t]].an THEN "post" ELSE "second")
       \/ /\ ~heap[raw[t]].live
          /\ \E label \in {"post", "second", "upstream"} : Goto(t, label)
    /\ raw' = [raw EXCEPT ![t] = NoBlock]
    /\ UNCHANGED <<query, target, resp, conn, cacheVars, adVars, taken>>

\* A server or the forwarder was asked.
Upstream(t, outcome) ==
    /\ pc[t] = "upstream"
    /\ outcome \in Outcomes
    /\ UNCHANGED <<query, raw, adVars, taken>>

\* An answer: it is stored under the name that was asked for.
upstream_answer(t) ==
    /\ Upstream(t, "answer")
    /\ CacheStore(target[t], TRUE, 1)
    /\ Goto(t, "post")
    /\ UNCHANGED <<target, resp, conn>>

\* An answer with ttl 0: cache_store ignores it.
upstream_zero_ttl(t) ==
    /\ Upstream(t, "zero_ttl")
    /\ Goto(t, "post")
    /\ UNCHANGED <<target, resp, conn, cacheVars>>

\* A CNAME: it is not stored, and its target is resolved instead.
upstream_cname(t) ==
    /\ Upstream(t, "cname")
    /\ \E n \in Names : target' = [target EXCEPT ![t] = n]
    /\ Goto(t, "lookup")
    /\ UNCHANGED <<resp, conn, cacheVars>>

\* A referral: the servers it names are asked, after another look at the cache.
upstream_referral(t) ==
    /\ Upstream(t, "referral")
    /\ Goto(t, "lookup")
    /\ UNCHANGED <<target, resp, conn, cacheVars>>

\* NXDOMAIN (600 seconds), or a forwarder's answer without records (300): it is
\* stored too, and the dynamic policy is not asked.
upstream_negative(t) ==
    /\ Upstream(t, "negative")
    /\ CacheStore(target[t], FALSE, 300)
    /\ Goto(t, "second")
    /\ UNCHANGED <<target, resp, conn>>

upstream_fail(t) ==
    /\ Upstream(t, "fail")
    /\ Servfail(t)
    /\ Goto(t, "done")
    /\ UNCHANGED <<target, cacheVars>>

\* policy_check_post_resolve allows or blocks (its trackers are not modelled here).
post_allow(t) ==
    /\ pc[t] = "post"
    /\ Goto(t, "second")
    /\ UNCHANGED <<query, target, raw, resp, conn, cacheVars, adVars, taken>>

post_block(t) ==
    /\ pc[t] = "post"
    /\ Sinkhole(t)
    /\ Goto(t, "report")
    /\ UNCHANGED <<query, target, raw, cacheVars, adVars, taken>>

\* A slip: a miss of the second lookup sends nothing.
second_lookup_silent(t) ==
    /\ pc[t] = "second"
    /\ CacheLookup(query[t].name)
    /\ IF Hit(table, query[t].name, now)
       THEN /\ raw' = [raw EXCEPT ![t] = table[StopSlot(table, query[t].name)].data]
            /\ Goto(t, "patch")
       ELSE Goto(t, "done") /\ UNCHANGED raw
    /\ UNCHANGED <<query, target, resp, conn, adVars, taken>>

\* The second lookup, for the raw packet to send.
second_lookup(t) ==
    /\ pc[t] = "second"
    /\ CacheLookup(query[t].name)
    /\ IF Hit(table, query[t].name, now)
       THEN /\ raw' = [raw EXCEPT ![t] = table[StopSlot(table, query[t].name)].data]
            /\ Goto(t, "patch")
            /\ UNCHANGED <<resp, conn>>
       ELSE Servfail(t) /\ Goto(t, "done") /\ UNCHANGED raw
    /\ UNCHANGED <<query, target, adVars, taken>>

\* The id is written into the buffer the cache still owns, without its lock.
patch_id(t) ==
    /\ pc[t] = "patch"
    /\ heap' = [heap EXCEPT ![raw[t]].id = query[t].id]
    /\ Goto(t, "send")
    /\ UNCHANGED <<query, target, raw, resp, conn, table, adVars, taken>>

\* The response is whatever the buffer holds by now.
send_raw(t) ==
    /\ pc[t] = "send"
    /\ Respond(t, "raw", heap[raw[t]].id, heap[raw[t]].name)
    /\ raw' = [raw EXCEPT ![t] = NoBlock]
    /\ Goto(t, "done")
    /\ UNCHANGED <<query, target, cacheVars, adVars, taken>>

\* process_dns_query returns; the TCP listener closes its connection.
return(t) ==
    /\ pc[t] = "done"
    /\ query' = [query EXCEPT ![t] = NoQuery]
    /\ target' = [target EXCEPT ![t] = "none"]
    /\ resp' = [resp EXCEPT ![t] = << >>]
    /\ conn' = [conn EXCEPT ![t] = @ /\ Kind[t] # "tcp"]
    /\ Goto(t, "idle")
    /\ UNCHANGED <<raw, cacheVars, adVars, taken>>

process_dns_query(t) ==
    \/ rate_pass(t) \/ rate_drop(t) \/ quarantine_check(t)
    \/ policy_block(t) \/ policy_allow(t)
    \/ report_time(t) \/ report_nobody(t) \/ report_record(t)
    \/ resolve_lookup(t) \/ parse_cached(t)
    \/ upstream_answer(t) \/ upstream_zero_ttl(t) \/ upstream_cname(t)
    \/ upstream_referral(t) \/ upstream_negative(t) \/ upstream_fail(t)
    \/ post_allow(t) \/ post_block(t)
    \/ second_lookup(t) \/ patch_id(t) \/ send_raw(t) \/ return(t)

Tick ==
    /\ Q!Tick
    /\ UNCHANGED <<pc, query, target, raw, resp, conn, cacheVars, taken>>

Next ==
    \/ \E t \in Threads : accept(t) \/ reject(t) \/ parse(t) \/ parse_error(t)
    \/ \E t \in Threads : process_dns_query(t)
    \/ Tick

Spec == Init /\ [][Next]_vars

-----------------------------------------------------------------------------
(* Properties.                                                             *)

\* Every path through process_dns_query answers exactly once, except that a rate
\* limited query is dropped silently; TCP and localhost queries never are.
AnsweredOnce ==
    \A t \in Threads :
        /\ Len(resp[t]) <= 1
        /\ pc[t] = "done" /\ resp[t] = << >> => Accountable(t)

\* The buffers of the cache, whichever threads look up, store and expire: each
\* entry owns a live buffer of its own and each live buffer has an entry, so
\* nothing is freed twice and nothing leaks.
BuffersOwned ==
    /\ TypeOK
    /\ \A s \in Used(table) : heap[table[s].data].live
    /\ \A s, r \in Used(table) : table[s].data = table[r].data => s = r
    /\ \A b \in Blocks : heap[b].live => \E s \in Used(table) : table[s].data = b

\* The threads that can report block events.
Reporters == {t \in Threads : Kind[t] # "tcp"}

\* The quarantine bites in time: the check comes long before the report, yet a
\* client collects at most MAX_EVENTS events per window, plus one for each other
\* thread that was already past the check.
OvershootBound ==
    \A c \in Clients :
        Cardinality(Q!EventsIn(events, c, now - WINDOW, now))
            <= MAX_EVENTS + Cardinality(Reporters) - 1

\* What doh.c says of a query that it has given to process_dns_query, and it closes the
\* socket nowhere else from there on: "process_dns_query va trimite raspunsul prin callback,
\* care inchide socketul si elibereaza cb_arg" (it will send the answer through the
\* callback, which closes the socket and frees cb_arg).
DohCloses == \A t \in Threads : pc[t] = "done" /\ Kind[t] = "doh" => ~conn[t]

\* What processor.c says it does, "send raw cached packet", under a cache lock that
\* "protects all fields": an answer taken from the cache is the one cached for the
\* name that was asked for, and carries the id of the query it answers.
RawAnswersQuery ==
    \A t \in Threads : \A i \in DOMAIN resp[t] :
        resp[t][i].what = "raw" => /\ resp[t][i].id = query[t].id
                                   /\ resp[t][i].name = query[t].name
=============================================================================
