-------------------------- MODULE ProcessorProofs --------------------------
(***************************************************************************)
(* TLAPS proofs about Processor, for any number of threads of each kind,   *)
(* any clients, names and cache, and any quarantine.  They rest on the     *)
(* lemmas of QuarantineProofs about the reports.                           *)
(***************************************************************************)
EXTENDS Processor, FiniteSetTheorems, TLAPS

QP == INSTANCE QuarantineProofs WITH MaxReports <- MaxQueries

(* The inductive invariant.                                                *)

Unsent == {"read", "rate", "quarantine", "policy", "lookup", "cached", "upstream", "post",
           "second", "patch", "send"}
Sent   == {"report", "record"}

\* What thread t has, at each place of process_dns_query: the query it was given, the name
\* it resolves, the buffer it was handed, the one response it has sent or not, and
\* the report it has timed.
Local(t) ==
    /\ pc[t] \notin {"idle", "read", "done"} => query[t] \in Query
    /\ Kind[t] = "tcp" => query[t].client = NoClient
    /\ pc[t] \in {"lookup", "cached", "upstream"} => target[t] \in Names
    /\ pc[t] \in {"cached", "patch", "send"} => raw[t] \in Blocks
    /\ pc[t] \in Unsent \cup {"idle"} => resp[t] = << >>
    /\ pc[t] \in Sent => Len(resp[t]) = 1
    /\ pc[t] = "done" => /\ Len(resp[t]) <= 1
                         /\ resp[t] = << >> => Accountable(t)
    /\ reports[t] # NoReport <=> pc[t] = "record"
    /\ pc[t] = "record" => reports[t].client_ip = query[t].client /\ Accountable(t)

Locals == \A t \in Threads : Local(t)

Types ==
    /\ pc \in [Threads -> PCs]
    /\ query \in [Threads -> Query \cup {NoQuery}]
    /\ target \in [Threads -> Names \cup {"none"}]
    /\ raw \in [Threads -> Blocks \cup {NoBlock}]
    /\ resp \in [Threads -> Seq(Response)]
    /\ conn \in [Threads -> BOOLEAN]
    /\ taken \in 0..MaxQueries

\* Entries and live buffers belong together, one to one.
Owned(tab, h) ==
    /\ tab \in [Slots -> Entry \cup {Unused}]
    /\ h \in [Blocks -> Buffer]
    /\ \A s \in Used(tab) : h[tab[s].data].live
    /\ \A s, r \in Used(tab) : tab[s].data = tab[r].data => s = r
    /\ \A b \in Blocks : h[b].live => \E s \in Used(tab) : tab[s].data = b

\* Threads that were let past the quarantine check for client c, and may still report.
Past    == (Unsent \ {"read", "rate", "quarantine"}) \cup Sent
Late(c) == {t \in Reporters : pc[t] \in Past /\ query[t].client = c}

\* A window that is full, and does not lie in the past, grows only by the reports of the
\* threads that were past the check: the others are banned until it ends.
Overshoot ==
    \A c \in Clients, t \in 0..MaxTime :
        t >= now /\ Cardinality(Q!EventsIn(events, c, t - WINDOW, t)) >= MAX_EVENTS =>
            Cardinality(Q!EventsIn(events, c, t - WINDOW, t)) + Cardinality(Late(c))
                <= MAX_EVENTS + Cardinality(Reporters) - 1

\* Only clients that answer for their queries are reported, and no ban is lifted.
Reported ==
    /\ \A i \in DOMAIN events : events[i].client_ip # Localhost
    /\ pardoned = {}

IInv == Types /\ Locals /\ Owned(table, heap) /\ QP!IInv /\ Reported /\ Overshoot

-----------------------------------------------------------------------------
(* The quarantine as its own proofs see it, and the walk over the table.   *)

\* The assumptions of the instance.
LEMMA Assumptions == QP!QuarantineAssumption
BY ProcessorAssumption, ReportAssumption DEF QP!QuarantineAssumption, QP!Event, Q!Event

\* A set of numbers has a smallest one: the loop over the probe sequence stops at the
\* first slot where it can.
LEMMA SmallestNumber ==
    ASSUME NEW S, S \subseteq Nat, S # {}
    PROVE  \E x \in S : \A y \in S : x <= y
<1>1. PICK x \in S : \A y \in S : ~(<<y, x>> \in OpToRel(<, Nat))
    BY NatLessThanWellFounded, WFMin
<1>2. \A y \in S : ~(y < x)
    BY <1>1 DEF OpToRel
<1>. QED  BY <1>2

\* The walk of cache_lookup and cache_store stops at a slot of the table that is not used
\* or holds the key.
LEMMA StopFacts ==
    ASSUME NEW tab, NEW k \in Names, Stops(tab, k) # {}
    PROVE  /\ StopSlot(tab, k) \in Slots
           /\ tab[StopSlot(tab, k)] = Unused \/ tab[StopSlot(tab, k)].key = k
<1>. DEFINE i == CHOOSE i \in Stops(tab, k) : \A j \in Stops(tab, k) : i <= j
<1>1. Home[k] \in Slots /\ Capacity \in Nat \ {0}
    BY CacheAssumption DEF Names
<1>2. i \in Stops(tab, k)
    <2>1. Stops(tab, k) \subseteq Nat
        BY <1>1 DEF Stops, Slots
    <2>. QED  BY <2>1, SmallestNumber
<1>3. StopSlot(tab, k) = Probe(k, i)
    BY DEF StopSlot
<1>. HIDE DEF i
<1>4. i \in Slots /\ (tab[Probe(k, i)] = Unused \/ tab[Probe(k, i)].key = k)
    BY <1>2 DEF Stops
<1>5. Probe(k, i) \in Slots
    BY <1>1, <1>4 DEF Probe, Slots
<1>. QED  BY <1>3, <1>4, <1>5

\* Counting is the same in every module.
LEMMA SameCardinality ==
    ASSUME NEW S
    PROVE  Q!Cardinality(S) = Cardinality(S) /\ QP!Cardinality(S) = Cardinality(S)
BY DEF Cardinality, Q!Cardinality, QP!Cardinality

\* A block is reported and counted, whatever else process_dns_query is about.
LEMMA QuarantineSteps ==
    ASSUME QP!IInv
    PROVE  /\ \A t \in Threads : Q!ad_report_block(t) => QP!IInv'
           /\ \A t \in Threads, c \in Clients : Q!ad_report_block_time(t, c) => QP!IInv'
           /\ Q!Tick => QP!IInv'
           /\ UNCHANGED adVars => QP!IInv'
<1>1. ASSUME NEW t \in Threads, Q!ad_report_block(t) PROVE QP!IInv'
    <2>1. QP!ad_report_block(t)
        BY <1>1, SameCardinality DEF Q!ad_report_block, QP!ad_report_block, Q!Counted, QP!Counted
    <2>. QED  BY <2>1, Assumptions, QP!ReportPreserves
<1>2. ASSUME NEW t \in Threads, NEW c \in Clients, Q!ad_report_block_time(t, c) PROVE QP!IInv'
    <2>1. QP!ad_report_block_time(t, c)
        BY <1>2 DEF Q!ad_report_block_time, QP!ad_report_block_time
    <2>. QED  BY <2>1, Assumptions, QP!TimePreserves
<1>3. ASSUME Q!Tick PROVE QP!IInv'
    <2>1. QP!Tick
        BY <1>3 DEF Q!Tick, QP!Tick
    <2>. QED  BY <2>1, Assumptions, QP!ClockPreserves
<1>4. ASSUME UNCHANGED adVars PROVE QP!IInv'
    <2>1. UNCHANGED QP!vars
        BY <1>4 DEF QP!vars, adVars
    <2>. QED  BY <2>1, Assumptions, QP!NextIInv
<1>. QED  BY <1>1, <1>2, <1>3, <1>4

-----------------------------------------------------------------------------
(* A step of one thread.                                                   *)

\* Only thread t moves.
Alone(t) ==
    \A u \in Threads : u # t =>
        /\ pc'[u] = pc[u] /\ query'[u] = query[u] /\ target'[u] = target[u]
        /\ raw'[u] = raw[u] /\ resp'[u] = resp[u] /\ conn'[u] = conn[u]
        /\ reports'[u] = reports[u]

\* The other threads are not concerned.
LEMMA MoveStep ==
    ASSUME Locals, NEW t \in Threads, Alone(t), Local(t)'
    PROVE  /\ Locals'
           /\ pc'[t] \notin Past => \A c : Late(c)' = Late(c) \ {t}
           /\ pc[t] \in Past /\ query'[t].client = query[t].client
                 => \A c : Late(c)' \subseteq Late(c)
<1>1. Locals'
    <2>. SUFFICES ASSUME NEW u \in Threads, u # t PROVE Local(u)'
        BY DEF Locals
    <2>. QED  BY DEF Locals, Local, Accountable, Alone
<1>2. Reporters \subseteq Threads
    BY DEF Reporters
<1>. QED  BY <1>1, <1>2 DEF Late, Alone

\* The threads that may still report are finitely many.
LEMMA LateFacts ==
    ASSUME NEW S \in SUBSET Reporters, NEW R \in SUBSET S
    PROVE  /\ IsFiniteSet(S) /\ IsFiniteSet(R)
           /\ Cardinality(S) \in Nat /\ Cardinality(R) \in Nat /\ Cardinality(Reporters) \in Nat
           /\ Cardinality(R) <= Cardinality(S) /\ Cardinality(S) <= Cardinality(Reporters)
<1>1. IsFiniteSet(Reporters)
    BY FS_Subset, ProcessorAssumption DEF Reporters
<1>2. IsFiniteSet(S) /\ Cardinality(S) <= Cardinality(Reporters)
    BY <1>1, FS_Subset
<1>3. IsFiniteSet(R) /\ Cardinality(R) <= Cardinality(S)
    BY <1>2, FS_Subset
<1>. QED  BY <1>1, <1>2, <1>3, FS_CardinalityType

\* The events of a window are finitely many.
LEMMA WindowFacts ==
    ASSUME NEW log \in Seq(Q!Event), NEW c, NEW l, NEW h
    PROVE  /\ Q!EventsIn(log, c, l, h) \subseteq 1..Len(log)
           /\ IsFiniteSet(Q!EventsIn(log, c, l, h))
           /\ Cardinality(Q!EventsIn(log, c, l, h)) \in Nat
<1>1. Len(log) \in Nat /\ Q!EventsIn(log, c, l, h) \subseteq 1..Len(log)
    BY DEF Q!EventsIn
<1>2. IsFiniteSet(1..Len(log))
    BY <1>1, FS_Interval
<1>3. IsFiniteSet(Q!EventsIn(log, c, l, h))
    BY <1>1, <1>2, FS_Subset
<1>. QED  BY <1>1, <1>3, FS_CardinalityType

\* Nobody new comes past the check for a client over the threshold, and no event is added.
LEMMA OvershootStep ==
    ASSUME QP!IInv, QP!IInv', Overshoot, events' = events, now' >= now,
           \A c \in Clients :
               \/ Late(c)' \subseteq Late(c)
               \/ \A t \in 0..MaxTime :
                     t >= now => Cardinality(Q!EventsIn(events, c, t - WINDOW, t)) < MAX_EVENTS
    PROVE  Overshoot'
<1>. SUFFICES ASSUME NEW c \in Clients, NEW t \in 0..MaxTime, t >= now',
                     Cardinality(Q!EventsIn(events, c, t - WINDOW, t)) >= MAX_EVENTS
              PROVE  Cardinality(Q!EventsIn(events, c, t - WINDOW, t)) + Cardinality(Late(c)')
                         <= MAX_EVENTS + Cardinality(Reporters) - 1
    BY DEF Overshoot, Late, Reporters, Q!EventsIn
<1>1. now \in 0..MaxTime /\ now' \in 0..MaxTime /\ events \in Seq(Q!Event)
    BY DEF QP!IInv, QP!TypeOK, QP!Event, Q!Event
<1>. DEFINE e == Cardinality(Q!EventsIn(events, c, t - WINDOW, t))
<1>2. e \in Nat
    BY <1>1, WindowFacts
<1>3. t >= now
    BY <1>1
<1>4. Late(c)' \subseteq Late(c)
    BY <1>2, <1>3, ReportAssumption
<1>5. Late(c) \subseteq Reporters
    BY DEF Late
<1>6. /\ Cardinality(Late(c)') <= Cardinality(Late(c))
      /\ Cardinality(Late(c)') \in Nat /\ Cardinality(Late(c)) \in Nat /\ Cardinality(Reporters) \in Nat
    BY <1>4, <1>5, LateFacts
<1>7. e + Cardinality(Late(c)) <= MAX_EVENTS + Cardinality(Reporters) - 1
    BY <1>3 DEF Overshoot
<1>. HIDE DEF e
<1>8. e + Cardinality(Late(c)') <= MAX_EVENTS + Cardinality(Reporters) - 1
    BY <1>2, <1>6, <1>7, ReportAssumption
<1>. QED  BY <1>8 DEF e

\* A step that reports nothing and lets nobody past the check.
LEMMA QuietStep ==
    ASSUME IInv, NEW t \in Threads, Types', Alone(t), Local(t)', UNCHANGED adVars,
           Owned(table', heap'),
           pc'[t] \in Past => pc[t] \in Past /\ query'[t].client = query[t].client
    PROVE  IInv'
<1>1. /\ now' = now /\ events' = events /\ quarantined' = quarantined /\ reports' = reports
      /\ forward' = forward /\ pardoned' = pardoned
    BY DEF adVars
<1>2. Types /\ Locals /\ QP!IInv /\ Reported /\ Overshoot
    BY DEF IInv
<1>3. QP!IInv'
    BY <1>2, QuarantineSteps
<1>4. Locals' /\ \A c \in Clients : Late(c)' \subseteq Late(c)
    BY <1>2, MoveStep
<1>5. now \in Int
    BY <1>2, ReportAssumption DEF QP!IInv, QP!TypeOK
<1>6. Overshoot'
    BY <1>1, <1>2, <1>3, <1>4, <1>5, OvershootStep
<1>7. Reported' /\ Owned(table, heap)'
    BY <1>1, <1>2 DEF Reported, Owned, Used, Slots
<1>. QED  BY <1>3, <1>4, <1>6, <1>7 DEF IInv

\* What a thread has, as the steps need it.
LEMMA AtStep ==
    ASSUME IInv, NEW t \in Threads
    PROVE  /\ Types /\ Owned(table, heap) /\ Local(t)
           /\ pc[t] \in PCs /\ query[t] \in Query \cup {NoQuery}
           /\ target[t] \in Names \cup {"none"} /\ raw[t] \in Blocks \cup {NoBlock}
           /\ resp[t] \in Seq(Response) /\ conn[t] \in BOOLEAN
           /\ Kind[t] \in {"udp", "tcp", "doh"}
           /\ query[t] \in Query => /\ query[t].id \in Ids /\ query[t].name \in Names
                                    /\ query[t].client \in Clients \cup {NoClient}
<1>1. Types /\ Owned(table, heap) /\ Locals
    BY DEF IInv
<1>2. query[t] \in Query => /\ query[t].id \in Ids /\ query[t].name \in Names
                            /\ query[t].client \in Clients \cup {NoClient}
    BY DEF Query
<1>. QED  BY <1>1, <1>2, ProcessorAssumption DEF Types, Locals

\* Where a thread may be when it has passed the check, and where it has not.
LEMMA Labels ==
    /\ Past = {"policy", "lookup", "cached", "upstream", "post", "second", "patch", "send",
               "report", "record"}
    /\ Past \subseteq PCs
    /\ \A at \in {"idle", "read", "rate", "quarantine", "done"} : at \in PCs /\ at \notin Past
BY DEF Past, PCs, Unsent, Sent

\* response_cb: the one response.
LEMMA RespondFacts ==
    ASSUME Types, NEW t \in Threads, resp[t] = << >>, NEW r \in Response,
           resp' = [resp EXCEPT ![t] = Append(@, r)],
           conn' = [conn EXCEPT ![t] = @ /\ Kind[t] # "doh"]
    PROVE  /\ resp' \in [Threads -> Seq(Response)] /\ conn' \in [Threads -> BOOLEAN]
           /\ Len(resp'[t]) = 1 /\ resp'[t] # << >>
           /\ \A u \in Threads : u # t => resp'[u] = resp[u] /\ conn'[u] = conn[u]
<1>1. Append(<< >>, r) \in Seq(Response) /\ Len(Append(<< >>, r)) = 1
    OBVIOUS
<1>. DEFINE rs == Append(<< >>, r)
<1>2. resp' = [resp EXCEPT ![t] = rs] /\ resp \in [Threads -> Seq(Response)]
    BY DEF Types
<1>3. rs # << >>
    BY <1>1
<1>. HIDE DEF rs
<1>4. /\ resp' \in [Threads -> Seq(Response)] /\ resp'[t] = rs
      /\ \A u \in Threads : u # t => resp'[u] = resp[u]
    BY <1>1, <1>2 DEF rs
<1>5. /\ conn' \in [Threads -> BOOLEAN]
      /\ \A u \in Threads : u # t => conn'[u] = conn[u]
    BY DEF Types
<1>. QED  BY <1>1, <1>3, <1>4, <1>5 DEF rs

\* A thread that has answered: it is done, or has a block to report.
LEMMA AnsweredFacts ==
    ASSUME NEW t \in Threads, Local(t), pc'[t] \in {"done", "report"},
           query'[t] = query[t], reports'[t] = NoReport,
           pc'[t] = "report" => query[t] \in Query,
           Len(resp'[t]) = 1, resp'[t] # << >>
    PROVE  Local(t)'
BY DEF Local, Unsent, Sent

\* A step that answers, with one of the three kinds of response.
LEMMA AnswerStep ==
    ASSUME IInv, NEW t \in Threads, pc[t] \in Unsent \cup {"idle"}, NEW r \in Response,
           resp' = [resp EXCEPT ![t] = Append(@, r)],
           conn' = [conn EXCEPT ![t] = @ /\ Kind[t] # "doh"],
           NEW at \in {"done", "report"}, pc' = [pc EXCEPT ![t] = at],
           at = "report" => pc[t] \in Past,
           raw' \in {raw, [raw EXCEPT ![t] = NoBlock]},
           UNCHANGED <<query, target>>, UNCHANGED adVars, taken' \in 0..MaxQueries,
           Owned(table', heap')
    PROVE  IInv'
<1>. USE AtStep
<1>1. resp[t] = << >> /\ reports[t] = NoReport /\ (pc[t] \in Past => query[t] \in Query)
    BY Labels DEF Local, Unsent
<1>2. /\ resp' \in [Threads -> Seq(Response)] /\ conn' \in [Threads -> BOOLEAN]
      /\ Len(resp'[t]) = 1 /\ resp'[t] # << >>
      /\ \A u \in Threads : u # t => resp'[u] = resp[u] /\ conn'[u] = conn[u]
    BY <1>1, RespondFacts
<1>3. reports' = reports
    BY DEF adVars
<1>4. Types' /\ Alone(t) /\ pc'[t] = at
    BY <1>2, <1>3, Labels, ZenonT(30) DEF Types, Alone
<1>5. Local(t)'
    BY <1>1, <1>2, <1>3, <1>4, AnsweredFacts
<1>6. pc'[t] \in Past => pc[t] \in Past /\ query'[t].client = query[t].client
    BY <1>4, Labels
<1>. QED  BY <1>4, <1>5, <1>6, QuietStep

\* A query arrives: accept, reject, parse, parse_error.
LEMMA ArrivePreserves ==
    ASSUME IInv, NEW t \in Threads, accept(t) \/ reject(t) \/ parse(t) \/ parse_error(t)
    PROVE  IInv'
<1>. USE AtStep, ProcessorAssumption
<1>1. Owned(table', heap') /\ UNCHANGED adVars /\ reports' = reports
    BY DEF accept, reject, parse, parse_error, cacheVars, adVars
<1>2. /\ pc[t] \in {"idle", "read"} /\ reports[t] = NoReport /\ resp[t] = << >>
      /\ taken' \in 0..MaxQueries
    BY DEF accept, reject, parse, parse_error, Arrive, Begin, Local, Unsent, Types
<1>3. CASE accept(t)
    <2>1. Types' /\ Alone(t) /\ pc'[t] = "read"
        BY <1>1, <1>2, <1>3, Labels DEF accept, Goto, Types, Alone
    <2>2. Local(t)'
        BY <1>1, <1>2, <1>3, <2>1 DEF accept, Goto, Types, Local, Unsent, Sent, Accountable
    <2>. QED  BY <1>1, <2>1, <2>2, Labels, QuietStep
<1>4. CASE reject(t)
    <2>1. Types' /\ Alone(t) /\ pc'[t] = "idle"
        BY <1>1, <1>2, <1>4, Labels DEF reject, Goto, Types, Alone
    <2>2. Local(t)'
        BY <1>1, <1>2, <1>4, <2>1 DEF reject, Goto, Types, Local, Unsent, Sent, Accountable
    <2>. QED  BY <1>1, <2>1, <2>2, Labels, QuietStep
<1>5. CASE parse(t)
    <2>1. PICK id \in Ids, n \in Names, c \in ClientsOf(t) :
              query' = [query EXCEPT ![t] = [id |-> id, name |-> n, client |-> c]]
        BY <1>5 DEF parse
    <2>2. query'[t] \in Query /\ query'[t].client = c /\ (Kind[t] = "tcp" => c = NoClient)
        BY <2>1 DEF Query, ClientsOf, Types
    <2>3. Types' /\ Alone(t) /\ pc'[t] = "rate"
        BY <1>1, <1>2, <1>5, <2>1, <2>2, Labels DEF parse, Goto, Types, Alone
    <2>4. Local(t)'
        BY <1>1, <1>2, <1>5, <2>2, <2>3 DEF parse, Local, Unsent, Sent, Accountable
    <2>. QED  BY <1>1, <2>3, <2>4, Labels, QuietStep
<1>6. CASE parse_error(t)
    <2>. DEFINE r == [what |-> "servfail", id |-> 0, name |-> "none"]
    <2>1. r \in Response
        BY DEF Response
    <2>2. /\ resp' = [resp EXCEPT ![t] = Append(@, r)] /\ pc' = [pc EXCEPT ![t] = "done"]
          /\ conn' = [conn EXCEPT ![t] = @ /\ Kind[t] # "doh"] /\ UNCHANGED <<query, target, raw>>
        BY <1>2, <1>6 DEF parse_error, Goto, Types
    <2>3. pc[t] \in Unsent \cup {"idle"}
        BY <1>2 DEF Unsent
    <2>. HIDE DEF r
    <2>. QED  BY <1>1, <1>2, <2>1, <2>2, <2>3, Labels, AnswerStep
<1>. QED  BY <1>3, <1>4, <1>5, <1>6

\* The steps that only go on to the next label: rate limit, dynamic policy, and the end of
\* a block that is reported for nobody.
LEMMA GoOnPreserves ==
    ASSUME IInv, NEW t \in Threads,
           rate_pass(t) \/ rate_drop(t) \/ post_allow(t) \/ report_nobody(t)
    PROVE  IInv'
<1>. USE AtStep, ProcessorAssumption
<1>1. /\ UNCHANGED <<query, target, raw, resp, conn, taken>> /\ UNCHANGED adVars
      /\ reports' = reports /\ Owned(table', heap')
    BY DEF rate_pass, rate_drop, post_allow, report_nobody, cacheVars, adVars
<1>2. PICK at \in {"quarantine", "second", "done"} :
          /\ pc' = [pc EXCEPT ![t] = at] /\ pc[t] \in {"rate", "post", "report"}
          /\ at = "quarantine" => pc[t] = "rate"
          /\ at = "second" => pc[t] = "post"
          /\ at = "done" => \/ pc[t] = "rate" /\ Accountable(t)
                            \/ pc[t] = "report" /\ ~Accountable(t)
    BY DEF rate_pass, rate_drop, post_allow, report_nobody, Goto
<1>3. Types' /\ Alone(t) /\ pc'[t] = at
    BY <1>1, <1>2, Labels DEF Types, Alone
<1>4. Local(t)'
    <2>1. pc'[t] = at /\ Accountable(t)' = Accountable(t) /\ reports[t] = NoReport
        BY <1>1, <1>2, <1>3 DEF Accountable, Local
    <2>2. Len(<< >>) = 0 /\ (resp[t] = << >> => Len(resp[t]) = 0)
        OBVIOUS
    <2>3. CASE at \in {"quarantine", "second"}
        BY <1>1, <1>2, <2>1, <2>3 DEF Local, Unsent, Sent
    <2>4. CASE at = "done" /\ pc[t] = "rate"
        BY <1>1, <1>2, <2>1, <2>2, <2>4 DEF Local, Unsent, Sent
    <2>5. CASE at = "done" /\ pc[t] = "report"
        <3>1. Len(resp[t]) = 1
            BY <2>5 DEF Local, Sent
        <3>2. resp[t] # << >>
            BY <2>2, <3>1
        <3>. QED  BY <1>1, <1>3, <2>1, <2>5, <3>1, <3>2, AnsweredFacts
    <2>. QED  BY <1>2, <2>3, <2>4, <2>5
<1>. QED  BY <1>1, <1>2, <1>3, <1>4, Labels, QuietStep

\* The steps that answer without a look at the cache: a block, and a resolution that
\* failed.
LEMMA BlockPreserves ==
    ASSUME IInv, NEW t \in Threads, policy_block(t) \/ post_block(t) \/ upstream_fail(t)
    PROVE  IInv'
<1>. USE AtStep, ProcessorAssumption
<1>1. /\ UNCHANGED <<query, target>> /\ raw' = raw /\ UNCHANGED adVars /\ Owned(table', heap')
      /\ taken' \in 0..MaxQueries /\ pc[t] \in {"policy", "post", "upstream"}
    BY DEF policy_block, post_block, upstream_fail, Upstream, cacheVars, Types
<1>2. query[t].id \in Ids /\ query[t].name \in Names
    BY <1>1 DEF Local
<1>3. PICK r \in Response, at \in {"done", "report"} :
          /\ resp' = [resp EXCEPT ![t] = Append(@, r)]
          /\ conn' = [conn EXCEPT ![t] = @ /\ Kind[t] # "doh"]
          /\ pc' = [pc EXCEPT ![t] = at]
    <2>1. ASSUME NEW what \in {"sinkhole", "servfail", "raw"}, NEW id \in Ids \cup {0},
                 NEW name \in Names \cup {"none"}
          PROVE  [what |-> what, id |-> id, name |-> name] \in Response
        BY DEF Response
    <2>2. CASE policy_block(t) \/ post_block(t)
        <3>. DEFINE r == [what |-> "sinkhole", id |-> query[t].id, name |-> query[t].name]
        <3>1. r \in Response
            BY <1>2, <2>1
        <3>2. /\ resp' = [resp EXCEPT ![t] = Append(@, r)]
              /\ conn' = [conn EXCEPT ![t] = @ /\ Kind[t] # "doh"]
              /\ pc' = [pc EXCEPT ![t] = "report"]
            BY <2>2 DEF policy_block, post_block, Sinkhole, Respond, Goto
        <3>. HIDE DEF r
        <3>. QED  BY <3>1, <3>2
    <2>3. CASE upstream_fail(t)
        <3>. DEFINE r == [what |-> "servfail", id |-> query[t].id, name |-> "none"]
        <3>1. r \in Response
            BY <1>2, <2>1
        <3>2. /\ resp' = [resp EXCEPT ![t] = Append(@, r)]
              /\ conn' = [conn EXCEPT ![t] = @ /\ Kind[t] # "doh"]
              /\ pc' = [pc EXCEPT ![t] = "done"]
            BY <2>3 DEF upstream_fail, Servfail, Respond, Goto
        <3>. HIDE DEF r
        <3>. QED  BY <3>1, <3>2
    <2>. QED  BY <2>2, <2>3
<1>4. pc[t] \in Unsent /\ pc[t] \in Past
    BY <1>1 DEF Unsent, Past
<1>. QED  BY <1>1, <1>3, <1>4, AnswerStep

\* The steps of resolve_internal that leave the cache alone.
LEMMA ResolvePreserves ==
    ASSUME IInv, NEW t \in Threads,
           \/ policy_allow(t) \/ parse_cached(t) \/ upstream_zero_ttl(t)
           \/ upstream_cname(t) \/ upstream_referral(t)
    PROVE  IInv'
<1>. USE AtStep, ProcessorAssumption
<1>1. /\ UNCHANGED <<query, resp, conn, taken>> /\ UNCHANGED adVars
      /\ reports' = reports /\ Owned(table', heap')
    BY DEF policy_allow, parse_cached, upstream_zero_ttl, upstream_cname, upstream_referral,
           Upstream, cacheVars, adVars
<1>2. pc[t] \in {"policy", "cached", "upstream"}
    BY DEF policy_allow, parse_cached, upstream_zero_ttl, upstream_cname, upstream_referral,
           Upstream
<1>3. PICK at \in {"lookup", "post", "second", "upstream"}, n \in Names \cup {"none"},
           b \in Blocks \cup {NoBlock} :
          /\ pc' = [pc EXCEPT ![t] = at] /\ target' = [target EXCEPT ![t] = n]
          /\ raw' = [raw EXCEPT ![t] = b]
          /\ at \in {"lookup", "upstream"} => n \in Names
    <2>1. query[t].name \in Names /\ (pc[t] # "policy" => target[t] \in Names)
        BY <1>2 DEF Local
    <2>2. /\ target' = target => target' = [target EXCEPT ![t] = target[t]]
          /\ raw' = raw => raw' = [raw EXCEPT ![t] = raw[t]]
        BY DEF Types
    <2>3. CASE policy_allow(t)
        <3>1. /\ pc' = [pc EXCEPT ![t] = "lookup"] /\ target' = [target EXCEPT ![t] = query[t].name]
              /\ raw' = [raw EXCEPT ![t] = raw[t]]
            BY <2>2, <2>3 DEF policy_allow, Goto
        <3>2. query[t].name \in Names \cup {"none"} /\ raw[t] \in Blocks \cup {NoBlock}
            BY <2>1
        <3>. QED  BY <2>1, <3>1, <3>2
    <2>4. CASE parse_cached(t)
        BY <2>1, <2>2, <2>4 DEF parse_cached, Goto
    <2>5. CASE upstream_zero_ttl(t) \/ upstream_referral(t)
        BY <2>1, <2>2, <2>5 DEF upstream_zero_ttl, upstream_referral, Upstream, Goto
    <2>6. CASE upstream_cname(t)
        BY <2>1, <2>2, <2>6 DEF upstream_cname, Upstream, Goto
    <2>. QED  BY <2>3, <2>4, <2>5, <2>6
<1>4. Types' /\ Alone(t) /\ pc'[t] = at /\ target'[t] = n
    BY <1>1, <1>3, Labels DEF Types, Alone
<1>5. Local(t)'
    BY <1>1, <1>2, <1>3, <1>4 DEF Local, Unsent, Sent
<1>. QED  BY <1>1, <1>2, <1>4, <1>5, Labels, QuietStep

-----------------------------------------------------------------------------
(* The buffers of the cache.                                               *)

\* The slots in use, as entries.
LEMMA OwnedFacts ==
    ASSUME NEW tab, NEW h, Owned(tab, h)
    PROVE  \A s \in Used(tab) : /\ s \in Slots /\ tab[s] # Unused /\ tab[s] \in Entry
                                /\ tab[s].key \in Names /\ tab[s].data \in Blocks
                                /\ tab[s].expiry \in Int
BY DEF Owned, Used, Entry

\* The entry that a walk finds.
LEMMA HoldsFacts ==
    ASSUME NEW tab, NEW k \in Names, Holds(tab, k)
    PROVE  StopSlot(tab, k) \in Used(tab) /\ tab[StopSlot(tab, k)].key = k
BY StopFacts DEF Holds, Used

\* An answer is freed: its entry goes with it.
LEMMA FreeOwned ==
    ASSUME NEW tab, NEW h, Owned(tab, h), NEW s \in Used(tab),
           NEW new, NEW g, new = [tab EXCEPT ![s] = Unused],
           g = [h EXCEPT ![tab[s].data].live = FALSE]
    PROVE  Owned(new, g)
<1>1. /\ s \in Slots /\ tab[s].data \in Blocks
      /\ tab \in [Slots -> Entry \cup {Unused}] /\ h \in [Blocks -> Buffer]
    BY OwnedFacts DEF Owned
<1>. DEFINE d == tab[s].data
<1>2. new \in [Slots -> Entry \cup {Unused}] /\ Used(new) = Used(tab) \ {s}
      /\ \A r \in Used(new) : new[r] = tab[r]
    BY <1>1 DEF Used
<1>. HIDE DEF d
<1>3. g \in [Blocks -> Buffer] /\ ~g[d].live /\ \A b \in Blocks : b # d => g[b] = h[b]
    BY <1>1 DEF Buffer, d
<1>4. \A r \in Used(new) : r \in Used(tab) /\ tab[r].data \in Blocks /\ tab[r].data # d
    BY <1>2, OwnedFacts DEF Owned, d
<1>5. ASSUME NEW r \in Used(new)
      PROVE  /\ g[new[r].data].live
             /\ \A q \in Used(new) : new[r].data = new[q].data => r = q
    <2>1. r \in Used(tab) /\ new[r] = tab[r] /\ tab[r].data \in Blocks /\ tab[r].data # d
        BY <1>2, <1>4
    <2>2. h[tab[r].data].live /\ \A q \in Used(tab) : tab[r].data = tab[q].data => r = q
        BY <2>1 DEF Owned
    <2>3. g[tab[r].data] = h[tab[r].data]
        BY <1>3, <2>1
    <2>4. \A q \in Used(new) : q \in Used(tab) /\ new[q] = tab[q]
        BY <1>2
    <2>. QED  BY <2>1, <2>2, <2>3, <2>4, ZenonT(30)
<1>6. \A r \in Used(new) : g[new[r].data].live
    BY <1>5
<1>7. \A r, q \in Used(new) : new[r].data = new[q].data => r = q
    BY <1>5
<1>8. ASSUME NEW b \in Blocks, g[b].live PROVE \E r \in Used(new) : new[r].data = b
    <2>1. b # d /\ h[b].live
        BY <1>3, <1>8
    <2>2. PICK r \in Used(tab) : tab[r].data = b
        BY <2>1 DEF Owned
    <2>3. r # s
        BY <2>1, <2>2 DEF d
    <2>. QED  BY <1>2, <2>2, <2>3
<1>. QED  BY <1>2, <1>3, <1>6, <1>7, <1>8 DEF Owned

\* An answer is put into a slot that is not used, in a buffer nobody owns.
LEMMA PutOwned ==
    ASSUME NEW tab, NEW h, Owned(tab, h), NEW s \in Slots, tab[s] = Unused,
           NEW e \in Entry, ~h[e.data].live, NEW v \in Buffer, v.live,
           NEW new, NEW g, new = [tab EXCEPT ![s] = e], g = [h EXCEPT ![e.data] = v]
    PROVE  Owned(new, g)
<1>1. /\ e.data \in Blocks /\ e # Unused
      /\ tab \in [Slots -> Entry \cup {Unused}] /\ h \in [Blocks -> Buffer]
    BY UnusedAssumption DEF Owned, Entry
<1>2. new \in [Slots -> Entry \cup {Unused}] /\ Used(new) = Used(tab) \cup {s} /\ s \notin Used(tab)
      /\ new[s] = e /\ \A r \in Used(tab) : new[r] = tab[r]
    BY <1>1 DEF Used
<1>3. g \in [Blocks -> Buffer] /\ g[e.data].live /\ \A b \in Blocks : b # e.data => g[b] = h[b]
    BY <1>1
<1>4. \A r \in Used(tab) : tab[r].data \in Blocks /\ tab[r].data # e.data
    BY OwnedFacts DEF Owned
<1>5. \A r \in Used(new) : g[new[r].data].live
    BY <1>2, <1>3, <1>4 DEF Owned
<1>6. \A r, q \in Used(new) : new[r].data = new[q].data => r = q
    BY <1>2, <1>4 DEF Owned
<1>7. ASSUME NEW b \in Blocks, g[b].live PROVE \E r \in Used(new) : new[r].data = b
    <2>1. CASE b = e.data
        BY <1>2, <2>1
    <2>2. CASE b # e.data
        <3>1. h[b].live
            BY <1>3, <1>7, <2>2
        <3>2. PICK r \in Used(tab) : tab[r].data = b
            BY <3>1 DEF Owned
        <3>. QED  BY <1>2, <3>2
    <2>. QED  BY <2>1, <2>2
<1>. QED  BY <1>2, <1>3, <1>5, <1>6, <1>7 DEF Owned

\* cache_lookup: an expired answer is freed.
LEMMA LookupOwned ==
    ASSUME Owned(table, heap), NEW k \in Names, CacheLookup(k)
    PROVE  Owned(table', heap')
<1>1. CASE Removes(table, k, now)
    <2>1. StopSlot(table, k) \in Used(table)
        BY <1>1, HoldsFacts DEF Removes
    <2>. QED  BY <1>1, <2>1, FreeOwned DEF CacheLookup, AfterLookup
<1>2. CASE ~Removes(table, k, now)
    BY <1>2 DEF CacheLookup, AfterLookup
<1>. QED  BY <1>1, <1>2

\* cache_store: the answer that is overwritten is freed first.
LEMMA StoreOwned ==
    ASSUME Owned(table, heap), now \in Int, NEW k, k \in Names, NEW an, an \in BOOLEAN,
           NEW ttl, ttl \in Nat, CacheStore(k, an, ttl)
    PROVE  Owned(table', heap')
<1>. DEFINE s    == StopSlot(table, k)
            free == IF Holds(table, k) THEN [table EXCEPT ![s] = Unused] ELSE table
            h    == IF Holds(table, k) THEN [heap EXCEPT ![table[s].data].live = FALSE] ELSE heap
<1>1. CASE Stops(table, k) = {}
    BY <1>1 DEF CacheStore, cacheVars
<1>2. CASE Stops(table, k) # {}
    <2>1. PICK b \in Blocks :
              /\ ~h[b].live
              /\ heap' = [h EXCEPT ![b] = [name |-> k, id |-> 0, an |-> an, live |-> TRUE]]
              /\ table' = [table EXCEPT ![s] = [key |-> k, data |-> b, expiry |-> now + ttl]]
        BY <1>2 DEF CacheStore, AfterStore
    <2>. DEFINE e == [key |-> k, data |-> b, expiry |-> now + ttl]
                v == [name |-> k, id |-> 0, an |-> an, live |-> TRUE]
    <2>2. e \in Entry /\ e.data = b /\ v \in Buffer /\ v.live
        BY DEF Entry, Buffer
    <2>. HIDE DEF e, v
    <2>3. s \in Slots
        BY <1>2, StopFacts
    <2>4. Owned(free, h) /\ free[s] = Unused /\ table' = [free EXCEPT ![s] = e]
        <3>0. table \in [Slots -> Entry \cup {Unused}]
            BY DEF Owned
        <3>1. CASE Holds(table, k)
            <4>1. s \in Used(table)
                BY <3>1, HoldsFacts
            <4>2. Owned(free, h)
                BY <3>1, <4>1, FreeOwned
            <4>. QED  BY <2>1, <2>3, <3>0, <3>1, <4>2 DEF e
        <3>2. CASE ~Holds(table, k)
            BY <1>2, <2>1, <3>2 DEF Holds, e
        <3>. QED  BY <3>1, <3>2
    <2>5. ~h[e.data].live /\ heap' = [h EXCEPT ![e.data] = v]
        BY <2>1, <2>2 DEF v
    <2>. HIDE DEF s, free, h
    <2>. QED  BY <2>2, <2>3, <2>4, <2>5, PutOwned
<1>. QED  BY <1>1, <1>2

\* The steps that look an answer up, store it, or write into its buffer.
LEMMA CachePreserves ==
    ASSUME IInv, NEW t \in Threads,
           \/ resolve_lookup(t) \/ second_lookup(t) \/ patch_id(t) \/ send_raw(t)
           \/ upstream_answer(t) \/ upstream_negative(t)
    PROVE  IInv'
<1>. USE AtStep, ProcessorAssumption
<1>1. now \in Int
    BY ReportAssumption DEF IInv, QP!IInv, QP!TypeOK
<1>2. ASSUME NEW k \in Names, Hit(table, k, now)
      PROVE  table[StopSlot(table, k)].data \in Blocks
    BY <1>2, HoldsFacts, OwnedFacts DEF Hit
<1>3. ASSUME NEW at \in {"cached", "upstream", "post", "second", "patch", "send"}, pc[t] \in Past \cap Unsent,
             NEW b \in Blocks \cup {NoBlock},
             pc' = [pc EXCEPT ![t] = at], raw' = [raw EXCEPT ![t] = b],
             UNCHANGED <<query, target, resp, conn, taken>>, UNCHANGED adVars, Owned(table', heap'),
             at \in {"cached", "upstream"} => target[t] \in Names,
             at \in {"cached", "patch", "send"} => b \in Blocks
      PROVE  IInv'
    <2>1. reports' = reports
        BY <1>3 DEF adVars
    <2>2. Types' /\ Alone(t) /\ pc'[t] = at /\ raw'[t] = b
        BY <1>3, <2>1, Labels DEF Types, Alone
    <2>3. Local(t)'
        BY <1>3, <2>1, <2>2 DEF Local, Past, Unsent, Sent
    <2>. QED  BY <1>3, <2>2, <2>3, Labels, QuietStep
<1>4. \A r : raw' = raw => raw' = [raw EXCEPT ![t] = raw[t]]
    BY DEF Types
<1>5. {"lookup", "upstream", "second", "patch", "send"} \subseteq Past \cap Unsent
    BY DEF Past, Unsent, Sent
<1>6. CASE resolve_lookup(t)
    <2>1. /\ pc[t] = "lookup" /\ target[t] \in Names /\ CacheLookup(target[t])
          /\ UNCHANGED <<query, target, resp, conn, taken>> /\ UNCHANGED adVars
        BY <1>6 DEF resolve_lookup, Local
    <2>2. Owned(table', heap')
        BY <2>1, LookupOwned
    <2>3. CASE Hit(table, target[t], now)
        <3>. DEFINE b == table[StopSlot(table, target[t])].data
        <3>1. b \in Blocks
            BY <1>2, <2>1, <2>3
        <3>2. pc' = [pc EXCEPT ![t] = "cached"] /\ raw' = [raw EXCEPT ![t] = b]
            BY <1>6, <2>3 DEF resolve_lookup, Goto
        <3>. HIDE DEF b
        <3>. QED  BY <1>3, <1>5, <2>1, <2>2, <3>1, <3>2
    <2>4. CASE ~Hit(table, target[t], now)
        <3>1. pc' = [pc EXCEPT ![t] = "upstream"] /\ raw' = [raw EXCEPT ![t] = raw[t]]
            BY <1>4, <1>6, <2>4 DEF resolve_lookup, Goto
        <3>. QED  BY <1>3, <1>5, <2>1, <2>2, <3>1
    <2>. QED  BY <2>3, <2>4
<1>7. CASE second_lookup(t)
    <2>. DEFINE k == query[t].name
    <2>1. /\ pc[t] = "second" /\ k \in Names /\ query[t].id \in Ids /\ CacheLookup(k)
          /\ UNCHANGED <<query, target, taken>> /\ UNCHANGED adVars
        BY <1>7 DEF second_lookup, Local
    <2>2. Owned(table', heap')
        BY <2>1, LookupOwned
    <2>3. CASE Hit(table, k, now)
        <3>. DEFINE b == table[StopSlot(table, k)].data
        <3>1. b \in Blocks
            BY <1>2, <2>1, <2>3
        <3>2. /\ pc' = [pc EXCEPT ![t] = "patch"] /\ raw' = [raw EXCEPT ![t] = b]
              /\ UNCHANGED <<resp, conn>>
            BY <1>7, <2>3 DEF second_lookup, Goto
        <3>. HIDE DEF b
        <3>. QED  BY <1>3, <1>5, <2>1, <2>2, <3>1, <3>2
    <2>4. CASE ~Hit(table, k, now)
        <3>. DEFINE r == [what |-> "servfail", id |-> query[t].id, name |-> "none"]
        <3>1. r \in Response
            BY <2>1 DEF Response
        <3>2. /\ resp' = [resp EXCEPT ![t] = Append(@, r)]
              /\ conn' = [conn EXCEPT ![t] = @ /\ Kind[t] # "doh"]
              /\ pc' = [pc EXCEPT ![t] = "done"] /\ raw' = raw
            BY <1>7, <2>4 DEF second_lookup, Servfail, Respond, Goto
        <3>3. taken' \in 0..MaxQueries
            BY <2>1 DEF Types
        <3>. HIDE DEF r
        <3>. QED  BY <1>5, <2>1, <2>2, <3>1, <3>2, <3>3, AnswerStep
    <2>. QED  BY <2>3, <2>4
<1>8. CASE patch_id(t)
    <2>1. /\ pc[t] = "patch" /\ raw[t] \in Blocks /\ query[t].id \in Ids
          /\ pc' = [pc EXCEPT ![t] = "send"] /\ raw' = [raw EXCEPT ![t] = raw[t]]
          /\ UNCHANGED <<query, target, resp, conn, table, taken>> /\ UNCHANGED adVars
          /\ heap' = [heap EXCEPT ![raw[t]].id = query[t].id]
        BY <1>4, <1>8 DEF patch_id, Goto, Local
    <2>2. Owned(table', heap')
        <3>1. heap' \in [Blocks -> Buffer] /\ \A b \in Blocks : heap'[b].live = heap[b].live
            <4>. DEFINE d == raw[t]  i == query[t].id
            <4>1. heap \in [Blocks -> Buffer] /\ heap' = [heap EXCEPT ![d] = [@ EXCEPT !.id = i]]
                BY <2>1 DEF Owned
            <4>2. d \in Blocks /\ i \in Ids
                BY <2>1
            <4>. HIDE DEF d, i
            <4>3. heap[d] \in Buffer
                BY <4>1, <4>2
            <4>. DEFINE v == [heap[d] EXCEPT !.id = i]
            <4>4. v \in Buffer
                BY <4>2, <4>3 DEF Buffer
            <4>5. v.live = heap[d].live
                BY <4>3 DEF Buffer
            <4>. HIDE DEF v
            <4>6. heap' = [heap EXCEPT ![d] = v]
                BY <4>1 DEF v
            <4>7. heap' \in [Blocks -> Buffer]
                BY <4>1, <4>4, <4>6
            <4>8. ASSUME NEW b \in Blocks PROVE heap'[b].live = heap[b].live
                <5>1. CASE b = d
                    BY <4>1, <4>2, <4>5, <4>6, <5>1
                <5>2. CASE b # d
                    <6>1. heap'[b] = heap[b]
                        BY <4>1, <4>6, <5>2
                    <6>. QED  BY <6>1
                <5>. QED  BY <5>1, <5>2
            <4>. QED  BY <4>7, <4>8
        <3>2. table' = table /\ \A s \in Used(table) : table[s].data \in Blocks
            BY <2>1, OwnedFacts
        <3>. QED  BY <3>1, <3>2 DEF Owned
    <2>. QED  BY <1>3, <1>5, <2>1, <2>2
<1>9. CASE send_raw(t)
    <2>. DEFINE r == [what |-> "raw", id |-> heap[raw[t]].id, name |-> heap[raw[t]].name]
    <2>1. pc[t] = "send" /\ raw[t] \in Blocks
        BY <1>9 DEF send_raw, Local
    <2>2. r \in Response
        BY <2>1 DEF Owned, Buffer, Response
    <2>3. /\ resp' = [resp EXCEPT ![t] = Append(@, r)]
          /\ conn' = [conn EXCEPT ![t] = @ /\ Kind[t] # "doh"]
          /\ pc' = [pc EXCEPT ![t] = "done"] /\ raw' = [raw EXCEPT ![t] = NoBlock]
          /\ UNCHANGED <<query, target>> /\ UNCHANGED adVars
        BY <1>9 DEF send_raw, Respond, Goto
    <2>4. taken' \in 0..MaxQueries /\ Owned(table', heap')
        BY <1>9 DEF send_raw, Types, cacheVars
    <2>. HIDE DEF r
    <2>. QED  BY <1>5, <2>1, <2>2, <2>3, <2>4, AnswerStep
<1>10. CASE upstream_answer(t) \/ upstream_negative(t)
    <2>1. /\ pc[t] = "upstream" /\ target[t] \in Names
          /\ UNCHANGED <<query, target, resp, conn, taken>> /\ UNCHANGED adVars
          /\ raw' = [raw EXCEPT ![t] = raw[t]]
        BY <1>4, <1>10 DEF upstream_answer, upstream_negative, Upstream, Local
    <2>2. Owned(table', heap')
        <3>1. CASE upstream_answer(t)
            <4>1. CacheStore(target[t], TRUE, 1)
                BY <3>1 DEF upstream_answer
            <4>. QED  BY <1>1, <2>1, <4>1, StoreOwned
        <3>2. CASE upstream_negative(t)
            <4>1. CacheStore(target[t], FALSE, 300)
                BY <3>2 DEF upstream_negative
            <4>2. FALSE \in BOOLEAN /\ 300 \in Nat
                OBVIOUS
            <4>3. Owned(table, heap)
                OBVIOUS
            <4>. QED  BY <1>1, <2>1, <4>1, <4>2, <4>3, StoreOwned, Zenon
        <3>. QED  BY <1>10, <3>1, <3>2
    <2>3. pc' = [pc EXCEPT ![t] = "post"] \/ pc' = [pc EXCEPT ![t] = "second"]
        BY <1>10 DEF upstream_answer, upstream_negative, Goto
    <2>. QED  BY <1>3, <1>5, <2>1, <2>2, <2>3
<1>. QED  BY <1>6, <1>7, <1>8, <1>9, <1>10

\* process_dns_query returns.
LEMMA ReturnPreserves ==
    ASSUME IInv, NEW t \in Threads, return(t)
    PROVE  IInv'
<1>. USE AtStep, ProcessorAssumption
<1>1. /\ pc[t] = "done" /\ pc' = [pc EXCEPT ![t] = "idle"] /\ query' = [query EXCEPT ![t] = NoQuery]
      /\ target' = [target EXCEPT ![t] = "none"] /\ resp' = [resp EXCEPT ![t] = << >>]
      /\ conn' = [conn EXCEPT ![t] = @ /\ Kind[t] # "tcp"]
      /\ UNCHANGED <<raw, taken>> /\ UNCHANGED adVars /\ reports' = reports /\ Owned(table', heap')
    BY DEF return, Goto, adVars, cacheVars
<1>2. << >> \in Seq(Response) /\ NoQuery.client = NoClient
    BY DEF NoQuery
<1>3. Types' /\ Alone(t) /\ pc'[t] = "idle" /\ query'[t] = NoQuery /\ resp'[t] = << >>
    BY <1>1, <1>2, Labels DEF Types, Alone
<1>4. Local(t)'
    BY <1>1, <1>2, <1>3 DEF Local, Unsent, Sent
<1>. QED  BY <1>1, <1>3, <1>4, Labels, QuietStep

-----------------------------------------------------------------------------
(* The quarantine check, and the report.                                   *)

\* A client that is let past the check has no full window that ends now or later:
\* the window would have left a ban, and a ban outlives its window.
LEMMA NotFull ==
    ASSUME IInv, NEW t \in Threads, NEW time \in (now - Lag)..now, ~Quarantined(t, time),
           NEW c \in Clients, c = query[t].client, NEW h \in 0..MaxTime, h >= now
    PROVE  Cardinality(Q!EventsIn(events, c, h - WINDOW, h)) < MAX_EVENTS
<1>. USE ReportAssumption
<1>. DEFINE seen == Q!EventsIn(events, c, h - WINDOW, h)
<1>1. QP!IInv /\ Reported /\ now \in 0..MaxTime /\ events \in Seq(Q!Event)
    BY DEF IInv, QP!IInv, QP!TypeOK, QP!Event, Q!Event
<1>2. Cardinality(seen) \in Nat
    BY <1>1, WindowFacts
<1>. SUFFICES ASSUME Cardinality(seen) >= MAX_EVENTS PROVE FALSE
    BY <1>2
<1>3. c # Localhost
    <2>. SUFFICES ASSUME c = Localhost PROVE FALSE
        OBVIOUS
    <2>1. seen = {}
        BY <1>1 DEF Reported, Q!EventsIn
    <2>. QED  BY <2>1, FS_EmptySet
<1>4. Accountable(t)
    BY <1>3, ProcessorAssumption DEF Accountable
<1>5. QP!OverThreshold(events, c, h)
    <2>1. QP!EventsIn(events, c, h - WINDOW, h) = seen
        BY DEF QP!EventsIn, Q!EventsIn
    <2>. QED  BY <2>1, SameCardinality DEF QP!OverThreshold
<1>6. PICK i \in DOMAIN quarantined : /\ quarantined[i].ip = c
                                      /\ (h - WINDOW) + BAN < quarantined[i].banned_until
    BY <1>1, <1>5 DEF QP!IInv, QP!EveryWindowBanned, Reported
<1>7. quarantined[i].banned_until \in Int
    <2>1. quarantined[i] \in QP!Entry
        BY <1>1 DEF QP!IInv, QP!TypeOK
    <2>. QED  BY <2>1 DEF QP!Entry
<1>8. time < quarantined[i].banned_until
    BY <1>1, <1>6, <1>7
<1>. QED  BY <1>4, <1>6, <1>8 DEF Quarantined, Q!BannedAt

\* ad_is_quarantined: the sinkhole for a client under a ban, the policy for the others.
LEMMA CheckPreserves ==
    ASSUME IInv, NEW t \in Threads, quarantine_check(t)
    PROVE  IInv'
<1>. USE AtStep
<1>1. PICK time \in (now - Lag)..now :
          \/ Quarantined(t, time) /\ Sinkhole(t) /\ Goto(t, "done")
          \/ ~Quarantined(t, time) /\ Goto(t, "policy") /\ UNCHANGED <<resp, conn>>
    BY DEF quarantine_check
<1>2. /\ pc[t] = "quarantine" /\ query[t] \in Query /\ query[t].id \in Ids /\ query[t].name \in Names
      /\ UNCHANGED <<query, target, raw, taken>> /\ UNCHANGED adVars /\ Owned(table', heap')
      /\ taken' \in 0..MaxQueries
    BY DEF quarantine_check, Local, cacheVars, Types
<1>3. CASE Sinkhole(t) /\ Goto(t, "done")
    <2>. DEFINE r == [what |-> "sinkhole", id |-> query[t].id, name |-> query[t].name]
    <2>1. r \in Response
        BY <1>2 DEF Response
    <2>2. /\ resp' = [resp EXCEPT ![t] = Append(@, r)]
          /\ conn' = [conn EXCEPT ![t] = @ /\ Kind[t] # "doh"]
          /\ pc' = [pc EXCEPT ![t] = "done"]
        BY <1>3 DEF Sinkhole, Respond, Goto
    <2>. HIDE DEF r
    <2>3. pc[t] \in Unsent
        BY <1>2 DEF Unsent
    <2>. QED  BY <1>2, <2>1, <2>2, <2>3, AnswerStep
<1>4. CASE ~Quarantined(t, time) /\ Goto(t, "policy") /\ UNCHANGED <<resp, conn>>
    <2>1. /\ pc' = [pc EXCEPT ![t] = "policy"] /\ UNCHANGED <<resp, conn>>
          /\ now' = now /\ events' = events /\ pardoned' = pardoned /\ reports' = reports
        BY <1>2, <1>4 DEF Goto, adVars
    <2>2. Types' /\ Alone(t) /\ pc'[t] = "policy"
        BY <1>2, <2>1, Labels DEF Types, Alone
    <2>3. Local(t)'
        BY <1>2, <2>1, <2>2 DEF Local, Unsent, Sent
    <2>4. QP!IInv /\ Locals /\ Reported /\ Overshoot
        BY DEF IInv
    <2>5. QP!IInv' /\ Locals'
        BY <1>2, <2>2, <2>3, <2>4, QuarantineSteps, MoveStep
    <2>6. now' >= now
        BY <2>1, <2>4, ReportAssumption DEF QP!IInv, QP!TypeOK
    <2>7. ASSUME NEW c \in Clients
          PROVE  \/ Late(c)' \subseteq Late(c)
                 \/ \A h \in 0..MaxTime :
                       h >= now => Cardinality(Q!EventsIn(events, c, h - WINDOW, h)) < MAX_EVENTS
        <3>1. CASE query[t].client = c
            BY <1>4, <3>1, NotFull
        <3>2. CASE query[t].client # c
            <4>1. Reporters \subseteq Threads
                BY DEF Reporters
            <4>. QED  BY <1>2, <2>2, <3>2, <4>1 DEF Late, Alone
        <3>. QED  BY <3>1, <3>2
    <2>8. Overshoot'
        BY <2>1, <2>4, <2>5, <2>6, <2>7, OvershootStep
    <2>9. Reported' /\ Owned(table, heap)'
        BY <1>2, <2>1, <2>4 DEF Reported, Owned, Used, Slots
    <2>. QED  BY <2>2, <2>5, <2>8, <2>9 DEF IInv
<1>. QED  BY <1>1, <1>3, <1>4

\* ad_report_block up to the lock: the report is timed.
LEMMA TimePreserves ==
    ASSUME IInv, NEW t \in Threads, report_time(t)
    PROVE  IInv'
<1>. USE AtStep
<1>. DEFINE c == query[t].client
            e == [client_ip |-> c, timestamp |-> now]
<1>1. /\ pc[t] = "report" /\ Accountable(t) /\ query[t] \in Query /\ c \in Clients
      /\ Q!ad_report_block_time(t, c)
      /\ pc' = [pc EXCEPT ![t] = "record"] /\ UNCHANGED <<query, target, raw, resp, conn, taken>>
      /\ Owned(table', heap')
    BY DEF report_time, Local, Accountable, Goto, cacheVars
<1>2. /\ reports' = [reports EXCEPT ![t] = e]
      /\ now' = now /\ events' = events /\ pardoned' = pardoned
    BY <1>1 DEF Q!ad_report_block_time
<1>3. QP!IInv /\ Locals /\ Reported /\ Overshoot
    BY DEF IInv
<1>4. /\ DOMAIN reports = Threads /\ e \in Q!Event /\ e # NoReport
      /\ e.client_ip = c /\ now \in 0..MaxTime
    BY <1>1, <1>3, ReportAssumption DEF QP!IInv, QP!TypeOK, Q!Event
<1>. HIDE DEF e
<1>5. QP!IInv'
    BY <1>1, <1>3, QuarantineSteps
<1>6. Types' /\ Alone(t) /\ pc'[t] = "record" /\ reports'[t] = e
    BY <1>1, <1>2, <1>4, Labels DEF Types, Alone
<1>7. Local(t)'
    BY <1>1, <1>4, <1>6 DEF Local, Accountable, Unsent, Sent
<1>8. Locals' /\ \A d \in Clients : Late(d)' \subseteq Late(d)
    BY <1>1, <1>3, <1>6, <1>7, Labels, MoveStep
<1>9. now' >= now
    BY <1>2, <1>4, ReportAssumption
<1>10. Overshoot'
    BY <1>2, <1>3, <1>5, <1>8, <1>9, OvershootStep
<1>11. Reported' /\ Owned(table, heap)'
    BY <1>1, <1>2, <1>3 DEF Reported, Owned, Used, Slots
<1>. QED  BY <1>5, <1>6, <1>8, <1>10, <1>11 DEF IInv

\* A recorded event uses up the thread that reported it: it is no longer past the check.
LEMMA OvershootRecord ==
    ASSUME Overshoot, now \in 0..MaxTime, now' = now, NEW t \in Reporters, NEW e \in Q!Event,
           events \in Seq(Q!Event), events' = Append(events, e), t \in Late(e.client_ip),
           \A d : Late(d)' = Late(d) \ {t}
    PROVE  Overshoot'
<1>. USE ReportAssumption
<1>. DEFINE Win(log, c, h) == Q!EventsIn(log, c, h - WINDOW, h)
            n == Len(events) + 1
<1>. SUFFICES ASSUME NEW c \in Clients, NEW h \in 0..MaxTime, h >= now,
                     Cardinality(Win(events', c, h)) >= MAX_EVENTS
              PROVE  Cardinality(Win(events', c, h)) + Cardinality(Late(c) \ {t})
                         <= MAX_EVENTS + Cardinality(Reporters) - 1
    BY DEF Overshoot, Reporters, Q!EventsIn
<1>. DEFINE old == Win(events, c, h)
            new == Win(events', c, h)
<1>1. /\ n \in Nat /\ events' \in Seq(Q!Event) /\ DOMAIN events' = 1..n /\ events'[n] = e
      /\ DOMAIN events = 1..Len(events)
      /\ \A i \in 1..Len(events) : events'[i] = events[i]
    OBVIOUS
<1>2. /\ Cardinality(old) \in Nat /\ IsFiniteSet(old) /\ old \subseteq 1..Len(events)
      /\ Cardinality(new) \in Nat
    BY <1>1, WindowFacts
<1>3. /\ n \notin old /\ (n \notin new => new = old)
      /\ (n \in new => new = old \cup {n} /\ e.client_ip = c)
    <2>1. n \notin old
        BY <1>1, <1>2
    <2>2. \A i \in 1..Len(events) : i \in new <=> i \in old
        BY <1>1 DEF Q!EventsIn
    <2>3. new \subseteq 1..n /\ (n \in new => e.client_ip = c)
        BY <1>1 DEF Q!EventsIn
    <2>4. 1..n = (1..Len(events)) \cup {n}
        BY <1>1
    <2>. HIDE DEF old, new, n
    <2>. QED  BY <1>2, <2>1, <2>2, <2>3, <2>4
<1>4. Late(c) \subseteq Reporters /\ Late(c) \ {t} \subseteq Late(c)
    BY DEF Late
<1>5. /\ IsFiniteSet(Late(c)) /\ IsFiniteSet(Reporters)
      /\ Cardinality(Late(c)) \in Nat /\ Cardinality(Late(c) \ {t}) \in Nat
      /\ Cardinality(Late(c) \ {t}) <= Cardinality(Late(c)) /\ Cardinality(Reporters) \in Nat
    BY <1>4, LateFacts
<1>6. Cardinality(Late(c) \ {t}) <= Cardinality(Reporters) - 1
    <2>1. Late(c) \ {t} \subseteq Reporters \ {t}
        BY <1>4
    <2>2. IsFiniteSet(Reporters \ {t}) /\ Cardinality(Reporters \ {t}) = Cardinality(Reporters) - 1
        BY <1>5, FS_RemoveElement
    <2>. QED  BY <2>1, <2>2, FS_Subset
<1>7. Cardinality(old) >= MAX_EVENTS =>
          Cardinality(old) + Cardinality(Late(c)) <= MAX_EVENTS + Cardinality(Reporters) - 1
    BY DEF Overshoot
<1>. HIDE DEF old, new, n
<1>8. CASE n \notin new
    <2>1. new = old /\ Cardinality(old) >= MAX_EVENTS
        BY <1>3, <1>8 DEF new
    <2>2. Cardinality(new) + Cardinality(Late(c) \ {t}) <= MAX_EVENTS + Cardinality(Reporters) - 1
        BY <1>2, <1>5, <1>7, <2>1
    <2>. QED  BY <2>2 DEF new
<1>9. CASE n \in new
    <2>1. Cardinality(new) = Cardinality(old) + 1
        BY <1>2, <1>3, <1>9, FS_AddElement
    <2>2. Cardinality(Late(c) \ {t}) = Cardinality(Late(c)) - 1
        <3>1. t \in Late(c)
            BY <1>3, <1>9
        <3>. QED  BY <1>5, <3>1, FS_RemoveElement
    <2>3. Cardinality(new) + Cardinality(Late(c) \ {t}) <= MAX_EVENTS + Cardinality(Reporters) - 1
        BY <1>2, <1>5, <1>6, <1>7, <2>1, <2>2, SMTT(30)
    <2>. QED  BY <2>3 DEF new
<1>. QED  BY <1>8, <1>9

\* ad_report_block under the lock: the event is recorded, and the client may be banned.
LEMMA RecordPreserves ==
    ASSUME IInv, NEW t \in Threads, report_record(t)
    PROVE  IInv'
<1>. USE AtStep
<1>. DEFINE e == reports[t]
<1>1. /\ pc[t] = "record" /\ query[t] \in Query /\ Q!ad_report_block(t)
      /\ pc' = [pc EXCEPT ![t] = "done"] /\ UNCHANGED <<query, target, raw, resp, conn, taken>>
      /\ Owned(table', heap')
    BY DEF report_record, Local, Goto, cacheVars
<1>2. /\ e # NoReport /\ reports' = [reports EXCEPT ![t] = NoReport]
      /\ events' = Append(events, e) /\ now' = now /\ pardoned' = pardoned
    BY <1>1 DEF Q!ad_report_block
<1>3. QP!IInv /\ Locals /\ Reported /\ Overshoot
    BY DEF IInv
<1>4. /\ reports \in [Threads -> Q!Event \cup {NoReport}] /\ now \in 0..MaxTime
      /\ events \in Seq(Q!Event) /\ e \in Q!Event
    BY <1>2, <1>3 DEF QP!IInv, QP!TypeOK, QP!Event, Q!Event
<1>5. /\ e.client_ip = query[t].client /\ Accountable(t) /\ e.client_ip # Localhost
      /\ Kind[t] # "tcp"
    BY <1>1 DEF Local, Accountable
<1>6. t \in Reporters /\ t \in Late(e.client_ip)
    BY <1>1, <1>5, Labels DEF Reporters, Late
<1>. HIDE DEF e
<1>7. QP!IInv'
    BY <1>1, <1>3, QuarantineSteps
<1>8. Types' /\ Alone(t) /\ pc'[t] = "done" /\ reports'[t] = NoReport
    BY <1>1, <1>2, <1>4, Labels DEF Types, Alone
<1>9. Local(t)'
    <2>1. Len(resp[t]) = 1 /\ resp[t] # << >>
        <3>1. Len(resp[t]) = 1
            BY <1>1 DEF Local, Sent
        <3>2. Len(<< >>) = 0 /\ 0 # 1
            OBVIOUS
        <3>3. resp[t] # << >>
            <4>. SUFFICES ASSUME resp[t] = << >> PROVE FALSE
                OBVIOUS
            <4>. QED  BY <3>1, <3>2, Zenon
        <3>. QED  BY <3>1, <3>3
    <2>. QED  BY <1>1, <1>5, <1>8, <2>1 DEF Local, Unsent, Sent
<1>10. Locals' /\ \A d : Late(d)' = Late(d) \ {t}
    BY <1>3, <1>8, <1>9, Labels, MoveStep
<1>11. Overshoot'
    BY <1>2, <1>3, <1>4, <1>6, <1>10, OvershootRecord
<1>12. Reported'
    BY <1>2, <1>3, <1>4, <1>5 DEF Reported
<1>13. Owned(table, heap)'
    BY <1>1 DEF Owned, Used, Slots
<1>. QED  BY <1>7, <1>8, <1>10, <1>11, <1>12, <1>13 DEF IInv

\* A second passes.
LEMMA TickPreserves ==
    ASSUME IInv, Tick
    PROVE  IInv'
<1>1. QP!IInv /\ Locals /\ Reported /\ Overshoot /\ Types /\ Owned(table, heap)
    BY DEF IInv
<1>2. /\ Q!Tick /\ UNCHANGED <<pc, query, target, raw, resp, conn, taken>>
      /\ table' = table /\ heap' = heap
      /\ now' = now + 1 /\ events' = events /\ reports' = reports /\ pardoned' = pardoned
    BY DEF Tick, Q!Tick, cacheVars
<1>3. QP!IInv'
    BY <1>1, <1>2, QuarantineSteps
<1>4. now' >= now
    BY <1>1, <1>2, ReportAssumption DEF QP!IInv, QP!TypeOK
<1>5. \A c \in Clients : Late(c)' \subseteq Late(c)
    BY <1>2 DEF Late, Reporters
<1>6. Overshoot'
    BY <1>1, <1>2, <1>3, <1>4, <1>5, OvershootStep
<1>7. Types' /\ Locals' /\ Reported' /\ Owned(table, heap)'
    BY <1>1, <1>2 DEF Types, Locals, Local, Accountable, Reported, Owned, Used, Slots
<1>. QED  BY <1>3, <1>6, <1>7 DEF IInv

\* The server starts: no thread has a query, the cache and the log are empty.
LEMMA InitIInv == Init => IInv
<1>. SUFFICES ASSUME Init PROVE IInv
    OBVIOUS
<1>. USE ProcessorAssumption, ReportAssumption
<1>1. Q!Init /\ now = 0 /\ events = << >> /\ reports = [t \in Threads |-> NoReport] /\ pardoned = {}
    BY DEF Init, Q!Init
<1>2. QP!IInv
    <2>1. QP!Init
        BY <1>1 DEF Q!Init, QP!Init
    <2>. QED  BY <2>1, Assumptions, QP!InitIInv
<1>3. Types
    BY DEF Init, Types, PCs, NoQuery
<1>4. Locals
    BY <1>1 DEF Init, Locals, Local, NoQuery, Unsent, Sent
<1>5. Owned(table, heap)
    <2>1. table = [s \in Slots |-> Unused] /\ Used(table) = {}
        BY DEF Init, EmptyTable, Used
    <2>2. heap \in [Blocks -> Buffer] /\ \A b \in Blocks : ~heap[b].live
        BY DEF Init, Buffer
    <2>. QED  BY <2>1, <2>2 DEF Owned
<1>6. Reported
    BY <1>1 DEF Reported
<1>7. Overshoot
    <2>1. \A c, l, h : Q!EventsIn(events, c, l, h) = {}
        BY <1>1 DEF Q!EventsIn
    <2>. QED  BY <2>1, FS_EmptySet DEF Overshoot
<1>. QED  BY <1>2, <1>3, <1>4, <1>5, <1>6, <1>7 DEF IInv

\* Every step preserves the invariant.
LEMMA NextIInv == IInv /\ [Next]_vars => IInv'
<1>. SUFFICES ASSUME IInv, [Next]_vars PROVE IInv'
    OBVIOUS
<1>1. ASSUME NEW t \in Threads, accept(t) \/ reject(t) \/ parse(t) \/ parse_error(t) PROVE IInv'
    BY <1>1, ArrivePreserves
<1>2. ASSUME NEW t \in Threads, process_dns_query(t) PROVE IInv'
    BY <1>2, GoOnPreserves, BlockPreserves, ResolvePreserves, CachePreserves, ReturnPreserves,
       CheckPreserves, TimePreserves, RecordPreserves DEF process_dns_query
<1>3. CASE Tick
    BY <1>3, TickPreserves
<1>4. CASE UNCHANGED vars
    <2>1. UNCHANGED <<pc, query, target, raw, resp, conn, table, heap, taken>> /\ UNCHANGED adVars
        BY <1>4 DEF vars, cacheVars
    <2>2. UNCHANGED <<now, events, reports, pardoned>>
        BY <2>1 DEF adVars
    <2>3. QP!IInv /\ QP!IInv'
        BY <2>1, QuarantineSteps DEF IInv
    <2>4. Overshoot'
        BY <2>1, <2>2 DEF IInv, Overshoot, Late, Reporters, Q!EventsIn
    <2>. QED  BY <2>1, <2>2, <2>3, <2>4
              DEF IInv, Types, Locals, Local, Accountable, Reported, Owned, Used, Slots
<1>. QED  BY <1>1, <1>2, <1>3, <1>4 DEF Next

-----------------------------------------------------------------------------
\* The inductive invariant of the threads, the cache and the quarantine holds always.
THEOREM Invariance == Spec => []IInv
BY InitIInv, NextIInv, PTL DEF Spec

\* Whatever path process_dns_query takes and however its threads interleave, it answers
\* once, or the query came from a client that the rate limit counts, and was dropped.
THEOREM AnsweredOnceHolds == Spec => []AnsweredOnce
<1>1. IInv => AnsweredOnce
    <2>. SUFFICES ASSUME IInv, NEW t \in Threads
                  PROVE  /\ Len(resp[t]) <= 1
                         /\ pc[t] = "done" /\ resp[t] = << >> => Accountable(t)
        BY DEF AnsweredOnce
    <2>1. Local(t) /\ pc[t] \in PCs
        BY AtStep
    <2>2. pc[t] \in Unsent \cup {"idle", "done"} \cup Sent
        BY <2>1 DEF PCs, Unsent, Sent
    <2>3. Len(resp[t]) <= 1
        <3>1. pc[t] \in Unsent \cup {"idle"} => Len(resp[t]) <= 1
            BY <2>1 DEF Local
        <3>2. pc[t] \in Sent => Len(resp[t]) <= 1
            <4>1. pc[t] \in Sent => Len(resp[t]) = 1
                BY <2>1 DEF Local
            <4>2. 1 <= 1
                OBVIOUS
            <4>. QED  BY <4>1, <4>2, Zenon
        <3>3. pc[t] = "done" => Len(resp[t]) <= 1
            BY <2>1 DEF Local
        <3>. QED  BY <2>2, <3>1, <3>2, <3>3
    <2>4. pc[t] = "done" /\ resp[t] = << >> => Accountable(t)
        BY <2>1 DEF Local
    <2>. QED  BY <2>3, <2>4
<1>. QED  BY <1>1, Invariance, PTL

\* Lookups that expire entries and stores that overwrite them, by any number of threads,
\* free each answer once and lose none.
THEOREM BuffersOwnedHolds == Spec => []BuffersOwned
<1>1. IInv => BuffersOwned
    <2>. SUFFICES ASSUME IInv PROVE BuffersOwned
        OBVIOUS
    <2>1. Types /\ Owned(table, heap) /\ QP!IInv
        BY DEF IInv
    <2>2. Q!TypeOK
        BY <2>1 DEF QP!IInv, QP!TypeOK, Q!TypeOK, QP!Event, Q!Event, QP!Entry, Q!Entry
    <2>3. \A t \in Threads : \A i \in DOMAIN resp[t] : resp[t][i] \in Response
        <3>. SUFFICES ASSUME NEW t \in Threads, NEW i \in DOMAIN resp[t] PROVE resp[t][i] \in Response
            OBVIOUS
        <3>1. resp[t] \in Seq(Response)
            BY <2>1 DEF Types
        <3>. QED  BY <3>1
    <2>4. \A s \in Used(table) : table[s] \in Entry
        BY <2>1, OwnedFacts
    <2>5. TypeOK
        BY <2>1, <2>2, <2>3, <2>4 DEF TypeOK, Types, Owned
    <2>. QED  BY <2>1, <2>5 DEF BuffersOwned, Owned
<1>. QED  BY <1>1, Invariance, PTL

\* A client collects at most MAX_EVENTS block events in a window, plus one for each other
\* thread that was past ad_is_quarantined before the ban.
THEOREM OvershootBoundHolds == Spec => []OvershootBound
<1>1. IInv => OvershootBound
    <2>. SUFFICES ASSUME IInv, NEW c \in Clients
                  PROVE  Cardinality(Q!EventsIn(events, c, now - WINDOW, now))
                             <= MAX_EVENTS + Cardinality(Reporters) - 1
        BY DEF OvershootBound
    <2>. DEFINE e == Cardinality(Q!EventsIn(events, c, now - WINDOW, now))
    <2>1. Overshoot /\ now \in 0..MaxTime /\ events \in Seq(Q!Event)
        BY DEF IInv, QP!IInv, QP!TypeOK, QP!Event, Q!Event
    <2>2. e \in Nat
        BY <2>1, WindowFacts
    <2>3. Late(c) \subseteq Reporters
        BY DEF Late
    <2>4. Cardinality(Late(c)) \in Nat /\ Cardinality(Reporters) \in Nat
        BY <2>3, LateFacts
    <2>5. e >= MAX_EVENTS => e + Cardinality(Late(c)) <= MAX_EVENTS + Cardinality(Reporters) - 1
        BY <2>1, ReportAssumption DEF Overshoot
    <2>. HIDE DEF e
    <2>6. e <= MAX_EVENTS + Cardinality(Reporters) - 1
        BY <2>2, <2>4, <2>5, ReportAssumption
    <2>. QED  BY <2>6 DEF e
<1>. QED  BY <1>1, Invariance, PTL
=============================================================================
