-------------------------- MODULE QuarantineProofs --------------------------
(***************************************************************************)
(* TLAPS proofs about Quarantine, for every set of threads and clients and *)
(* every threshold, window, ban and waiting time.                          *)
(***************************************************************************)
EXTENDS Quarantine, FiniteSetTheorems, TLAPS

\* Counting a larger part of the log never counts less.
LEMMA CountMonotone ==
    ASSUME NEW n \in Nat, NEW S, NEW T, S \subseteq T, T \subseteq 1..n
    PROVE  /\ Cardinality(S) \in Nat /\ Cardinality(T) \in Nat
           /\ Cardinality(S) <= Cardinality(T)
<1>1. IsFiniteSet(1..n)
    BY FS_Interval
<1>2. IsFiniteSet(T)
    BY <1>1, FS_Subset
<1>3. IsFiniteSet(S) /\ Cardinality(S) <= Cardinality(T)
    BY <1>2, FS_Subset
<1>. QED  BY <1>2, <1>3, FS_CardinalityType

\* With no event and no ban the invariant holds.
LEMMA InitIInv == Init => IInv
<1>. SUFFICES ASSUME Init PROVE IInv
    OBVIOUS
<1>. USE QuarantineAssumption
<1>1. TypeOK /\ TimedInThePast /\ BanJustified
    BY DEF Init, TypeOK, TimedInThePast, BanJustified
<1>2. EveryWindowBanned
    <2>1. ASSUME NEW c, NEW l, NEW h PROVE EventsIn(events, c, l, h) = {}
        BY DEF Init, EventsIn
    <2>2. Cardinality({}) = 0
        BY FS_EmptySet
    <2>. QED  BY <2>1, <2>2 DEF EveryWindowBanned, OverThreshold
<1>. QED  BY <1>1, <1>2 DEF IInv

\* A report under the lock: the log grows by one event and, over the threshold,
\* the bans by one entry.
LEMMA ReportPreserves ==
    ASSUME IInv, NEW th \in Threads, ad_report_block(th)
    PROVE  IInv'
<1>. USE QuarantineAssumption
<1>. DEFINE ev  == reports[th]
            log == Append(events, ev)
            n   == Len(events) + 1
            ban == [ip |-> ev.client_ip, banned_until |-> ev.timestamp + BAN]
            hit == Cardinality(Counted(log, ev)) >= MAX_EVENTS
<1>1. /\ ev \in Event /\ ev.client_ip \in Clients /\ ev.timestamp \in 0..MaxTime
      /\ events \in Seq(Event) /\ quarantined \in Seq(Entry)
    BY DEF IInv, TypeOK, ad_report_block, Event
<1>2. /\ events' = log
      /\ quarantined' = IF hit THEN Append(quarantined, ban) ELSE quarantined
      /\ reports' = [reports EXCEPT ![th] = NoReport]
      /\ now' = now /\ forward' = forward /\ pardoned' = pardoned
    BY DEF ad_report_block
<1>3. /\ Len(events) \in Nat /\ n \in Nat /\ DOMAIN events = 1..Len(events)
      /\ log \in Seq(Event) /\ DOMAIN log = 1..n /\ log[n] = ev
      /\ \A i \in 1..Len(events) : log[i] = events[i] /\ events[i] \in Event
    BY <1>1
<1>4. /\ ban \in Entry
      /\ Append(quarantined, ban) \in Seq(Entry)
      /\ DOMAIN Append(quarantined, ban) = 1..(Len(quarantined) + 1)
      /\ Append(quarantined, ban)[Len(quarantined) + 1] = ban
      /\ DOMAIN quarantined = 1..Len(quarantined) /\ Len(quarantined) \in Nat
      /\ \A i \in 1..Len(quarantined) : /\ Append(quarantined, ban)[i] = quarantined[i]
                                        /\ quarantined[i] \in Entry
    <2>1. ban \in Entry
        BY <1>1 DEF Entry
    <2>. QED  BY <1>1, <2>1
<1>. HIDE DEF ev, log, n, ban, hit
<1>5. TypeOK'
    BY <1>2, <1>3, <1>4 DEF IInv, TypeOK
<1>6. TimedInThePast'
    <2>. SUFFICES ASSUME forward PROVE TimedInThePast'
        BY <1>2 DEF TimedInThePast
    <2>1. ev.timestamp <= now
        BY <1>1 DEF IInv, TimedInThePast, ad_report_block, ev
    <2>2. \A i \in DOMAIN events' : events'[i].timestamp <= now
        BY <1>2, <1>3, <2>1 DEF IInv, TimedInThePast, n
    <2>3. \A t \in Threads : reports'[t] # NoReport => t # th /\ reports'[t] = reports[t]
        BY <1>2 DEF IInv, TypeOK
    <2>. QED  BY <1>2, <2>2, <2>3 DEF IInv, TimedInThePast
\* The log only grows, so what it held in a span it still holds.
<1>7. ASSUME NEW c, NEW l, NEW h
      PROVE  /\ EventsIn(events, c, l, h) \subseteq EventsIn(log, c, l, h)
             /\ EventsIn(log, c, l, h) \subseteq EventsIn(events, c, l, h) \cup {n}
             /\ EventsIn(log, c, l, h) \subseteq 1..n
    BY <1>3 DEF EventsIn, n
<1>8. BanJustified'
    <2>. DEFINE Behind(l, q) == EventsIn(l, q.ip, (q.banned_until - BAN) - WINDOW,
                                         (q.banned_until - BAN) + Lag)
    <2>. SUFFICES ASSUME forward, NEW i \in DOMAIN quarantined'
                  PROVE  Cardinality(Behind(log, quarantined'[i])) >= MAX_EVENTS
        BY <1>2 DEF BanJustified, Backed
    <2>1. CASE hit /\ i = Len(quarantined) + 1
        <3>1. quarantined'[i] = ban
            BY <1>2, <1>4, <2>1
        <3>2. ban.ip = ev.client_ip /\ ban.banned_until - BAN = ev.timestamp
            BY <1>1 DEF ban
        <3>3. now <= ev.timestamp + Lag
            BY <1>1 DEF IInv, TimedInThePast, ad_report_block, ev
        <3>4. ASSUME NEW k \in 1..n
              PROVE  log[k].timestamp <= ev.timestamp + Lag /\ log[k].timestamp \in Int
            <4>1. log[k].timestamp <= now
                BY <1>2, <1>3, <1>6 DEF TimedInThePast
            <4>2. log[k] \in Event
                BY <1>3
            <4>3. log[k].timestamp \in Int /\ now \in Int
                BY <4>2 DEF IInv, TypeOK, Event
            <4>. QED  BY <1>1, <3>3, <4>1, <4>3
        <3>5. Counted(log, ev) \subseteq Behind(log, ban)
            BY <1>1, <1>3, <3>2, <3>4, SMTT(30) DEF Counted, EventsIn
        <3>6. Behind(log, ban) \subseteq 1..n
            BY <1>7
        <3>. HIDE DEF Behind
        <3>7. /\ Cardinality(Counted(log, ev)) \in Nat /\ Cardinality(Behind(log, ban)) \in Nat
              /\ Cardinality(Counted(log, ev)) <= Cardinality(Behind(log, ban))
            BY <1>3, <3>5, <3>6, CountMonotone
        <3>. QED  BY <2>1, <3>1, <3>7 DEF hit
    <2>2. CASE ~(hit /\ i = Len(quarantined) + 1)
        <3>. DEFINE q == quarantined[i]
        <3>1. i \in DOMAIN quarantined /\ quarantined'[i] = q
            BY <1>2, <1>4, <2>2
        <3>2. Cardinality(Behind(events, q)) >= MAX_EVENTS
            BY <3>1 DEF IInv, BanJustified, Backed
        <3>3. Behind(events, q) \subseteq Behind(log, q) /\ Behind(log, q) \subseteq 1..n
            BY <1>7
        <3>. HIDE DEF Behind, q
        <3>4. /\ Cardinality(Behind(events, q)) \in Nat /\ Cardinality(Behind(log, q)) \in Nat
              /\ Cardinality(Behind(events, q)) <= Cardinality(Behind(log, q))
            BY <1>3, <3>3, CountMonotone
        <3>. QED  BY <3>1, <3>2, <3>4
    <2>. QED  BY <2>1, <2>2
<1>9. EveryWindowBanned'
    <2>. SUFFICES ASSUME NEW c \in Clients \ pardoned, NEW t \in 0..MaxTime,
                         OverThreshold(log, c, t)
                  PROVE  \E i \in DOMAIN quarantined' :
                            /\ quarantined'[i].ip = c
                            /\ (t - WINDOW) + BAN < quarantined'[i].banned_until
        <3>1. events' = log /\ pardoned' = pardoned
            BY <1>2
        <3>. QED  BY <3>1 DEF EveryWindowBanned
    <2>. DEFINE old == EventsIn(events, c, t - WINDOW, t)
                new == EventsIn(log, c, t - WINDOW, t)
    <2>1. CASE n \in new
        \* The new event is in the window, so it counts all the others in it.
        <3>1. /\ ev.client_ip = c /\ t - WINDOW < ev.timestamp /\ ev.timestamp <= t
            BY <1>3, <2>1 DEF EventsIn
        <3>2. new \subseteq Counted(log, ev)
            <4>1. ASSUME NEW k \in 1..n PROVE log[k].timestamp \in Int
                BY <1>1, <1>3, SMTT(30) DEF Event, n
            <4>. QED  BY <1>1, <1>3, <3>1, <4>1, SMTT(30) DEF EventsIn, Counted
        <3>3. Counted(log, ev) \subseteq 1..n
            BY <1>3 DEF Counted
        <3>. HIDE DEF new
        <3>4. /\ Cardinality(new) \in Nat /\ Cardinality(Counted(log, ev)) \in Nat
              /\ Cardinality(new) <= Cardinality(Counted(log, ev))
            BY <1>3, <3>2, <3>3, CountMonotone
        <3>5. hit
            BY <3>4 DEF hit, new, OverThreshold
        <3>6. ban.ip = c /\ (t - WINDOW) + BAN < ban.banned_until
            BY <1>1, <3>1 DEF ban
        <3>. QED  BY <1>2, <1>4, <3>5, <3>6, SMTT(30)
    <2>2. CASE n \notin new
        <3>1. new = old
            BY <1>7, <2>2
        <3>2. PICK i \in DOMAIN quarantined : /\ quarantined[i].ip = c
                                              /\ (t - WINDOW) + BAN < quarantined[i].banned_until
            BY <3>1 DEF IInv, EveryWindowBanned, OverThreshold
        <3>. QED  BY <1>2, <1>4, <3>2
    <2>. QED  BY <2>1, <2>2
<1>. QED  BY <1>5, <1>6, <1>8, <1>9 DEF IInv

\* A report that is being timed: it is timed now.
LEMMA TimePreserves ==
    ASSUME IInv, NEW th \in Threads, NEW c \in Clients, ad_report_block_time(th, c)
    PROVE  IInv'
<1>. USE QuarantineAssumption
<1>1. TypeOK'
    BY DEF IInv, TypeOK, Event, ad_report_block_time
<1>2. TimedInThePast'
    BY DEF IInv, TypeOK, TimedInThePast, ad_report_block_time
<1>3. EveryWindowBanned' /\ BanJustified'
    BY DEF IInv, EveryWindowBanned, BanJustified, ad_report_block_time
<1>. QED  BY <1>1, <1>2, <1>3 DEF IInv

\* What ad_unquarantine leaves: entries that were there before, and every entry of
\* every client but the pardoned one.
LEMMA RemovedKeepsOthers ==
    ASSUME TypeOK, NEW c \in Clients, NEW i \in DOMAIN quarantined, quarantined[i].ip = c
    PROVE  /\ Removed(i) \in Seq(Entry)
           /\ \A j \in DOMAIN Removed(i) : \E k \in DOMAIN quarantined : Removed(i)[j] = quarantined[k]
           /\ \A k \in DOMAIN quarantined : quarantined[k].ip # c =>
                 \E j \in DOMAIN Removed(i) : Removed(i)[j] = quarantined[k]
<1>. DEFINE m == Len(quarantined)
<1>1. /\ quarantined \in Seq(Entry) /\ m \in Nat /\ DOMAIN quarantined = 1..m
      /\ i \in 1..m /\ m - 1 \in Nat
      /\ \A k \in 1..m : quarantined[k] \in Entry
    BY DEF TypeOK
<1>. HIDE DEF m
<1>2. Removed(i) = [j \in 1..(m - 1) |-> IF j = i THEN quarantined[m] ELSE quarantined[j]]
    BY DEF Removed, m
<1>3. DOMAIN Removed(i) = 1..(m - 1)
    BY <1>2
<1>4. ASSUME NEW j \in 1..(m - 1)
      PROVE  /\ Removed(i)[j] = IF j = i THEN quarantined[m] ELSE quarantined[j]
             /\ j \in 1..m /\ m \in 1..m
    BY <1>1, <1>2
<1>5. Removed(i) \in Seq(Entry)
    <2>1. Removed(i) \in [1..(m - 1) -> Entry]
        BY <1>1, <1>2, <1>4
    <2>. QED  BY <1>1, <2>1
<1>6. ASSUME NEW k \in 1..m, quarantined[k].ip # c
      PROVE  \E j \in 1..(m - 1) : Removed(i)[j] = quarantined[k]
    <2>1. CASE k = m
        <3>1. i # m /\ i \in 1..(m - 1)
            BY <1>1, <1>6, <2>1
        <3>. QED  BY <1>4, <2>1, <3>1
    <2>2. CASE k # m
        <3>1. k \in 1..(m - 1) /\ k # i
            BY <1>1, <1>6, <2>2
        <3>. QED  BY <1>4, <3>1
    <2>. QED  BY <2>1, <2>2
<1>. QED  BY <1>1, <1>3, <1>4, <1>5, <1>6

\* A pardon lifts bans of the pardoned client only.
LEMMA PardonPreserves ==
    ASSUME IInv, NEW c \in Clients, ad_unquarantine(c)
    PROVE  IInv'
<1>. USE QuarantineAssumption
<1>1. PICK i \in DOMAIN quarantined : quarantined[i].ip = c /\ quarantined' = Removed(i)
    BY DEF ad_unquarantine
<1>2. /\ pardoned' = pardoned \cup {c}
      /\ now' = now /\ events' = events /\ reports' = reports /\ forward' = forward
    BY DEF ad_unquarantine
<1>3. /\ quarantined' \in Seq(Entry)
      /\ \A j \in DOMAIN quarantined' : \E k \in DOMAIN quarantined : quarantined'[j] = quarantined[k]
      /\ \A k \in DOMAIN quarantined : quarantined[k].ip # c =>
            \E j \in DOMAIN quarantined' : quarantined'[j] = quarantined[k]
    BY <1>1, RemovedKeepsOthers DEF IInv
<1>4. TypeOK' /\ TimedInThePast'
    BY <1>2, <1>3 DEF IInv, TypeOK, TimedInThePast
<1>5. BanJustified'
    BY <1>2, <1>3 DEF IInv, BanJustified
<1>6. EveryWindowBanned'
    <2>. SUFFICES ASSUME NEW d \in Clients \ pardoned', NEW t \in 0..MaxTime,
                         OverThreshold(events, d, t)
                  PROVE  \E j \in DOMAIN quarantined' :
                            /\ quarantined'[j].ip = d
                            /\ (t - WINDOW) + BAN < quarantined'[j].banned_until
        BY <1>2 DEF EveryWindowBanned
    <2>1. d \in Clients \ pardoned /\ d # c
        BY <1>2
    <2>2. PICK k \in DOMAIN quarantined : /\ quarantined[k].ip = d
                                          /\ (t - WINDOW) + BAN < quarantined[k].banned_until
        BY <2>1 DEF IInv, EveryWindowBanned
    <2>3. PICK j \in DOMAIN quarantined' : quarantined'[j] = quarantined[k]
        BY <1>3, <2>1, <2>2
    <2>. QED  BY <2>2, <2>3
<1>. QED  BY <1>4, <1>5, <1>6 DEF IInv

\* The clock moves: the log and the bans stay as they are.
LEMMA ClockPreserves ==
    ASSUME IInv, Tick \/ ClockStepBack
    PROVE  IInv'
<1>. USE QuarantineAssumption
<1>1. UNCHANGED <<events, quarantined, reports, pardoned>> /\ (forward' => forward /\ Tick)
    BY DEF Tick, ClockStepBack
<1>2. TypeOK'
    <2>1. now' \in 0..MaxTime
        BY DEF IInv, TypeOK, Tick, ClockStepBack
    <2>2. forward' \in BOOLEAN
        BY DEF IInv, TypeOK, Tick, ClockStepBack
    <2>. QED  BY <1>1, <2>1, <2>2 DEF IInv, TypeOK
<1>3. TimedInThePast'
    <2>. SUFFICES ASSUME forward, Tick PROVE TimedInThePast'
        BY <1>1 DEF TimedInThePast
    <2>1. ASSUME NEW i \in DOMAIN events PROVE events[i].timestamp \in Int
        <3>1. events[i] \in Event
            BY DEF IInv, TypeOK
        <3>. QED  BY <3>1 DEF Event
    <2>2. ASSUME NEW t \in Threads, reports[t] # NoReport PROVE reports[t].timestamp \in Int
        <3>1. reports[t] \in Event
            BY <2>2 DEF IInv, TypeOK
        <3>. QED  BY <3>1 DEF Event
    <2>. QED  BY <2>1, <2>2 DEF IInv, TypeOK, TimedInThePast, Tick
<1>4. EveryWindowBanned' /\ BanJustified'
    BY <1>1 DEF IInv, EveryWindowBanned, BanJustified
<1>. QED  BY <1>2, <1>3, <1>4 DEF IInv

\* Every step preserves the invariant.
LEMMA NextIInv == IInv /\ [Next]_vars => IInv'
<1>. SUFFICES ASSUME IInv, [Next]_vars PROVE IInv'
    OBVIOUS
<1>1. CASE \E t \in Threads : ad_report_block(t)
    BY <1>1, ReportPreserves
<1>2. CASE \E t \in Threads, c \in Clients : ad_report_block_time(t, c)
    BY <1>2, TimePreserves
<1>3. CASE \E c \in Clients : ad_unquarantine(c)
    BY <1>3, PardonPreserves
<1>4. CASE Tick \/ ClockStepBack
    BY <1>4, ClockPreserves
<1>5. CASE UNCHANGED vars
    BY <1>5 DEF vars, IInv, TypeOK, EveryWindowBanned, TimedInThePast, BanJustified
<1>. QED  BY <1>1, <1>2, <1>3, <1>4, <1>5 DEF Next

\* The window that ends now left a ban that has not run out, since a ban is at
\* least as long as the window.
LEMMA IInvGivesBanComplete == IInv => BanComplete
<1>. SUFFICES ASSUME IInv, NEW c \in Clients \ pardoned,
                     OverThreshold(events, c, now)
              PROVE  BannedAt(c, now)
    BY DEF BanComplete
<1>1. now \in 0..MaxTime
    BY DEF IInv, TypeOK
<1>2. PICK i \in DOMAIN quarantined : /\ quarantined[i].ip = c
                                      /\ (now - WINDOW) + BAN < quarantined[i].banned_until
    BY <1>1 DEF IInv, EveryWindowBanned
<1>3. quarantined[i].banned_until \in Int
    <2>1. quarantined[i] \in Entry
        BY DEF IInv, TypeOK
    <2>. QED  BY <2>1 DEF Entry
<1>. QED  BY <1>1, <1>2, <1>3, QuarantineAssumption DEF BannedAt

-----------------------------------------------------------------------------
\* The inductive invariant of the log and the bans holds in every state.
THEOREM Invariance == Spec => []IInv
BY InitIInv, NextIInv, PTL DEF Spec

\* Enough recorded events in the last WINDOW seconds mean a ban in force, however
\* many threads report and in whatever order they record.
THEOREM BanCompleteHolds == Spec => []BanComplete
BY Invariance, IInvGivesBanComplete, PTL

\* Behind every ban are enough events of that client, close enough in time.
THEOREM BanJustifiedHolds == Spec => []BanJustified
<1>1. IInv => BanJustified
    BY DEF IInv
<1>. QED  BY <1>1, Invariance, PTL

\* Lifting one client's ban changes no other client's answer.
THEOREM PardonIsLocalHolds == Spec => PardonIsLocal
<1>1. ASSUME IInv, [Next]_vars, NEW c \in Clients, ad_unquarantine(c), NEW d \in Clients \ {c},
             NEW t \in 0..(MaxTime + BAN)
      PROVE  BannedAt(d, t)' = BannedAt(d, t)
    <2>1. PICK i \in DOMAIN quarantined : quarantined[i].ip = c /\ quarantined' = Removed(i)
        BY <1>1 DEF ad_unquarantine
    <2>2. /\ \A j \in DOMAIN quarantined' : \E k \in DOMAIN quarantined : quarantined'[j] = quarantined[k]
          /\ \A k \in DOMAIN quarantined : quarantined[k].ip # c =>
                \E j \in DOMAIN quarantined' : quarantined'[j] = quarantined[k]
        BY <1>1, <2>1, RemovedKeepsOthers DEF IInv
    <2>. QED  BY <1>1, <2>2, Zenon DEF BannedAt
<1>2. IInv /\ [Next]_vars =>
        [\A c \in Clients : ad_unquarantine(c) =>
            \A d \in Clients \ {c}, t \in 0..(MaxTime + BAN) :
                BannedAt(d, t)' = BannedAt(d, t)]_vars
    BY <1>1
<1>. QED  BY <1>2, Invariance, PTL DEF Spec, PardonIsLocal
=============================================================================
