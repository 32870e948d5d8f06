----------------------------- MODULE Quarantine -----------------------------
(***************************************************************************)
(* Block events and client bans: ad_report_block, ad_is_quarantined and    *)
(* ad_unquarantine of src/src/active_defense.c.                            *)
(*                                                                         *)
(* Both ad_report_block and ad_is_quarantined read time(NULL) before they  *)
(* take ctx->lock, so the threads that process queries can record their    *)
(* events in another order than they timed them.  A report is therefore    *)
(* two steps, and reports is what the threads hold between them.           *)
(*                                                                         *)
(* ad_unquarantine is exported by active_defense.h; nothing calls it yet.  *)
(***************************************************************************)
EXTENDS Integers, Sequences, FiniteSets

CONSTANTS
    NoReport,    \* no report pending
    Threads,     \* threads that process queries
    Clients,     \* client addresses
    MAX_EVENTS,  \* QUARANTINE_MAX_EVENTS
    WINDOW,      \* QUARANTINE_WINDOW_SEC
    BAN,         \* the length of a ban, 600
    Lag,         \* bound: seconds a thread may wait between clock and lock
    MaxTime,     \* bound: the last second modelled
    MaxReports   \* bound: block events recorded

Event == [client_ip : Clients, timestamp : 0..MaxTime]
Entry == [ip : Clients, banned_until : Int]

ASSUME QuarantineAssumption ==
    /\ MAX_EVENTS \in Nat \ {0}
    /\ WINDOW \in Nat /\ BAN \in Nat /\ WINDOW <= BAN
    /\ Lag \in Nat /\ MaxTime \in Nat /\ MaxReports \in Nat
    /\ NoReport \notin Event

VARIABLES
    now,          \* time(NULL)
    events,       \* ctx->events, oldest first
    quarantined,  \* ctx->quarantined, quarantined_cnt entries
    reports,      \* the report each thread has timed but not yet recorded
    forward,      \* history: the clock was never set back
    pardoned      \* history: clients a ban was lifted for

vars == <<now, events, quarantined, reports, forward, pardoned>>

TypeOK ==
    /\ now \in 0..MaxTime
    /\ events \in Seq(Event)
    /\ quarantined \in Seq(Entry)
    /\ reports \in [Threads -> Event \cup {NoReport}]
    /\ forward \in BOOLEAN
    /\ pardoned \subseteq Clients

Init ==
    /\ now = 0
    /\ events = << >>
    /\ quarantined = << >>
    /\ reports = [t \in Threads |-> NoReport]
    /\ forward = TRUE
    /\ pardoned = {}

-----------------------------------------------------------------------------

\* Slips in the loop that counts, used to show that the properties see them.
CountedAnyone(log, ev) ==
    {i \in DOMAIN log : ev.timestamp - log[i].timestamp < WINDOW}

CountedForever(log, ev) == {i \in DOMAIN log : log[i].client_ip = ev.client_ip}

CountedBehind(log, ev) ==
    {i \in DOMAIN log : /\ log[i].client_ip = ev.client_ip
                        /\ ev.timestamp - log[i].timestamp \in 0..(WINDOW - 1)}

\* The events the loop of ad_report_block counts for the report ev.
Counted(log, ev) ==
    {i \in DOMAIN log : /\ log[i].client_ip = ev.client_ip
                        /\ ev.timestamp - log[i].timestamp < WINDOW}

\* What ad_is_quarantined answers when it reads t from the clock.
BannedAt(c, t) ==
    \E i \in DOMAIN quarantined : /\ quarantined[i].ip = c
                                  /\ t < quarantined[i].banned_until

\* ad_report_block, up to the lock: the clock is read.
ad_report_block_time(t, c) ==
    /\ reports[t] = NoReport
    /\ reports' = [reports EXCEPT ![t] = [client_ip |-> c, timestamp |-> now]]
    /\ UNCHANGED <<now, events, quarantined, forward, pardoned>>

\* ad_report_block under the lock: record, count, and ban (again) if need be.
ad_report_block(t) ==
    /\ reports[t] # NoReport
    /\ Len(events) < MaxReports
    /\ LET ev  == reports[t]
           log == Append(events, ev)
           ban == [ip |-> ev.client_ip, banned_until |-> ev.timestamp + BAN]
       IN  /\ events' = log
           /\ quarantined' = IF Cardinality(Counted(log, ev)) >= MAX_EVENTS
                             THEN Append(quarantined, ban)
                             ELSE quarantined
    /\ reports' = [reports EXCEPT ![t] = NoReport]
    /\ UNCHANGED <<now, forward, pardoned>>

\* A slip in ad_unquarantine: the last entry is dropped instead of the i-th.
RemovedLast(i) == SubSeq(quarantined, 1, Len(quarantined) - 1)

\* The entries after the i-th is overwritten by the last and the last dropped.
Removed(i) ==
    [j \in 1..(Len(quarantined) - 1) |->
        IF j = i THEN quarantined[Len(quarantined)] ELSE quarantined[j]]

ad_unquarantine(c) ==
    /\ \E i \in DOMAIN quarantined :
         /\ quarantined[i].ip = c
         /\ \A j \in 1..(i - 1) : quarantined[j].ip # c
         /\ quarantined' = Removed(i)
    /\ pardoned' = pardoned \cup {c}
    /\ UNCHANGED <<now, events, reports, forward>>

\* The clock. No thread waits longer than Lag for the lock (a bound).
Tick ==
    /\ now < MaxTime
    /\ \A t \in Threads : reports[t] # NoReport => now < reports[t].timestamp + Lag
    /\ now' = now + 1
    /\ UNCHANGED <<events, quarantined, reports, forward, pardoned>>

\* The clock is set back, at most once (a bound).
ClockStepBack ==
    /\ forward
    /\ now' \in 0..(now - 1)
    /\ forward' = FALSE
    /\ UNCHANGED <<events, quarantined, reports, pardoned>>

Next ==
    \/ \E t \in Threads : ad_report_block(t)
    \/ \E t \in Threads, c \in Clients : ad_report_block_time(t, c)
    \/ \E c \in Clients : ad_unquarantine(c)
    \/ Tick
    \/ ClockStepBack

Spec == Init /\ [][Next]_vars

-----------------------------------------------------------------------------
(* Properties.                                                             *)

\* The block events of client c in log that are timed in (low, high].
EventsIn(log, c, low, high) ==
    {i \in DOMAIN log : /\ log[i].client_ip = c
                        /\ low < log[i].timestamp
                        /\ log[i].timestamp <= high}

\* Client c reached the threshold in the WINDOW seconds that end at t.
OverThreshold(log, c, t) == Cardinality(EventsIn(log, c, t - WINDOW, t)) >= MAX_EVENTS

\* The entry q stands for MAX_EVENTS events of its client in a span of WINDOW
\* seconds, widened only by the time a report can wait for the lock.
Backed(log, q) ==
    LET timed == q.banned_until - BAN
    IN  Cardinality(EventsIn(log, q.ip, timed - WINDOW, timed + Lag)) >= MAX_EVENTS

\* ad_report_block bans in time: a client with MAX_EVENTS recorded events in the
\* last WINDOW seconds is quarantined, in whatever order concurrent threads
\* recorded them and even after the clock was set back.
BanComplete ==
    \A c \in Clients \ pardoned : OverThreshold(events, c, now) => BannedAt(c, now)

\* ad_report_block bans nobody else: with a clock that moves forward, every entry
\* of the quarantine stands for enough events of that client, close in time.
BanJustified ==
    forward => \A i \in DOMAIN quarantined : Backed(events, quarantined[i])

\* ad_unquarantine's overwrite with the last entry loses no other client's ban:
\* when it lifts one of c's bans, ad_is_quarantined answers as before for every
\* other client, now and at any later time.
PardonIsLocal ==
    [][\A c \in Clients : ad_unquarantine(c) =>
          \A d \in Clients \ {c}, t \in 0..(MaxTime + BAN) :
              BannedAt(d, t)' = BannedAt(d, t)]_vars

-----------------------------------------------------------------------------
(* The inductive invariant behind BanComplete and BanJustified.            *)

\* BanComplete for every window, not only the one that ends now: a window that
\* holds MAX_EVENTS events left a ban that outlives it.
EveryWindowBanned ==
    \A c \in Clients \ pardoned, t \in 0..MaxTime :
        OverThreshold(events, c, t) =>
            \E i \in DOMAIN quarantined :
                /\ quarantined[i].ip = c
                /\ (t - WINDOW) + BAN < quarantined[i].banned_until

\* With a clock that moves forward nothing is timed in the future, and a pending
\* report is at most Lag old.
TimedInThePast ==
    forward => /\ \A i \in DOMAIN events : events[i].timestamp <= now
               /\ \A t \in Threads : reports[t] # NoReport =>
                     /\ reports[t].timestamp <= now
                     /\ now <= reports[t].timestamp + Lag

\* The induction hypothesis of both properties of ad_report_block: every window
\* of the log that is over the threshold is covered by a ban, and conversely.
IInv == TypeOK /\ EveryWindowBanned /\ TimedInThePast /\ BanJustified
=============================================================================
