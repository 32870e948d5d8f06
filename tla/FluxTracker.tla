---------------------------- MODULE FluxTracker ----------------------------
(***************************************************************************)
(* The fast-flux tracker of src/src/policy.c: flux_table, a linked list    *)
(* with one entry per domain that holds the addresses seen in the last     *)
(* FLUX_WINDOW_SEC seconds.  flux_detect runs in every thread that         *)
(* processes a query and flux_cleanup in main, all without a lock.         *)
(*                                                                         *)
(* A step is one access of the shared list: the search, the read of the    *)
(* head into e->next, the write of the head, the update of one entry, and  *)
(* one turn of flux_cleanup's loop.  What C leaves undefined (an entry     *)
(* used after it was freed, or changed by two threads at once) may set     *)
(* corrupt; nothing is said of what the process does then.                 *)
(*                                                                         *)
(* Time is kept as ages.  An address is as old as its timestamp, and one   *)
(* that is Gone is either no longer in the arrays or certain to be pruned  *)
(* before it is counted.                                                   *)
(***************************************************************************)
EXTENDS UnlockedList

CONSTANTS
    Threads,      \* threads that process queries
    Main,
    Domains,
    IPs,          \* addresses in answers
    Answers,      \* which domains they are answers for
    WINDOW,       \* FLUX_WINDOW_SEC
    PERIOD,       \* the 60 seconds of policy_housekeeping
    g_flux_ip_max

ASSUME FluxAssumption ==
    /\ WINDOW \in Nat \ {0} /\ PERIOD \in Nat /\ g_flux_ip_max \in Nat
    /\ Answers \subseteq Domains \X IPs
    /\ Main \notin Threads
    /\ IsFiniteSet(Threads) /\ IsFiniteSet(IPs) /\ Null \notin Domains

VARIABLES
    flux_table,   \* head of the list
    entry,        \* the entries: domain, next, and the age of each address
    pc, arg, e,   \* where each thread is in flux_detect, its domain and its entry
    walking,      \* flux_cleanup runs
    curr, prev,   \* its pointers
    since,        \* the age of last_housekeeping, at most PERIOD + 1
    verdict,      \* what flux_detect has just returned
    corrupt,
    seen,         \* history: when each address was last reported for each domain
    entangled,    \* history: calls and cleanup under way that met another one
    quiet,        \* history: seconds since the last such call or cleanup ended
    clash         \* history: two calls for one domain, or a call and a cleanup, have met

calls   == <<pc, arg, e>>
walk    == <<walking, curr, prev, since>>
results == <<corrupt, seen>>
history == <<entangled, quiet, clash>>
vars    == <<flux_table, entry, calls, walk, verdict, results, history>>

Gone     == WINDOW + 1
Ages     == 0..Gone
NoIPs    == [i \in IPs |-> Gone]
Free     == [domain |-> Null, next |-> Null, age |-> NoIPs]

NoVerdict == [domain |-> Null, alarm |-> FALSE]

TypeOK ==
    /\ flux_table \in Pointers
    /\ entry \in [Entries -> [domain : Domains \cup {Null}, next : Pointers, age : [IPs -> Ages]]]
    /\ pc \in [Threads -> {"out", "make", "link", "add"}]
    /\ arg \in [Threads -> Domains \cup {Null}]
    /\ e \in [Threads -> Pointers]
    /\ walking \in BOOLEAN /\ curr \in Pointers /\ prev \in Entries \cup {Null}
    /\ since \in 0..(PERIOD + 1)
    /\ verdict \in [domain : Domains \cup {Null}, alarm : BOOLEAN]
    /\ corrupt \in BOOLEAN /\ clash \in BOOLEAN
    /\ seen \in [Domains -> [IPs -> Ages]]
    /\ entangled \subseteq Threads \cup {Main}
    /\ quiet \in 0..WINDOW

Init ==
    /\ flux_table = Null
    /\ entry = [x \in Entries |-> Free]
    /\ pc = [t \in Threads |-> "out"]
    /\ arg = [t \in Threads |-> Null]
    /\ e = [t \in Threads |-> Null]
    /\ walking = FALSE /\ curr = Null /\ prev = Null
    /\ since = 0
    /\ verdict = NoVerdict
    /\ corrupt = FALSE /\ clash = FALSE
    /\ seen = [d \in Domains |-> NoIPs]
    /\ entangled = {} /\ quiet = WINDOW

-----------------------------------------------------------------------------
(* The list.                                                               *)

nexts(ents) == [x \in Entries |-> ents[x].next]

flux_find(d) == Search(flux_table, nexts(entry), {x \in Entries : entry[x].domain = d})

\* The pointers of the program into the heap.
Roots == {flux_table, curr, prev} \cup {e[t] : t \in Threads}

\* entry' = ents, but for what has leaked.
Assign(ents) ==
    LET kept == Reached(nexts(ents), Roots')
    IN  entry' = [x \in Entries |-> IF x \in kept THEN ents[x] ELSE Free]

\* A slip: an address lives one second longer.
InWindowAndOne(a) == a <= WINDOW

InWindow(a) == a < WINDOW

\* The arrays without the addresses that are too old.
Pruned(ages) == [i \in IPs |-> IF InWindow(ages[i]) THEN ages[i] ELSE Gone]

num_ips(ages) == Cardinality({i \in IPs : ages[i] # Gone})

-----------------------------------------------------------------------------
(* flux_detect, for one address of an answer.                              *)

\* The search ends at an entry of the domain.
find(t, d) ==
    /\ pc[t] = "out"
    /\ flux_find(d) \in Entries
    /\ e' = [e EXCEPT ![t] = flux_find(d)]
    /\ arg' = [arg EXCEPT ![t] = d]
    /\ pc' = [pc EXCEPT ![t] = "add"]
    /\ verdict' = NoVerdict
    /\ UNCHANGED <<flux_table, entry, walk, results>>

\* The search runs into a freed entry, or into what flux_cleanup is changing.
find_dangling(t, d) ==
    /\ pc[t] = "out"
    /\ flux_find(d) = Dangling \/ walking
    /\ corrupt' = TRUE
    /\ verdict' = NoVerdict
    /\ arg' = [arg EXCEPT ![t] = d]
    /\ pc' = [pc EXCEPT ![t] = "add"]
    /\ e' = [e EXCEPT ![t] = Dangling]
    /\ UNCHANGED <<flux_table, entry, walk, seen>>

\* The search ends with the list: there is no entry.
miss(t, d) ==
    /\ pc[t] = "out"
    /\ flux_find(d) = Null
    /\ arg' = [arg EXCEPT ![t] = d]
    /\ pc' = [pc EXCEPT ![t] = "make"]
    /\ verdict' = NoVerdict
    /\ UNCHANGED <<flux_table, entry, e, walk, results>>

\* A new one is made, which points at the head the list has now: by now there may be
\* an entry of the domain, which another thread has made.
create(t, x) ==
    /\ pc[t] = "make"
    /\ entry[x] = Free
    /\ entry' = [entry EXCEPT ![x] = [domain |-> arg[t], next |-> flux_table, age |-> NoIPs]]
    /\ e' = [e EXCEPT ![t] = x]
    /\ pc' = [pc EXCEPT ![t] = "link"]
    /\ verdict' = NoVerdict
    /\ UNCHANGED <<flux_table, arg, walk, results>>

\* The new entry becomes the head, whatever the head is by now.
link(t) ==
    /\ pc[t] = "link"
    /\ flux_table' = e[t]
    /\ pc' = [pc EXCEPT ![t] = "add"]
    /\ verdict' = NoVerdict
    /\ UNCHANGED <<arg, e, walk, results>>
    /\ Assign(entry)

\* Another thread is about to change the same entry: their updates may mix.
Shared(t) == \E u \in Threads \ {t} : pc[u] = "add" /\ e[u] = e[t]

\* A slip: an address that is known keeps its old timestamp.
TouchedOnce(ages, i) == IF ages[i] # Gone THEN ages ELSE [ages EXCEPT ![i] = 0]

\* The address is refreshed, or appended.
Touched(ages, i) == [ages EXCEPT ![i] = 0]

\* flux_add_ip, and the return of flux_detect.
flux_add_ip(t, i) ==
    /\ pc[t] = "add" /\ <<arg[t], i>> \in Answers
    /\ seen' = [seen EXCEPT ![arg[t]][i] = 0]
    /\ pc' = [pc EXCEPT ![t] = "out"]
    /\ arg' = [arg EXCEPT ![t] = Null]
    /\ e' = [e EXCEPT ![t] = Null]
    /\ UNCHANGED <<flux_table, walk>>
    /\ \/ /\ e[t] # Dangling
          /\ LET ages == Touched(Pruned(entry[e[t]].age), i)
             IN  /\ verdict' = [domain |-> arg[t], alarm |-> num_ips(ages) > g_flux_ip_max]
                 /\ Assign([entry EXCEPT ![e[t]].age = ages])
          /\ UNCHANGED corrupt
       \/ /\ e[t] = Dangling \/ Shared(t)
          /\ corrupt' = TRUE
          /\ UNCHANGED <<entry, verdict>>

flux_detect(t) ==
    \/ \E d \in Domains :
          find(t, d) \/ find_dangling(t, d) \/ miss(t, d)
    \/ \E x \in Entries : create(t, x)
    \/ link(t)
    \/ \E i \in IPs : flux_add_ip(t, i)

-----------------------------------------------------------------------------
(* policy_housekeeping and flux_cleanup, in main.                          *)

\* More than PERIOD seconds after the last time, with the next packet.
cleanup_begin ==
    /\ ~walking /\ since > PERIOD
    /\ walking' = TRUE /\ curr' = flux_table /\ prev' = Null
    /\ verdict' = NoVerdict
    /\ UNCHANGED <<flux_table, entry, calls, since, results>>

Survives(x) == num_ips(Pruned(entry[x].age)) > 0

Adding(x) == \E t \in Threads : pc[t] = "add" /\ e[t] = x

cleanup_keep ==
    /\ walking /\ curr \in Entries
    /\ Survives(curr)
    /\ prev' = curr /\ curr' = entry[curr].next
    /\ corrupt' \in {FALSE, Adding(curr)}
    /\ verdict' = NoVerdict
    /\ UNCHANGED <<flux_table, calls, walking, since, seen>>
    /\ Assign([entry EXCEPT ![curr].age = Pruned(@)])

\* A slip: the head of the list is never moved.
HeadKept == Without(curr, flux_table)

NewHead == IF prev = Null THEN entry[curr].next ELSE Without(curr, flux_table)

\* An entry without addresses is unlinked and freed.  It may be one that was just
\* made, and a thread may be using it.
cleanup_free ==
    /\ walking /\ curr \in Entries
    /\ ~Survives(curr)
    /\ flux_table' = NewHead
    /\ e' = [t \in Threads |-> Without(curr, e[t])]
    /\ curr' = entry[curr].next
    /\ corrupt' \in {FALSE, Adding(curr)}
    /\ verdict' = NoVerdict
    /\ UNCHANGED <<pc, arg, walking, prev, since, seen>>
    /\ Assign([x \in Entries |->
                 IF x = prev THEN [entry[x] EXCEPT !.next = entry[curr].next]
                             ELSE [entry[x] EXCEPT !.next = Without(curr, @)]])

cleanup_end ==
    /\ walking /\ curr = Null
    /\ walking' = FALSE /\ curr' = Null /\ prev' = Null
    /\ since' = 0
    /\ verdict' = NoVerdict
    /\ UNCHANGED <<flux_table, calls, results>>
    /\ Assign(entry)

\* The list leads to a freed entry.
cleanup_dangling ==
    /\ walking /\ curr = Dangling
    /\ corrupt' = TRUE
    /\ verdict' = NoVerdict
    /\ UNCHANGED <<flux_table, entry, calls, walk, seen>>

flux_cleanup == cleanup_keep \/ cleanup_free \/ cleanup_end \/ cleanup_dangling

-----------------------------------------------------------------------------
\* Ages past the window are not told apart.
Older(a) == IF a < WINDOW THEN a + 1 ELSE a

\* One second passes.  One flux_cleanup, which reads the clock once, is taken to end
\* within the second: with an older now it would only keep addresses longer.
Tick ==
    /\ ~walking
    /\ since' = IF since <= PERIOD THEN since + 1 ELSE since
    /\ entry' = [x \in Entries |-> [entry[x] EXCEPT !.age = [i \in IPs |-> Older(@[i])]]]
    /\ seen' = [d \in Domains |-> [i \in IPs |-> Older(seen[d][i])]]
    /\ verdict' = NoVerdict
    /\ UNCHANGED <<flux_table, calls, walking, curr, prev, corrupt>>

Calling == {t \in Threads : pc[t] # "out"}
Active  == Calling \cup (IF walking THEN {Main} ELSE {})
Clash   == \/ \E t, u \in Calling : t # u /\ arg[t] = arg[u]
           \/ Calling # {} /\ walking

Observe(older) ==
    /\ entangled' = IF Cardinality(Active') > 1 THEN Active' ELSE entangled \cap Active'
    /\ quiet' = IF entangled' # {} THEN 0 ELSE IF older /\ quiet < WINDOW THEN quiet + 1 ELSE quiet
    /\ clash' = (clash \/ Clash')

Next ==
    \/ ~corrupt /\ (\E t \in Threads : flux_detect(t)) /\ Observe(FALSE)
    \/ ~corrupt /\ (cleanup_begin \/ flux_cleanup) /\ Observe(FALSE)
    \/ ~corrupt /\ Tick /\ Observe(TRUE)

Spec == Init /\ [][Next]_vars

-----------------------------------------------------------------------------
(* Properties.                                                             *)

\* The reference: the distinct addresses reported for a domain in the last WINDOW
\* seconds.
Distinct(d) == Cardinality({i \in IPs : seen[d][i] < WINDOW})

\* No false alarm by a race: whatever the interleaving of threads and of main, short
\* of undefined behaviour, an alarm means that the domain really showed more than
\* g_flux_ip_max addresses within the window.
NoFalseAlarm ==
    ~corrupt /\ verdict.alarm => Distinct(verdict.domain) > g_flux_ip_max

\* The tracker heals: entries may be lost from the list, or doubled, when calls overlap,
\* and alarms missed.  Once a window has passed since the last calls that met have
\* ended, every verdict is again that of the reference, and neither the lazy pruning
\* nor the moment at which flux_cleanup runs is visible in it.
HealsInAWindow ==
    ~corrupt /\ quiet = WINDOW /\ verdict # NoVerdict =>
        (verdict.alarm <=> Distinct(verdict.domain) > g_flux_ip_max)

\* Queries for different domains do not disturb each other's memory, only their place
\* in the list: an entry is used after its end, or by two threads at once, only after
\* two calls for one domain, or a call and flux_cleanup, have overlapped.
CorruptOnlyByClash == TypeOK /\ (corrupt => clash)
=============================================================================
