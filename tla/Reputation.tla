----------------------------- MODULE Reputation -----------------------------
(***************************************************************************)
(* The reputation tracker of src/src/reputation.c and what main does with  *)
(* it after each packet: rep_record_block in every thread that blocks a    *)
(* query, rep_decay and the export of the zone file in main, all without a *)
(* lock.  One list stands for the 256 buckets, which never share an entry. *)
(*                                                                         *)
(* A step is one access of shared memory: the search, up to the read of    *)
(* the score it finds; the write of a score, with the time; the read of    *)
(* the head into e->next; the write of the head.  In rep_decay it is the   *)
(* test of an entry's age, the read and the write of score--, and the test *)
(* of the score with what follows.  What C leaves undefined may set        *)
(* corrupt, as in FluxTracker.  Time is kept as ages.                      *)
(*                                                                         *)
(* Packets are what drives main.  They are taken to come at most Gap + 1   *)
(* seconds apart.                                                          *)
(***************************************************************************)
EXTENDS UnlockedList, Functions

CONSTANTS
    Threads, Main,
    Domains,
    MaxBlocks,        \* bound: queries blocked
    DECAY_INTERVAL,
    EXPORT,           \* the 60 seconds between exports
    Gap               \* bound: seconds without a packet

ASSUME ReputationAssumption ==
    /\ DECAY_INTERVAL \in Nat \ {0} /\ EXPORT \in Nat /\ MaxBlocks \in Nat /\ Gap \in Nat
    /\ Main \notin Threads /\ IsFiniteSet(Threads) /\ Null \notin Domains \cup Nat

VARIABLES
    bucket,       \* head of the list
    entry,        \* the entries: domain, score, the age of last_update, next; and
                  \* (history) the highest score so far
    pc, arg, e,   \* where each thread is in rep_record_block, its domain, its entry
    score,        \* the score it has read
    mpc,          \* where main is: waits for a packet, decays, exports
    curr, prev,   \* of rep_decay
    points,       \* the score that rep_decay has read
    decayed,      \* the age of last_decay
    exported,     \* the age of last_export; Null before the first packet
    silent,       \* seconds without a packet
    zone,         \* the dynamic part of the exported file rpz.zone
    corrupt,
    blocks,       \* history: queries blocked
    sure,         \* history: how long ago a call that met no other has recorded a domain,
                  \* if no calls have met since
    met,          \* history: calls, and rep_decay, under way that met another one
    races         \* history: what calls have met so far, "calls" or "decay"

calls  == <<pc, arg, e, score>>
timers == <<decayed, exported, silent>>
main   == <<mpc, curr, prev, points, timers, zone>>
vars   == <<bucket, entry, calls, main, corrupt, blocks, sure, met, races>>

Ages    == 0..DECAY_INTERVAL
Free    == [domain |-> Null, score |-> 0, age |-> 0, next |-> Null, peak |-> 0]
NotSure == DECAY_INTERVAL

\* Where main is in rep_decay: at an entry, about to read its score, to write it, to
\* test it.
Decay == {"decay", "read", "write", "judge"}

TypeOK ==
    /\ bucket \in Pointers
    /\ entry \in [Entries -> [domain : Domains \cup {Null}, score : Nat, age : Ages,
                              next : Pointers, peak : Nat]]
    /\ pc \in [Threads -> {"out", "store", "make", "link"}]
    /\ arg \in [Threads -> Domains \cup {Null}]
    /\ e \in [Threads -> Pointers]
    /\ score \in [Threads -> Nat]
    /\ mpc \in {"recv", "export"} \cup Decay
    /\ curr \in Pointers /\ prev \in Entries \cup {Null} /\ points \in Nat
    /\ decayed \in Ages
    /\ exported \in 0..(EXPORT + 1) \cup {Null}
    /\ silent \in 0..(Gap + 1)
    /\ zone \subseteq Domains
    /\ corrupt \in BOOLEAN
    /\ blocks \in [Domains -> Nat]
    /\ sure \in [Domains -> Ages]
    /\ met \subseteq Threads \cup {Main} /\ races \subseteq {"calls", "decay"}

Init ==
    /\ bucket = Null
    /\ entry = [x \in Entries |-> Free]
    /\ pc = [t \in Threads |-> "out"]
    /\ arg = [t \in Threads |-> Null]
    /\ e = [t \in Threads |-> Null]
    /\ score = [t \in Threads |-> 0]
    /\ mpc = "recv" /\ curr = Null /\ prev = Null /\ points = 0
    /\ decayed = 0 /\ exported = Null /\ silent = 0
    /\ zone = {}
    /\ corrupt = FALSE
    /\ blocks = [d \in Domains |-> 0]
    /\ sure = [d \in Domains |-> NotSure]
    /\ met = {} /\ races = {}

-----------------------------------------------------------------------------
(* The list.                                                               *)

nexts(ents)  == [x \in Entries |-> ents[x].next]
EntryOf(d)   == Search(bucket, nexts(entry), {x \in Entries : entry[x].domain = d})
Listed       == Reached(nexts(entry), {bucket})

\* The pointers of the program into the heap.
Roots == {bucket, curr, prev} \cup {e[t] : t \in Threads}

\* entry' = ents, but for what has leaked.
Assign(ents) ==
    LET kept == Reached(nexts(ents), Roots')
    IN  entry' = [x \in Entries |-> IF x \in kept THEN ents[x] ELSE Free]

Larger(m, n) == IF m > n THEN m ELSE n

\* Entry x with score s, updated now.
Scored(ents, x, s) ==
    [ents EXCEPT ![x].score = s, ![x].age = 0, ![x].peak = Larger(@, s)]

-----------------------------------------------------------------------------
(* rep_record_block.                                                       *)

Begin(t, d) ==
    /\ pc[t] = "out"
    /\ FoldFunction(+, 0, blocks) < MaxBlocks
    /\ blocks' = [blocks EXCEPT ![d] = @ + 1]
    /\ arg' = [arg EXCEPT ![t] = d]
    /\ UNCHANGED <<bucket, main>>

\* The entry is found, and its score read.
find(t, d) ==
    /\ EntryOf(d) \in Entries
    /\ Begin(t, d)
    /\ e' = [e EXCEPT ![t] = EntryOf(d)]
    /\ score' = [score EXCEPT ![t] = entry[EntryOf(d)].score]
    /\ pc' = [pc EXCEPT ![t] = "store"]
    /\ UNCHANGED <<entry, corrupt>>

\* The search runs into a freed entry, or into what rep_decay is changing.
find_dangling(t, d) ==
    /\ EntryOf(d) = Dangling \/ mpc \in Decay
    /\ Begin(t, d)
    /\ e' = [e EXCEPT ![t] = Dangling]
    /\ pc' = [pc EXCEPT ![t] = "store"]
    /\ corrupt' = TRUE
    /\ UNCHANGED <<entry, score>>

\* The search ends with the list: there is no entry.
miss(t, d) ==
    /\ EntryOf(d) = Null
    /\ Begin(t, d)
    /\ pc' = [pc EXCEPT ![t] = "make"]
    /\ UNCHANGED <<entry, e, score, corrupt>>

\* A new entry, complete but for its place in the list.  By now another thread may have
\* put one for the domain there.
create(t, x) ==
    /\ pc[t] = "make"
    /\ entry[x] = Free
    /\ entry' = [entry EXCEPT ![x] = [domain |-> arg[t], score |-> 1, age |-> 0,
                                      next |-> bucket, peak |-> 1]]
    /\ e' = [e EXCEPT ![t] = x]
    /\ pc' = [pc EXCEPT ![t] = "link"]
    /\ UNCHANGED <<bucket, arg, score, main, corrupt, blocks>>

End(t) ==
    /\ pc' = [pc EXCEPT ![t] = "out"]
    /\ arg' = [arg EXCEPT ![t] = Null]
    /\ e' = [e EXCEPT ![t] = Null]
    /\ score' = [score EXCEPT ![t] = 0]

\* A slip: two points for one block.
PlusTwo(s) == s + 2

PlusOne(s) == s + 1

\* score++ writes what was read plus one.
store(t) ==
    /\ pc[t] = "store"
    /\ End(t)
    /\ UNCHANGED <<bucket, main, blocks>>
    /\ IF e[t] = Dangling
       THEN corrupt' = TRUE /\ UNCHANGED entry
       ELSE corrupt' = FALSE /\ Assign(Scored(entry, e[t], PlusOne(score[t])))

\* A slip: the new entry is not put into the list.
HeadUnchanged(t) == bucket

NewHead(t) == e[t]

link(t) ==
    /\ pc[t] = "link"
    /\ bucket' = NewHead(t)
    /\ End(t)
    /\ UNCHANGED <<main, corrupt, blocks>>
    /\ Assign(entry)

rep_record_block(t) ==
    \/ \E d \in Domains :
          find(t, d) \/ find_dangling(t, d) \/ miss(t, d)
    \/ \E x \in Entries : create(t, x)
    \/ store(t) \/ link(t)

-----------------------------------------------------------------------------
(* main, after each packet: rep_decay, then the export.                    *)

DecayDue == decayed >= DECAY_INTERVAL

packet ==
    /\ mpc = "recv"
    /\ silent' = 0
    /\ exported' = IF exported = Null THEN 0 ELSE exported
    /\ IF DecayDue
       THEN mpc' = "decay" /\ curr' = bucket /\ decayed' = 0
       ELSE mpc' = "export" /\ UNCHANGED <<curr, decayed>>
    /\ UNCHANGED <<bucket, entry, calls, prev, points, zone, corrupt, blocks>>

\* A slip: the interval is left out of the comparison.
StaleAtOnce(x) == entry[x].age > 0

Stale(x) == entry[x].age >= DECAY_INTERVAL

\* The entry is recent.
decay_next ==
    /\ mpc = "decay" /\ curr \in Entries
    /\ ~Stale(curr)
    /\ prev' = curr /\ curr' = entry[curr].next
    /\ UNCHANGED <<bucket, calls, mpc, points, timers, zone, corrupt, blocks>>
    /\ Assign(entry)

\* The entry is old: it will lose a point, even if a thread updates it now.
decay_old ==
    /\ mpc = "decay" /\ curr \in Entries
    /\ Stale(curr)
    /\ mpc' = "read"
    /\ UNCHANGED <<bucket, entry, calls, curr, prev, points, timers, zone, corrupt, blocks>>

\* score-- reads the score and then writes what was read minus one.
decay_read ==
    /\ mpc = "read"
    /\ points' = entry[curr].score
    /\ mpc' = "write"
    /\ UNCHANGED <<bucket, entry, calls, curr, prev, timers, zone, corrupt, blocks>>

decay_write ==
    /\ mpc = "write"
    /\ points' = 0
    /\ mpc' = "judge"
    /\ UNCHANGED <<bucket, calls, curr, prev, timers, zone, corrupt, blocks>>
    /\ Assign([entry EXCEPT ![curr].score = points - 1])

\* The score is read again, and a thread may have written it.
Survives(x) == entry[x].score > 0

decay_keep ==
    /\ mpc = "judge"
    /\ Survives(curr)
    /\ mpc' = "decay"
    /\ prev' = curr /\ curr' = entry[curr].next
    /\ UNCHANGED <<bucket, calls, points, timers, zone, corrupt, blocks>>
    /\ Assign([entry EXCEPT ![curr].age = 0])

\* A slip: entries are freed and stay in the list.
StillLinked == <<Without(curr, bucket), [x \in Entries |-> Without(curr, entry[x].next)]>>

\* The head and the next pointers once curr is unlinked and freed.
Unlinked ==
    <<IF prev = Null THEN entry[curr].next ELSE Without(curr, bucket),
      [x \in Entries |-> IF x = prev THEN entry[curr].next ELSE Without(curr, entry[x].next)]>>

\* The last point is lost.
decay_free ==
    /\ mpc = "judge"
    /\ ~Survives(curr)
    /\ mpc' = "decay"
    /\ bucket' = Unlinked[1]
    /\ e' = [t \in Threads |-> Without(curr, e[t])]
    /\ curr' = entry[curr].next
    /\ UNCHANGED <<pc, arg, score, prev, points, timers, zone, corrupt, blocks>>
    /\ Assign([x \in Entries |-> [entry[x] EXCEPT !.next = Unlinked[2][x]]])

decay_dangling ==
    /\ mpc = "decay" /\ curr = Dangling
    /\ corrupt' = TRUE
    /\ UNCHANGED <<bucket, entry, calls, main, blocks>>

decay_end ==
    /\ mpc = "decay" /\ curr = Null
    /\ mpc' = "export" /\ curr' = Null /\ prev' = Null
    /\ UNCHANGED <<bucket, calls, points, timers, zone, corrupt, blocks>>
    /\ Assign(entry)

rep_decay ==
    \/ decay_next \/ decay_old \/ decay_read \/ decay_write \/ decay_keep
    \/ decay_free \/ decay_dangling \/ decay_end

\* rep_get_blocked_domains, and the end of the file.
rep_get_blocked_domains == {entry[x].domain : x \in {y \in Listed : entry[y].score > 0}}

ExportDue == exported > EXPORT

Export ==
    IF \E x \in Listed \cup {bucket} : x = Dangling \/ (x \in Entries /\ entry[x].next = Dangling)
    THEN corrupt' = TRUE /\ UNCHANGED zone
    ELSE /\ corrupt' \in BOOLEAN /\ (corrupt' => mpc \in Decay)
         /\ zone' = rep_get_blocked_domains

ad_export_rpz ==
    /\ mpc = "export"
    /\ mpc' = "recv"
    /\ IF ExportDue THEN Export /\ exported' = 0 ELSE UNCHANGED <<zone, exported, corrupt>>
    /\ UNCHANGED <<bucket, entry, calls, curr, prev, points, decayed, silent, blocks>>

\* The handler of SIGHUP, in any thread and at any time.
sighup ==
    /\ Export
    /\ UNCHANGED <<bucket, entry, calls, mpc, curr, prev, points, timers, blocks>>

-----------------------------------------------------------------------------
Upto(n, limit) == IF n < limit THEN n + 1 ELSE limit

\* One second passes.  What main does for a packet is taken to end within the second.
Tick ==
    /\ mpc = "recv" /\ silent <= Gap
    /\ silent' = silent + 1
    /\ decayed' = Upto(decayed, DECAY_INTERVAL)
    /\ exported' = IF exported = Null THEN Null ELSE Upto(exported, EXPORT + 1)
    /\ entry' = [x \in Entries |->
                   IF entry[x] = Free THEN Free
                   ELSE [entry[x] EXCEPT !.age = Upto(@, DECAY_INTERVAL)]]
    /\ UNCHANGED <<bucket, calls, mpc, curr, prev, points, zone, corrupt, blocks>>

Calling == {t \in Threads : pc[t] # "out"}
Active  == Calling \cup (IF mpc \in Decay THEN {Main} ELSE {})

\* The history after a step that takes the given seconds.
Observe(seconds) ==
    /\ met' = IF Cardinality(Active') > 1 THEN Active' ELSE met \cap Active'
    /\ LET ended == Calling \ (Calling' \cup met)
       IN  sure' = [d \in Domains |->
             IF met' # {} THEN NotSure
             ELSE IF \E t \in ended : arg[t] = d
             THEN entry'[e[CHOOSE t \in ended : arg[t] = d]].age
             ELSE IF seconds = 0 THEN sure[d] ELSE Upto(sure[d], NotSure)]
    /\ races' = races \cup (IF Cardinality(Calling') > 1 THEN {"calls"} ELSE {})
                      \cup (IF Calling' # {} /\ mpc' \in Decay THEN {"decay"} ELSE {})

Next ==
    \/ ~corrupt /\ (\E t \in Threads : rep_record_block(t)) /\ Observe(0)
    \/ ~corrupt /\ (packet \/ rep_decay \/ ad_export_rpz) /\ Observe(0)
    \/ ~corrupt /\ sighup /\ Observe(0)
    \/ ~corrupt /\ Tick /\ Observe(1)

Spec == Init /\ [][Next]_vars

-----------------------------------------------------------------------------
(* Properties.                                                             *)

\* Races lose points and never invent them: no score exceeds the number of queries
\* that were blocked for the domain, however the reads and writes of score mix.
NeverOvercounts ==
    /\ TypeOK
    /\ \A x \in Entries : entry[x] # Free => entry[x].score <= blocks[entry[x].domain]

\* A lost entry is back with the next block: a domain blocked less than DECAY_INTERVAL
\* seconds ago, by a call that met no other and was followed by no meeting, is listed
\* for export, whatever was lost before.
SureIsListed ==
    ~corrupt => \A d \in Domains : sure[d] < NotSure =>
        EntryOf(d) \in Entries /\ d \in rep_get_blocked_domains

\* Threads that record blocks lose each other's points and entries, and no more: freed
\* memory is used only after a call, or an export by SIGHUP, has met rep_decay.
CorruptOnlyByDecay == corrupt => "decay" \in races \/ mpc \in Decay

\* A domain whose score has reached 2 does not lose its last point before the zone file
\* has listed it: two intervals of decay are longer than the time between two exports,
\* as long as packets come often enough and calls meet neither each other nor rep_decay.
\* (With a score of 1 it may: the export comes after rep_decay, and a second later.)
ExportedBeforeForgotten ==
    /\ races = {}
    /\ mpc = "write" /\ points = 1 /\ entry[curr].peak > 1
    => entry[curr].domain \in zone
=============================================================================
