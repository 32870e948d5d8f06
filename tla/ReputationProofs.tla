-------------------------- MODULE ReputationProofs --------------------------
(***************************************************************************)
(* TLAPS proofs about Reputation, for any number of threads, domains and   *)
(* entries, any number of blocked queries and any intervals.               *)
(***************************************************************************)
EXTENDS Reputation, UnlockedListProofs

(* The inductive invariant.                                                *)

Record == [domain : Domains \cup {Null}, score : Nat, age : Ages, next : Pointers, peak : Nat]

Alive(ents, x) == x \in Entries => ents[x].domain # Null

\* The heap: lists end, no pointer leads to an entry that is not in use, and every entry in
\* use is reached by some pointer.
Heap ==
    /\ Acyclic(nexts(entry))
    /\ \A p \in Roots : Alive(entry, p)
    /\ \A x \in Entries : Alive(entry, entry[x].next)
    /\ \A x \in Entries : entry[x].domain # Null => x \in Reached(nexts(entry), Roots)

\* The entry whose score rep_decay has just written.
Judged(x) == mpc = "judge" /\ x = curr

\* An entry has a point only for a blocked query, and it has one until rep_decay takes it.
Counted ==
    \A x \in Entries : entry[x] # Free =>
        /\ entry[x].domain \in Domains
        /\ entry[x].score >= 1 \/ Judged(x)
        /\ entry[x].score <= blocks[entry[x].domain]

\* What a thread has in rep_record_block: an entry of its domain.  The query it is there
\* for is not yet in the score it has read.
Call(t) ==
    /\ e[t] = Null <=> pc[t] \in {"out", "make"}
    /\ pc[t] # "out" => arg[t] \in Domains
    /\ e[t] \in Entries => entry[e[t]].domain = arg[t]
    /\ pc[t] = "store" => (score[t] >= 1 \/ races # {}) /\ score[t] + 1 <= blocks[arg[t]]
    /\ pc[t] = "make" => 1 <= blocks[arg[t]]

Calls == \A t \in Threads : Call(t)

\* Where rep_decay is.
Walk ==
    /\ mpc \notin Decay => curr = Null /\ prev = Null
    /\ prev \in Entries => entry[prev].next = curr

\* What rep_decay does to an old entry: it stays old, and what was read stays its score,
\* until a call comes.
Losing ==
    mpc \in {"read", "write", "judge"} =>
        /\ curr \in Entries /\ entry[curr].domain \in Domains
        /\ mpc = "write" => points >= 1 /\ points <= blocks[entry[curr].domain]
        /\ Main \notin met => Stale(curr) /\ (mpc = "write" => points = entry[curr].score)

\* Calls that met others are under way, and after a meeting nothing is sure.
Meetings ==
    /\ met \subseteq Active
    /\ \A a, b \in Active : a # b => met = Active
    /\ met # {} => \A d \in Domains : sure[d] = NotSure
    /\ met # {} => races # {}
    /\ Main \in met => "decay" \in races

\* Every entry of the list has one pointer to it, and rep_decay is in the list.
Chain ==
    /\ \A x, y \in Entries : entry[x].next \in Entries /\ entry[x].next = entry[y].next => x = y
    /\ \A x \in Entries : entry[x].next = bucket => bucket \notin Entries
    /\ prev = Null => curr = bucket
    /\ prev \in Listed \cup {Null}

\* No pointer leads to an entry that was freed.
NoDangling == Dangling \notin Roots /\ \A x \in Entries : entry[x].next # Dangling

\* The entry that a search for d finds: every other one of d is behind it.
FirstIn(ents, head, d, p) ==
    /\ p \in Reached(nexts(ents), {head}) /\ ents[p].domain = d
    /\ \A w \in Reached(nexts(ents), {head}) :
          ents[w].domain = d => w \in Reached(nexts(ents), {p})

First(d, p) == FirstIn(entry, bucket, d, p)

\* A call that met no other has the entry of its domain, or there is none and it will be made
\* and linked.
Undisturbed ==
    met = {} => \A t \in Threads :
        /\ pc[t] = "store" => First(arg[t], e[t])
        /\ pc[t] \in {"make", "link"} => \A w \in Listed : entry[w].domain # arg[t]
        /\ pc[t] = "link" => /\ e[t] \in Entries /\ entry[e[t]].next = bucket
                             /\ entry[e[t]].peak = 1
                             /\ e[t] \notin Listed

\* A domain that is sure has an entry, as old.
Known ==
    \A d \in Domains : sure[d] < NotSure =>
        \E p \in Entries : First(d, p) /\ entry[p].age = sure[d]

\* Packets and exports.
Packets ==
    /\ mpc # "recv" => exported # Null /\ silent = 0
    /\ exported = EXPORT + 1 /\ mpc = "recv" => silent >= 1

\* How far an entry is on its way from two points to none.
Spent(x) == (IF Judged(x) THEN 0 ELSE entry[x].age) + (IF entry[x].score <= 1 THEN DECAY_INTERVAL ELSE 0)

\* How long an entry can have been there without an export.
Delay ==
    IF exported = Null THEN silent
    ELSE IF exported <= EXPORT THEN exported + Gap + 1
    ELSE EXPORT + Gap + 1 + (IF mpc = "recv" THEN silent ELSE Gap + 1)

\* What has had two points is exported, or it is not long ago.
Exported ==
    races = {} => \A x \in Entries :
        /\ entry[x].domain # Null /\ entry[x].peak > 1 /\ entry[x].score >= 1
        /\ entry[x].domain \notin zone
        => Spent(x) <= Delay

Inner ==
    /\ Heap /\ Walk /\ Calls
    /\ "decay" \notin races => NoDangling
    /\ mpc \in Decay /\ Main \notin met => Chain
    /\ Undisturbed /\ Known

IInv ==
    /\ TypeOK /\ Counted /\ Losing /\ Packets /\ Exported /\ Meetings /\ CorruptOnlyByDecay
    /\ ~corrupt => Inner

-----------------------------------------------------------------------------
(* The heap.                                                               *)

\* The fields of the entries.
LEMMA RecordFacts ==
    ASSUME NEW ents \in [Entries -> Record]
    PROVE  /\ nexts(ents) \in [Entries -> Pointers]
           /\ \A x \in Entries : /\ nexts(ents)[x] = ents[x].next /\ ents[x].next \in Pointers
                                 /\ ents[x].domain \in Domains \cup {Null}
                                 /\ ents[x].age \in Ages /\ ents[x].score \in Nat /\ ents[x].peak \in Nat
<1>1. \A x \in Entries : /\ ents[x].next \in Pointers /\ ents[x].domain \in Domains \cup {Null}
                         /\ ents[x].age \in Ages /\ ents[x].score \in Nat /\ ents[x].peak \in Nat
    BY DEF Record
<1>. QED  BY <1>1 DEF nexts

\* Memory that no entry has: no domain, no next, no score.
LEMMA FreeFacts ==
    /\ Free \in Record /\ Free.domain = Null /\ Free.next = Null
    /\ Free.score = 0 /\ Free.age = 0 /\ Free.peak = 0
<1>1. 0 \in Ages
    BY ReputationAssumption DEF Ages
<1>. QED  BY <1>1 DEF Free, Record, Pointers

\* The search of rep_record_block, by what is in the list.
LEMMA FindFacts ==
    ASSUME TypeOK, Heap, NEW d \in Domains, NEW p, p = EntryOf(d)
    PROVE  /\ p \in Pointers /\ Alive(entry, p)
           /\ p \in Entries => First(d, p)
           /\ p \notin Entries => \A w \in Listed : entry[w].domain # d
           /\ p = Dangling => Dangling \in Roots \/ \E x \in Entries : entry[x].next = Dangling
<1>. DEFINE nx == nexts(entry)
            W  == {x \in Entries : entry[x].domain = d}
<1>1. entry \in [Entries -> Record] /\ bucket \in Pointers
    BY DEF TypeOK, Record
<1>2. nx \in [Entries -> Pointers] /\ \A x \in Entries : nx[x] = entry[x].next
    BY <1>1, RecordFacts
<1>3. Acyclic(nx) /\ W \in SUBSET Entries /\ p = Search(bucket, nx, W)
    BY DEF Heap, EntryOf
<1>4. Listed = Reached(nx, {bucket}) /\ Listed \subseteq Entries
    BY ReachedFacts DEF Listed
<1>. HIDE DEF nx
<1>5. /\ p \in {bucket} \cup {nx[x] : x \in Entries}
      /\ p \in Entries => /\ p \in W /\ p \in Listed
                          /\ \A w \in W \cap Listed : w \in Reached(nx, {p})
      /\ p \notin Entries => W \cap Listed = {}
    <2>1. nx \in [Entries -> Pointers] /\ bucket \in Pointers
        BY <1>1, <1>2
    <2>. HIDE DEF W
    <2>2. /\ p \in {bucket} \cup {nx[x] : x \in Entries}
          /\ p \in Entries => /\ p \in W /\ p \in Reached(nx, {bucket})
                              /\ \A w \in W \cap Reached(nx, {bucket}) : w \in Reached(nx, {p})
          /\ p \notin Entries => W \cap Reached(nx, {bucket}) = {}
        BY <1>3, <2>1, SearchFacts
    <2>. QED  BY <1>4, <2>2
<1>6. p \in Pointers /\ Alive(entry, p)
    BY <1>1, <1>2, <1>5 DEF Heap, Roots
<1>7. p \in Entries => First(d, p)
    BY <1>4, <1>5 DEF First, FirstIn, nx, Listed
<1>8. p \notin Entries => \A w \in Listed : entry[w].domain # d
    BY <1>4, <1>5
<1>9. p = Dangling => Dangling \in Roots \/ \E x \in Entries : entry[x].next = Dangling
    BY <1>2, <1>5 DEF Roots
<1>. QED  BY <1>6, <1>7, <1>8, <1>9

\* There is one first entry of a domain.
LEMMA FirstUnique ==
    ASSUME Heap, NEW d, NEW p, NEW q, First(d, p), First(d, q)
    PROVE  p = q
<1>1. Acyclic(nexts(entry)) /\ p \in Entries /\ q \in Entries
    BY ReachedFacts DEF Heap, First, FirstIn
<1>2. p \in Reached(nexts(entry), {q}) /\ q \in Reached(nexts(entry), {p})
    BY DEF First, FirstIn
<1>. QED  BY <1>1, <1>2, Antisymmetric

\* An assignment of entries, after which what has leaked is forgotten: nothing changes for
\* what some pointer still leads to.
LEMMA AssignFacts ==
    ASSUME NEW ents \in [Entries -> Record], Assign(ents), Acyclic(nexts(ents)),
           \A p \in Roots' : Alive(ents, p),
           \A x \in Entries : Alive(ents, ents[x].next)
    PROVE  /\ entry' \in [Entries -> Record] /\ Heap'
           /\ \A x \in Entries : (entry'[x] = ents[x] /\ ents[x].domain # Null) \/ entry'[x] = Free
           /\ \A p \in Roots' \cap Entries : entry'[p] = ents[p]
           /\ \A d, p : First(d, p)' <=> FirstIn(ents, bucket', d, p)
           /\ Listed' = Reached(nexts(ents), {bucket'})
           /\ \A x \in Listed' : entry'[x] = ents[x]
<1>. USE ListAssumption
<1>. DEFINE kept == Reached(nexts(ents), Roots')
            nx   == nexts(ents)
            ny   == nexts(entry')
<1>1. entry' = [x \in Entries |-> IF x \in kept THEN ents[x] ELSE Free]
    BY DEF Assign
<1>2. kept \subseteq Entries /\ Roots' \cap Entries \subseteq kept /\ Closed(nx, kept)
    BY ReachedFacts
<1>. HIDE DEF kept
<1>3. /\ entry' \in [Entries -> Record]
      /\ \A x \in kept : entry'[x] = ents[x]
      /\ \A x \in Entries \ kept : entry'[x] = Free
    BY <1>1, <1>2, FreeFacts
<1>4. /\ nx \in [Entries -> Pointers] /\ \A x \in Entries : nx[x] = ents[x].next
      /\ ny \in [Entries -> Pointers] /\ \A x \in Entries : ny[x] = entry'[x].next
    BY <1>3, RecordFacts
<1>. HIDE DEF nx, ny
<1>5. /\ \A x \in kept : ny[x] = nx[x]
      /\ \A x \in Entries \ kept : ny[x] = Null
    BY <1>2, <1>3, <1>4, FreeFacts
<1>6. Acyclic(ny)
    <2>. SUFFICES ASSUME NEW D \in SUBSET Entries, D # {} PROVE \E x \in D : ny[x] \notin D
        BY DEF Acyclic
    <2>1. PICK x \in D : nx[x] \notin D
        BY DEF Acyclic, nx
    <2>. QED  BY <1>5, <2>1
<1>7. \A p \in Roots' : Alive(entry', p)
    BY <1>2, <1>3 DEF Alive
<1>8. ASSUME NEW x \in Entries PROVE Alive(entry', entry'[x].next)
    <2>1. CASE x \in kept
        <3>1. entry'[x].next \in Entries => entry'[x].next \in kept
            BY <1>2, <1>4, <1>5, <2>1 DEF Closed
        <3>. QED  BY <1>3, <2>1, <3>1 DEF Alive
    <2>2. CASE x \notin kept
        BY <1>3, <2>2, FreeFacts DEF Alive
    <2>. QED  BY <2>1, <2>2
<1>9. ASSUME NEW roots, roots \cap Entries \subseteq kept
      PROVE  Reached(nx, roots) = Reached(ny, roots) /\ Reached(nx, roots) \subseteq kept
    BY <1>2, <1>5, <1>9, SameReach
<1>10. \A x \in Entries : entry'[x].domain # Null => x \in Reached(ny, Roots')
    <2>1. kept = Reached(ny, Roots')
        BY <1>2, <1>9 DEF kept, nx
    <2>. QED  BY <1>3, <2>1, FreeFacts
<1>11. \A x \in kept : ents[x].domain # Null
    <2>. DEFINE C == {x \in Entries : ents[x].domain # Null}
    <2>1. C \in SUBSET Entries /\ Roots' \cap Entries \subseteq C /\ Closed(nx, C)
        BY <1>4 DEF Alive, Closed
    <2>2. kept \subseteq C
        BY <2>1, ReachedFacts DEF kept, nx
    <2>. QED  BY <2>2
<1>12. Heap'
    BY <1>6, <1>7, <1>8, <1>10 DEF Heap, ny, Roots, nexts, Alive, Acyclic
<1>13. /\ Reached(nx, {bucket'}) = Reached(ny, {bucket'})
       /\ Reached(nx, {bucket'}) \subseteq kept
    <2>1. {bucket'} \cap Entries \subseteq kept
        BY <1>2 DEF Roots
    <2>. QED  BY <1>9, <2>1
<1>14. Listed' = Reached(nx, {bucket'}) /\ \A x \in Listed' : entry'[x] = ents[x]
    BY <1>3, <1>13 DEF Listed, ny, nexts
<1>15. \A p \in kept : Reached(nx, {p}) = Reached(ny, {p})
    BY <1>9
<1>16. ASSUME NEW d, NEW p PROVE First(d, p)' <=> FirstIn(ents, bucket', d, p)
    <2>1. First(d, p)' <=> FirstIn(entry', bucket', d, p)
        BY DEF First, FirstIn, nexts
    <2>2. FirstIn(entry', bucket', d, p) <=>
            /\ p \in Reached(ny, {bucket'}) /\ entry'[p].domain = d
            /\ \A w \in Reached(ny, {bucket'}) : entry'[w].domain = d => w \in Reached(ny, {p})
        BY DEF FirstIn, ny
    <2>3. FirstIn(ents, bucket', d, p) <=>
            /\ p \in Reached(nx, {bucket'}) /\ ents[p].domain = d
            /\ \A w \in Reached(nx, {bucket'}) : ents[w].domain = d => w \in Reached(nx, {p})
        BY DEF FirstIn, nx
    <2>. QED  BY <1>3, <1>13, <1>15, <2>1, <2>2, <2>3
<1>17. \A p \in Roots' \cap Entries : entry'[p] = ents[p]
    BY <1>2, <1>3
<1>18. \A x \in Entries : (entry'[x] = ents[x] /\ ents[x].domain # Null) \/ entry'[x] = Free
    BY <1>3, <1>11
<1>. QED  BY <1>3, <1>12, <1>14, <1>16, <1>17, <1>18 DEF nx

\* The pointers lead to more, and the entries stay.
LEMMA HeapGrows ==
    ASSUME Heap, entry' = entry, Roots \cap Entries \subseteq Roots',
           \A p \in Roots' : p \in Roots \/ Alive(entry, p)
    PROVE  Heap'
<1>. DEFINE nx == nexts(entry)
<1>1. Reached(nx, Roots) \subseteq Reached(nx, Roots')
    <2>1. /\ Reached(nx, Roots') \in SUBSET Entries /\ Closed(nx, Reached(nx, Roots'))
          /\ Roots \cap Entries \subseteq Reached(nx, Roots')
        BY ReachedFacts
    <2>. QED  BY <2>1, ReachedFacts
<1>. HIDE DEF nx
<1>2. nexts(entry)' = nx /\ nexts(entry) = nx
    BY DEF nx, nexts
<1>3. \A x \in Entries : entry'[x].domain # Null => x \in Reached(nexts(entry)', Roots')
    BY <1>1, <1>2 DEF Heap
<1>4. \A p \in Roots' : Alive(entry', p)
    BY DEF Heap
<1>. QED  BY <1>2, <1>3, <1>4 DEF Heap, Alive, Acyclic

\* The list as it was has the first entries that it had.
LEMMA SameList ==
    ASSUME entry' = entry, bucket' = bucket
    PROVE  /\ Listed' = Listed
           /\ \A d, p : First(d, p)' <=> First(d, p)
BY DEF Listed, First, FirstIn, nexts

\* The list and its first entries depend only on the nexts and the domains along it.
LEMMA SameFirst ==
    ASSUME NEW ents \in [Entries -> Record], NEW entt \in [Entries -> Record], NEW h,
           \A y \in Reached(nexts(ents), {h}) : /\ entt[y].next = ents[y].next
                                                /\ entt[y].domain = ents[y].domain
    PROVE  /\ Reached(nexts(entt), {h}) = Reached(nexts(ents), {h})
           /\ \A d, p : FirstIn(entt, h, d, p) <=> FirstIn(ents, h, d, p)
<1>. DEFINE nx == nexts(ents)
            ny == nexts(entt)
            K  == Reached(nx, {h})
<1>1. K \in SUBSET Entries /\ Closed(nx, K) /\ {h} \cap Entries \subseteq K
    BY ReachedFacts
<1>2. \A y \in Entries : nx[y] = ents[y].next /\ ny[y] = entt[y].next
    BY RecordFacts
<1>3. \A y \in K : nx[y] = ny[y] /\ entt[y].domain = ents[y].domain
    BY <1>1, <1>2
<1>4. K = Reached(nx, {h})
    OBVIOUS
<1>. HIDE DEF nx, ny, K
<1>5. Reached(nx, {h}) = Reached(ny, {h})
    BY <1>1, <1>3, SameReach
<1>6. ASSUME NEW p \in K PROVE Reached(ny, {p}) = Reached(nx, {p})
    <2>1. {p} \cap Entries \subseteq K
        OBVIOUS
    <2>. QED  BY <1>1, <1>3, <2>1, SameReach
<1>7. ASSUME NEW d, NEW p PROVE FirstIn(entt, h, d, p) <=> FirstIn(ents, h, d, p)
    <2>1. FirstIn(ents, h, d, p) <=> /\ p \in K /\ ents[p].domain = d
                                     /\ \A w \in K : ents[w].domain = d => w \in Reached(nx, {p})
        BY DEF FirstIn, nx, K
    <2>2. FirstIn(entt, h, d, p) <=> /\ p \in Reached(ny, {h}) /\ entt[p].domain = d
                                     /\ \A w \in Reached(ny, {h}) : entt[w].domain = d => w \in Reached(ny, {p})
        BY DEF FirstIn, ny
    <2>3. Reached(ny, {h}) = K
        BY <1>4, <1>5
    <2>4. CASE p \in K
        BY <1>3, <1>6, <2>1, <2>2, <2>3, <2>4
    <2>5. CASE p \notin K
        BY <2>1, <2>2, <2>3, <2>5
    <2>. QED  BY <2>4, <2>5
<1>. QED  BY <1>5, <1>7 DEF nx, ny

\* What a pointer of the program leads to is in use.
LEMMA ReachedAlive ==
    ASSUME entry \in [Entries -> Record], Heap, NEW roots \in SUBSET Roots,
           NEW y \in Reached(nexts(entry), roots)
    PROVE  y \in Entries /\ entry[y].domain # Null
<1>. DEFINE C == {x \in Entries : entry[x].domain # Null}
<1>1. C \in SUBSET Entries /\ roots \cap Entries \subseteq C
    BY DEF Heap, Alive
<1>2. Closed(nexts(entry), C)
    BY RecordFacts DEF Heap, Alive, Closed
<1>. QED  BY <1>1, <1>2, ReachedFacts

\* Entries that change in place leave the list as it is.
LEMMA InPlace ==
    ASSUME entry \in [Entries -> Record], Heap, NEW ents \in [Entries -> Record],
           \A y \in Entries : ents[y].domain = entry[y].domain /\ ents[y].next = entry[y].next,
           Assign(ents), bucket' = bucket, \A p \in Roots' : Alive(entry, p)
    PROVE  /\ entry' \in [Entries -> Record] /\ Heap'
           /\ \A x \in Entries : (entry'[x] = ents[x] /\ ents[x].domain # Null) \/ entry'[x] = Free
           /\ \A p \in Roots' \cap Entries : entry'[p] = ents[p]
           /\ \A d, p : First(d, p)' <=> First(d, p)
           /\ Listed' = Listed
           /\ \A y \in Listed : entry'[y] = ents[y]
<1>1. nexts(ents) = nexts(entry)
    BY DEF nexts
<1>2. /\ Acyclic(nexts(ents))
      /\ \A p \in Roots' : Alive(ents, p)
      /\ \A y \in Entries : Alive(ents, ents[y].next)
    BY <1>1 DEF Heap, Alive
<1>3. /\ entry' \in [Entries -> Record] /\ Heap'
      /\ \A x \in Entries : (entry'[x] = ents[x] /\ ents[x].domain # Null) \/ entry'[x] = Free
      /\ \A p \in Roots' \cap Entries : entry'[p] = ents[p]
      /\ \A d, p : First(d, p)' <=> FirstIn(ents, bucket', d, p)
      /\ Listed' = Reached(nexts(ents), {bucket'})
      /\ \A y \in Listed' : entry'[y] = ents[y]
    BY <1>2, AssignFacts
<1>4. Listed' = Listed /\ Listed \subseteq Entries
    BY <1>1, <1>3, ReachedFacts DEF Listed
<1>5. \A y \in Reached(nexts(entry), {bucket}) : ents[y].next = entry[y].next /\ ents[y].domain = entry[y].domain
    BY <1>4 DEF Listed
<1>6. \A d, p : FirstIn(ents, bucket, d, p) <=> FirstIn(entry, bucket, d, p)
    BY <1>5, SameFirst
<1>7. \A d, p : First(d, p)' <=> First(d, p)
    BY <1>3, <1>6 DEF First
<1>. QED  BY <1>3, <1>4, <1>7

-----------------------------------------------------------------------------
(* The history.                                                            *)

\* More than one is active when two are.
LEMMA ManyActive ==
    ASSUME NEW S \in SUBSET (Threads \cup {Main})
    PROVE  Cardinality(S) > 1 <=> \E a, b \in S : a # b
<1>1. IsFiniteSet(Threads \cup {Main})
    BY ReputationAssumption, FS_AddElement
<1>2. IsFiniteSet(S)
    BY <1>1, FS_Subset
<1>. QED  BY <1>2, TwoOrMore

\* What every step leaves in the history.
LEMMA Observed ==
    ASSUME TypeOK, Meetings, Observe(0) \/ Observe(1)
    PROVE  /\ met' \subseteq Threads \cup {Main} /\ races' \subseteq {"calls", "decay"}
           /\ met' = IF \E a, b \in Active' : a # b THEN Active' ELSE met \cap Active'
           /\ Meetings' /\ races \subseteq races'
           /\ mpc' \in Decay /\ Calling' # {} => Main \in met' /\ "decay" \in races'
           /\ races' = {} => races = {} /\ met = {} /\ met' = {}
<1>. USE ReputationAssumption
<1>1. Calling' \in SUBSET (Threads \cup {Main}) /\ Active' \in SUBSET (Threads \cup {Main})
    BY DEF Calling, Active
<1>2. met' = IF \E a, b \in Active' : a # b THEN Active' ELSE met \cap Active'
    <2>1. Cardinality(Active') > 1 <=> \E a, b \in Active' : a # b
        BY <1>1, ManyActive
    <2>. QED  BY <2>1 DEF Observe
<1>3. /\ races \subseteq races' /\ races' \subseteq races \cup {"calls", "decay"}
      /\ (\E a, b \in Calling' : a # b) => "calls" \in races'
      /\ Calling' # {} /\ mpc' \in Decay => "decay" \in races'
    <2>1. Cardinality(Calling') > 1 <=> \E a, b \in Calling' : a # b
        BY <1>1, ManyActive
    <2>. QED  BY <2>1 DEF Observe
<1>4. met' # {} => \A d \in Domains : sure'[d] = NotSure
    BY DEF Observe
<1>5. ASSUME mpc' \in Decay, Calling' # {} PROVE Main \in met' /\ "decay" \in races'
    <2>1. PICK t \in Calling' : TRUE
        BY <1>5
    <2>2. t \in Active' /\ Main \in Active' /\ t # Main
        BY <1>5, <2>1 DEF Active, Calling
    <2>. QED  BY <1>2, <1>3, <1>5, <2>2
<1>6. ASSUME NEW a \in Active', NEW b \in Active', a # b
      PROVE  races' # {} /\ (Main \in Active' => "decay" \in races')
    <2>1. CASE mpc' \in Decay
        <3>1. Active' = Calling' \cup {Main}
            BY <2>1 DEF Active
        <3>2. Calling' # {}
            BY <1>6, <3>1
        <3>. QED  BY <1>5, <2>1, <3>2
    <2>2. CASE mpc' \notin Decay
        <3>1. Active' = Calling' /\ Main \notin Calling'
            BY <2>2 DEF Active, Calling
        <3>. QED  BY <1>3, <1>6, <3>1
    <2>. QED  BY <2>1, <2>2
<1>7. (met' # {} => races' # {}) /\ (Main \in met' => "decay" \in races')
    <2>1. CASE \E a, b \in Active' : a # b
        BY <1>2, <1>6, <2>1
    <2>2. CASE ~\E a, b \in Active' : a # b
        BY <1>2, <1>3, <2>2 DEF Meetings
    <2>. QED  BY <2>1, <2>2
<1>8. Meetings'
    <2>1. met' \subseteq Active' /\ \A a, b \in Active' : a # b => met' = Active'
        BY <1>2
    <2>2. NotSure' = NotSure
        BY DEF NotSure
    <2>. QED  BY <1>4, <1>7, <2>1, <2>2 DEF Meetings
<1>9. met' \subseteq Threads \cup {Main} /\ races' \subseteq {"calls", "decay"}
    BY <1>1, <1>2, <1>3 DEF TypeOK
<1>10. races' = {} => races = {} /\ met = {} /\ met' = {}
    BY <1>3, <1>7 DEF Meetings
<1>. QED  BY <1>2, <1>3, <1>5, <1>8, <1>9, <1>10

\* A step that begins or ends at most one call disturbs nobody who was undisturbed, and
\* after a meeting nothing becomes sure.
LEMMA Settled ==
    ASSUME TypeOK, Meetings, Observe(0), Active \subseteq Active' \/ Active' \subseteq Active
    PROVE  /\ met' = {} => \A a, b \in Active' : a = b
           /\ met' = {} /\ met # {} => Active' = {}
           /\ met # {} \/ met' # {} => \A d \in Domains : sure'[d] = NotSure
           /\ DOMAIN sure' = Domains
<1>1. /\ Meetings'
      /\ met' = IF \E a, b \in Active' : a # b THEN Active' ELSE met \cap Active'
    BY Observed
<1>2. met' = {} => \A a, b \in Active' : a = b
    BY <1>1 DEF Meetings
<1>3. ASSUME met' = {}, met # {} PROVE Active' = {}
    <2>. SUFFICES ASSUME NEW u \in Active' PROVE FALSE
        OBVIOUS
    <2>1. met \cap Active' = {}
        BY <1>1, <1>2, <1>3
    <2>2. PICK a \in met : TRUE
        BY <1>3
    <2>3. a \in Active /\ a \notin Active'
        BY <2>1, <2>2 DEF Meetings
    <2>4. u \in Active /\ u # a
        BY <2>3
    <2>5. met = Active
        BY <2>3, <2>4 DEF Meetings
    <2>. QED  BY <2>1, <2>4, <2>5
<1>4. ASSUME met # {}, met' = {}, NEW d \in Domains PROVE sure'[d] = NotSure
    <2>. DEFINE ended == Calling \ (Calling' \cup met)
    <2>1. ended = {}
        <3>. SUFFICES ASSUME NEW u \in ended PROVE FALSE
            OBVIOUS
        <3>1. PICK a \in met : TRUE
            BY <1>4
        <3>2. a \in Active /\ u \in Active /\ u # a
            BY <3>1 DEF Meetings, Active
        <3>. QED  BY <3>2 DEF Meetings
    <2>2. sure'[d] = sure[d]
        BY <1>4, <2>1 DEF Observe
    <2>. QED  BY <1>4, <2>2 DEF Meetings
<1>5. met' # {} => \A d \in Domains : sure'[d] = NotSure
    BY DEF Observe
<1>6. DOMAIN sure' = Domains
    BY DEF Observe
<1>. QED  BY <1>2, <1>3, <1>4, <1>5, <1>6

\* While no call ends, what is sure stays as it is.
LEMMA SureStays ==
    ASSUME TypeOK, Observe(0), met' = {}, Calling \subseteq Calling'
    PROVE  sure' = sure
<1>1. Calling \ (Calling' \cup met) = {}
    OBVIOUS
<1>2. \A d \in Domains : sure'[d] = sure[d]
    BY <1>1 DEF Observe
<1>. QED  BY <1>2 DEF Observe, TypeOK

\* A call that ends without having met another makes its domain sure.
LEMMA SureEnds ==
    ASSUME TypeOK, Observe(0), met = {}, met' = {}, NEW t \in Calling, Calling' = Calling \ {t}
    PROVE  \A d \in Domains : sure'[d] = IF arg[t] = d THEN entry'[e[t]].age ELSE sure[d]
<1>. DEFINE ended == Calling \ (Calling' \cup met)
<1>1. ended = {t}
    OBVIOUS
<1>. SUFFICES ASSUME NEW d \in Domains
              PROVE  sure'[d] = IF arg[t] = d THEN entry'[e[t]].age ELSE sure[d]
    OBVIOUS
<1>2. sure'[d] = IF \E u \in ended : arg[u] = d
                 THEN entry'[e[CHOOSE u \in ended : arg[u] = d]].age ELSE sure[d]
    BY DEF Observe
<1>3. arg[t] = d => (CHOOSE u \in ended : arg[u] = d) = t
    BY <1>1
<1>. HIDE DEF ended
<1>. QED  BY <1>1, <1>2, <1>3

-----------------------------------------------------------------------------
(* The export.                                                             *)

\* What is there before a step.
CodeTypes ==
    /\ bucket \in Pointers
    /\ entry \in [Entries -> Record]
    /\ pc \in [Threads -> {"out", "store", "make", "link"}]
    /\ arg \in [Threads -> Domains \cup {Null}]
    /\ e \in [Threads -> Pointers]
    /\ score \in [Threads -> Nat]
    /\ mpc \in {"recv", "export"} \cup Decay
    /\ curr \in Pointers /\ prev \in Entries \cup {Null} /\ points \in Nat
    /\ decayed \in Ages
    /\ exported \in 0..(EXPORT + 1) \cup {Null}
    /\ silent \in 0..(Gap + 1)
    /\ zone \subseteq Domains
    /\ corrupt \in BOOLEAN
    /\ blocks \in [Domains -> Nat]

LEMMA BeforeStep ==
    ASSUME IInv, ~corrupt
    PROVE  /\ TypeOK /\ CodeTypes /\ Counted /\ Losing /\ Packets /\ Exported
           /\ Heap /\ Walk /\ Calls /\ Meetings /\ Undisturbed /\ Known
           /\ "decay" \notin races => NoDangling
           /\ mpc \in Decay /\ Main \notin met => Chain
BY DEF IInv, Inner, TypeOK, CodeTypes, Record

\* While rep_decay runs and has met no call, there is none, and no other pointer.
LEMMA DecayAlone ==
    ASSUME Meetings, Calls, mpc \in Decay, Main \notin met
    PROVE  \A t \in Threads : pc[t] = "out" /\ e[t] = Null
<1>. SUFFICES ASSUME NEW t \in Threads, pc[t] # "out" PROVE FALSE
    BY DEF Calls, Call
<1>1. t \in Active /\ Main \in Active /\ t # Main
    BY ReputationAssumption DEF Active, Calling
<1>. QED  BY <1>1 DEF Meetings

\* Until calls meet, every entry is in the list, but for one that is about to be linked.
LEMMA AllListed ==
    ASSUME IInv, ~corrupt, met = {}, NEW x \in Entries, entry[x].domain # Null, entry[x].peak > 1
    PROVE  x \in Listed
<1>. USE ListAssumption, ReputationAssumption
<1>1. /\ CodeTypes /\ Heap /\ Walk /\ Calls /\ Meetings /\ Undisturbed
      /\ mpc \in Decay => Chain
    BY BeforeStep
<1>. DEFINE nx == nexts(entry)
            new == {e[t] : t \in {u \in Threads : pc[u] = "link"}}
            C == Listed \cup new
<1>2. /\ Listed \in SUBSET Entries /\ Closed(nx, Listed) /\ {bucket} \cap Entries \subseteq Listed
      /\ \A y \in Entries : nx[y] = entry[y].next
    BY <1>1, ReachedFacts, RecordFacts DEF Listed, CodeTypes
<1>3. \A y \in new : y \in Entries /\ entry[y].next = bucket /\ entry[y].peak = 1
    BY <1>1 DEF Undisturbed
<1>4. C \in SUBSET Entries /\ Closed(nx, C)
    <2>. HIDE DEF nx, new
    <2>. QED  BY <1>2, <1>3 DEF Closed
<1>5. \A t \in Threads : e[t] \in Entries => e[t] \in C
    <2>. SUFFICES ASSUME NEW t \in Threads, e[t] \in Entries PROVE e[t] \in C
        OBVIOUS
    <2>1. CASE pc[t] = "out"
        BY <1>1, <2>1 DEF Calls, Call
    <2>2. CASE pc[t] = "store"
        BY <1>1, <2>2 DEF Undisturbed, First, FirstIn, Listed
    <2>3. CASE pc[t] = "link"
        BY <2>3
    <2>4. CASE pc[t] = "make"
        BY <1>1, <2>4 DEF Calls, Call
    <2>. QED  BY <1>1, <2>1, <2>2, <2>3, <2>4 DEF CodeTypes
<1>6. (curr \in Entries => curr \in C) /\ (prev \in Entries => prev \in C)
    <2>1. CASE mpc \notin Decay
        BY <1>1, <2>1 DEF Walk
    <2>2. CASE mpc \in Decay
        <3>1. prev \in Listed \/ prev = Null
            BY <1>1, <2>2 DEF Chain
        <3>2. prev \in Listed => entry[prev].next = curr /\ nx[prev] = curr
            BY <1>1, <1>2 DEF Walk
        <3>3. prev = Null => curr = bucket
            BY <1>1, <2>2 DEF Chain
        <3>. HIDE DEF nx
        <3>. QED  BY <1>2, <3>1, <3>2, <3>3 DEF Closed
    <2>. QED  BY <2>1, <2>2
<1>7. Roots \cap Entries \subseteq C
    BY <1>2, <1>5, <1>6 DEF Roots
<1>8. x \in C
    <2>1. x \in Reached(nx, Roots)
        BY <1>1 DEF Heap
    <2>. QED  BY <1>4, <1>7, <2>1, ReachedFacts
<1>. QED  BY <1>3, <1>8

\* An export lists what has had two points, and uses freed memory only after a call has met
\* rep_decay, or while it runs.
LEMMA ExportFacts ==
    ASSUME IInv, ~corrupt, Export
    PROVE  /\ corrupt' \in BOOLEAN /\ zone' \subseteq Domains
           /\ corrupt' => "decay" \in races \/ mpc \in Decay
           /\ races = {} => \A x \in Entries :
                 entry[x].domain # Null /\ entry[x].peak > 1 /\ entry[x].score >= 1
                 => entry[x].domain \in zone'
<1>. USE ListAssumption, ReputationAssumption
<1>. DEFINE Meets == \E x \in Listed \cup {bucket} :
                         x = Dangling \/ (x \in Entries /\ entry[x].next = Dangling)
<1>1. /\ TypeOK /\ CodeTypes /\ Counted /\ Heap /\ Meetings
      /\ "decay" \notin races => NoDangling
    BY BeforeStep
<1>2. Listed \subseteq Entries /\ \A x \in Listed : entry[x].domain # Null
    <2>1. {bucket} \in SUBSET Roots
        BY DEF Roots
    <2>. QED  BY <1>1, <2>1, ReachedAlive DEF Listed, CodeTypes
<1>3. \A x \in Listed : entry[x].domain \in Domains /\ entry[x].score \in Nat
    BY <1>1, <1>2, RecordFacts, FreeFacts DEF Counted, CodeTypes
<1>4. CASE Meets
    <2>1. corrupt' = TRUE /\ zone' = zone
        BY <1>4 DEF Export
    <2>2. "decay" \in races
        BY <1>1, <1>2, <1>4 DEF NoDangling, Roots
    <2>. QED  BY <1>1, <2>1, <2>2 DEF CodeTypes
<1>5. CASE ~Meets
    <2>1. /\ corrupt' \in BOOLEAN /\ (corrupt' => mpc \in Decay)
          /\ zone' = rep_get_blocked_domains
        BY <1>5 DEF Export
    <2>2. zone' = {entry[x].domain : x \in {y \in Listed : entry[y].score > 0}}
        BY <2>1 DEF rep_get_blocked_domains
    <2>3. zone' \subseteq Domains
        BY <1>3, <2>2
    <2>4. ASSUME races = {}, NEW x \in Entries, entry[x].domain # Null, entry[x].peak > 1,
                 entry[x].score >= 1
          PROVE  entry[x].domain \in zone'
        <3>1. met = {}
            BY <1>1, <2>4 DEF Meetings
        <3>2. x \in Listed
            BY <2>4, <3>1, AllListed
        <3>3. entry[x].score > 0
            BY <1>3, <2>4, <3>2
        <3>. QED  BY <2>2, <3>2, <3>3
    <2>. QED  BY <2>1, <2>3, <2>4
<1>. QED  BY <1>4, <1>5

Measured == Delay \in Nat /\ \A x \in Entries : Spent(x) \in Nat

\* Both are numbers of seconds.
LEMMA MeasuredHolds == CodeTypes => Measured
<1>. SUFFICES ASSUME CodeTypes PROVE Measured
    OBVIOUS
<1>1. /\ EXPORT \in Nat /\ Gap \in Nat
      /\ exported # Null => exported \in 0..(EXPORT + 1)
      /\ silent \in 0..(Gap + 1)
    BY ReputationAssumption DEF CodeTypes
<1>2. Delay \in Nat
    BY <1>1 DEF Delay
<1>3. ASSUME NEW x \in Entries PROVE Spent(x) \in Nat
    <2>1. entry[x].age \in Nat /\ DECAY_INTERVAL \in Nat
        <3>1. entry[x].age \in Ages
            BY RecordFacts DEF CodeTypes
        <3>. QED  BY <3>1, ReputationAssumption DEF Ages
    <2>2. \A a, b \in Nat : a + b \in Nat
        OBVIOUS
    <2>3. /\ (IF Judged(x) THEN 0 ELSE entry[x].age) \in Nat
          /\ (IF entry[x].score <= 1 THEN DECAY_INTERVAL ELSE 0) \in Nat
        BY <2>1
    <2>4. Spent(x) = (IF Judged(x) THEN 0 ELSE entry[x].age)
                     + (IF entry[x].score <= 1 THEN DECAY_INTERVAL ELSE 0)
        BY DEF Spent
    <2>. QED  BY ONLY <2>2, <2>3, <2>4
<1>. QED  BY <1>2, <1>3 DEF Measured

\* The zone stays, and no entry is further on its way than before: what was not long ago
\* still is not.
LEMMA ExportedStays ==
    ASSUME Exported, CodeTypes, CodeTypes', zone' = zone, Delay <= Delay', races \subseteq races',
           \A x \in Entries :
               /\ races' = {} /\ entry'[x].domain # Null
               /\ entry'[x].peak > 1 /\ entry'[x].score >= 1
               => \/ Spent(x)' = 0
                  \/ /\ entry'[x].domain = entry[x].domain
                     /\ entry[x].peak > 1 /\ entry[x].score >= 1
                     /\ Spent(x)' <= Spent(x)
    PROVE  Exported'
<1>. USE ListAssumption, ReputationAssumption
<1>0. Measured /\ Measured'
    BY MeasuredHolds, PTL
<1>1. Delay \in Nat /\ Delay' \in Nat
    BY <1>0 DEF Measured
<1>2. \A x \in Entries : Spent(x) \in Nat /\ Spent(x)' \in Nat
    BY <1>0 DEF Measured
<1>3. ASSUME races' = {}, NEW x \in Entries, entry'[x].domain # Null, entry'[x].peak > 1,
             entry'[x].score >= 1, entry'[x].domain \notin zone'
      PROVE  Spent(x)' <= Delay'
    <2>1. CASE Spent(x)' = 0
        BY <1>1, <2>1
    <2>2. CASE /\ entry'[x].domain = entry[x].domain /\ entry[x].peak > 1 /\ entry[x].score >= 1
               /\ Spent(x)' <= Spent(x)
        <3>1. Spent(x) <= Delay
            BY <1>3, <2>2 DEF Exported
        <3>. QED  BY <1>1, <1>2, <2>2, <3>1
    <2>. QED  BY <1>3, <2>1, <2>2
<1>. QED  BY <1>3 DEF Exported

-----------------------------------------------------------------------------
(* The steps of rep_record_block.                                          *)

\* What a step of a thread or of main has to show.
LEMMA StepIInv ==
    ASSUME IInv, ~corrupt, Observe(0), Active \subseteq Active' \/ Active' \subseteq Active,
           CodeTypes', Counted', Losing', Packets', Exported', CorruptOnlyByDecay',
           met = {} /\ met' = {} => sure' \in [Domains -> Ages],
           ~corrupt' => Heap' /\ Walk' /\ Calls',
           ~corrupt' /\ "decay" \notin races' => NoDangling',
           ~corrupt' /\ mpc' \in Decay /\ Main \notin met' => Chain',
           /\ ~corrupt' /\ met = {} /\ met' = {} /\ \A a, b \in Active' : a = b
           => Undisturbed' /\ Known'
    PROVE  IInv'
<1>1. TypeOK /\ Meetings
    BY BeforeStep
<1>2. met' \subseteq Threads \cup {Main} /\ races' \subseteq {"calls", "decay"} /\ Meetings'
    BY <1>1, Observed
<1>3. /\ met' = {} => \A a, b \in Active' : a = b
      /\ met' = {} /\ met # {} => Active' = {}
      /\ met # {} \/ met' # {} => \A d \in Domains : sure'[d] = NotSure
      /\ DOMAIN sure' = Domains
    BY <1>1, Settled
<1>4. NotSure \in Ages /\ ~(NotSure < NotSure)
    BY ReputationAssumption DEF NotSure, Ages
<1>5. sure' \in [Domains -> Ages]
    <2>1. sure' = [d \in Domains |-> sure'[d]]
        BY DEF Observe
    <2>. QED  BY <1>3, <1>4, <2>1
<1>6. TypeOK'
    BY <1>2, <1>5 DEF CodeTypes, TypeOK, Record
<1>. SUFFICES ASSUME ~corrupt' PROVE Undisturbed' /\ Known'
    BY <1>2, <1>6 DEF IInv, Inner
<1>7. met # {} \/ met' # {} => Known'
    <2>1. NotSure' = NotSure
        BY DEF NotSure
    <2>. QED  BY <1>3, <1>4, <2>1 DEF Known
<1>8. met' # {} => Undisturbed'
    BY DEF Undisturbed
<1>9. Active' = {} => Undisturbed'
    <2>1. Active' = {} => \A t \in Threads : pc'[t] = "out"
        BY DEF Active, Calling
    <2>. QED  BY <2>1 DEF Undisturbed
<1>. QED  BY <1>3, <1>7, <1>8, <1>9

\* A thread begins a call: the others stay as they are.
LEMMA ActiveGrows ==
    ASSUME NEW t \in Threads, NEW at, pc' = [pc EXCEPT ![t] = at], at # "out", mpc' = mpc, CodeTypes
    PROVE  /\ Active \subseteq Active' /\ t \in Calling' /\ Calling \subseteq Calling'
           /\ (\A a, b \in Active' : a = b) => Calling' = {t} /\ mpc \notin Decay
<1>1. Calling' = Calling \cup {t}
    BY DEF CodeTypes, Calling
<1>2. Active' = Active \cup {t} /\ (mpc \in Decay => Main \in Active')
    BY <1>1 DEF Active
<1>3. Calling' \subseteq Active' /\ Main # t
    BY ReputationAssumption DEF Active
<1>. QED  BY <1>1, <1>2, <1>3

\* A thread ends its call.
LEMMA ActiveShrinks ==
    ASSUME NEW t \in Threads, pc[t] # "out", pc' = [pc EXCEPT ![t] = "out"], mpc' = mpc, CodeTypes
    PROVE  /\ t \in Calling /\ Calling' = Calling \ {t}
           /\ t \in Active /\ Active' = Active \ {t}
<1>1. t \in Calling /\ Calling' = Calling \ {t}
    BY DEF CodeTypes, Calling
<1>. QED  BY <1>1, ReputationAssumption DEF Active

\* A call leaves main where it is.
LEMMA MainStill ==
    ASSUME UNCHANGED main
    PROVE  /\ mpc' = mpc /\ curr' = curr /\ prev' = prev /\ points' = points /\ decayed' = decayed
           /\ exported' = exported /\ silent' = silent /\ zone' = zone
           /\ (Packets => Packets') /\ Delay' = Delay
BY DEF main, timers, Packets, Delay

\* A new query adds to what may be counted.
LEMMA BlocksGrow ==
    ASSUME CodeTypes, NEW d \in Domains, blocks' = [blocks EXCEPT ![d] = @ + 1]
    PROVE  /\ blocks' \in [Domains -> Nat] /\ blocks'[d] = blocks[d] + 1
           /\ \A c \in Domains : blocks[c] \in Nat /\ blocks[c] <= blocks'[c]
BY DEF CodeTypes

\* Entries that stay are still counted.
LEMMA CountedStays ==
    ASSUME Counted, CodeTypes, entry' = entry, mpc' = mpc, curr' = curr,
           \A c \in Domains : blocks[c] \in Nat /\ blocks'[c] \in Nat /\ blocks[c] <= blocks'[c]
    PROVE  Counted'
<1>. SUFFICES ASSUME NEW y \in Entries, entry[y] # Free
              PROVE  /\ entry[y].domain \in Domains
                     /\ entry[y].score >= 1 \/ Judged(y)
                     /\ entry[y].score <= blocks'[entry[y].domain]
    BY DEF Counted, Free, Judged
<1>1. /\ entry[y].domain \in Domains
      /\ entry[y].score >= 1 \/ Judged(y)
      /\ entry[y].score <= blocks[entry[y].domain]
    BY DEF Counted
<1>2. entry[y].score \in Nat
    BY RecordFacts DEF CodeTypes
<1>. QED  BY <1>1, <1>2

\* While calls come and go, what rep_decay has read stays within what was counted.
LEMMA LosingStays ==
    ASSUME Losing, CodeTypes, mpc' = mpc, curr' = curr, points' = points,
           mpc' \in Decay => Main \in met',
           curr \in Entries => entry'[curr].domain = entry[curr].domain,
           \A c \in Domains : blocks[c] \in Nat /\ blocks'[c] \in Nat /\ blocks[c] <= blocks'[c]
    PROVE  Losing'
<1>. SUFFICES ASSUME mpc' \in {"read", "write", "judge"}
              PROVE  /\ curr' \in Entries /\ entry'[curr'].domain \in Domains
                     /\ mpc' = "write" => points' >= 1 /\ points' <= blocks'[entry'[curr'].domain]
                     /\ Main \in met'
    BY DEF Losing
<1>1. /\ curr \in Entries /\ entry[curr].domain \in Domains
      /\ mpc = "write" => points >= 1 /\ points <= blocks[entry[curr].domain]
    BY DEF Losing
<1>2. mpc' \in Decay /\ points \in Nat
    BY DEF Decay, CodeTypes
<1>. QED  BY <1>1, <1>2

\* Entries may be forgotten, and main is where it was.
LEMMA ExportedForgets ==
    ASSUME Exported, CodeTypes, CodeTypes', TypeOK, Meetings, Observe(0),
           \A y \in Entries : entry'[y] = entry[y] \/ entry'[y] = Free,
           (mpc' = mpc /\ curr' = curr) \/ (mpc # "judge" /\ mpc' # "judge"),
           zone' = zone, Delay' = Delay
    PROVE  Exported'
<1>1. Delay \in Nat /\ races \subseteq races'
    BY MeasuredHolds, Observed DEF Measured
<1>2. ASSUME NEW y \in Entries, entry'[y].domain # Null
      PROVE  entry'[y] = entry[y] /\ Spent(y)' = Spent(y) /\ Spent(y) \in Nat
    <2>1. entry'[y] = entry[y]
        BY <1>2, FreeFacts
    <2>2. Judged(y)' <=> Judged(y)
        BY DEF Judged
    <2>. QED  BY <2>1, <2>2, MeasuredHolds DEF Spent, Measured
<1>3. Delay <= Delay'
    BY <1>1
<1>. QED  BY <1>1, <1>2, <1>3, ExportedStays

\* What a thread has read is not more than was counted.
LEMMA ReadStays ==
    ASSUME CodeTypes, NEW u \in Threads, Call(u),
           \A c \in Domains : blocks[c] \in Nat /\ blocks'[c] \in Nat /\ blocks[c] <= blocks'[c]
    PROVE  /\ pc[u] = "store" => score[u] + 1 <= blocks'[arg[u]]
           /\ pc[u] = "make" => 1 <= blocks'[arg[u]]
<1>1. /\ pc[u] # "out" => arg[u] \in Domains
      /\ pc[u] = "store" => score[u] + 1 <= blocks[arg[u]]
      /\ pc[u] = "make" => 1 <= blocks[arg[u]]
    BY DEF Call
<1>2. score[u] \in Nat
    BY DEF CodeTypes
<1>. QED  BY <1>1, <1>2

\* The search finds an entry.
LEMMA findIInv ==
    ASSUME IInv, ~corrupt, NEW t \in Threads, NEW d \in Domains, find(t, d), Observe(0)
    PROVE  IInv'
<1>. USE ListAssumption, ReputationAssumption
<1>. DEFINE x == EntryOf(d)
<1>1. /\ x \in Entries
      /\ pc[t] = "out" /\ e' = [e EXCEPT ![t] = x] /\ arg' = [arg EXCEPT ![t] = d]
      /\ pc' = [pc EXCEPT ![t] = "store"] /\ score' = [score EXCEPT ![t] = entry[x].score]
      /\ blocks' = [blocks EXCEPT ![d] = @ + 1]
      /\ entry' = entry /\ bucket' = bucket /\ corrupt' = corrupt /\ UNCHANGED main
    BY DEF find, Begin
<1>. HIDE DEF x
<1>2. /\ TypeOK /\ CodeTypes /\ Counted /\ Losing /\ Packets /\ Exported
      /\ Heap /\ Walk /\ Calls /\ Meetings /\ Undisturbed /\ Known
      /\ "decay" \notin races => NoDangling
    BY BeforeStep
<1>3. Alive(entry, x) /\ First(d, x) /\ entry[x].domain = d
    BY <1>1, <1>2, FindFacts DEF x, First, FirstIn
<1>4. /\ mpc' = mpc /\ curr' = curr /\ prev' = prev /\ points' = points /\ decayed' = decayed
      /\ exported' = exported /\ silent' = silent /\ zone' = zone
      /\ Packets' /\ Delay' = Delay
    BY <1>1, <1>2, MainStill
<1>5. /\ Active \subseteq Active' /\ t \in Calling' /\ Calling \subseteq Calling'
      /\ (\A a, b \in Active' : a = b) => Calling' = {t}
    BY <1>1, <1>2, <1>4, ActiveGrows
<1>6. /\ \A u \in Threads : e'[u] = IF u = t THEN x ELSE e[u]
      /\ \A u \in Threads : pc'[u] = IF u = t THEN "store" ELSE pc[u]
      /\ \A u \in Threads : arg'[u] = IF u = t THEN d ELSE arg[u]
      /\ \A u \in Threads : score'[u] = IF u = t THEN entry[x].score ELSE score[u]
      /\ e[t] = Null
    BY <1>1, <1>2 DEF CodeTypes, Calls, Call
<1>7. Roots' \subseteq Roots \cup {x} /\ Roots \cap Entries \subseteq Roots'
    BY <1>4, <1>1, <1>6 DEF Roots
<1>8. /\ blocks' \in [Domains -> Nat] /\ blocks'[d] = blocks[d] + 1
      /\ \A c \in Domains : blocks[c] \in Nat /\ blocks[c] <= blocks'[c]
    BY <1>1, <1>2, BlocksGrow
<1>9. /\ entry[x].score \in Nat
      /\ \A y \in Entries : entry[y].score \in Nat
    BY <1>1, <1>2, RecordFacts DEF CodeTypes
<1>10. CodeTypes'
    BY <1>1, <1>2, <1>4, <1>8, <1>9 DEF CodeTypes, Pointers
<1>11. Counted'
    BY <1>1, <1>2, <1>4, <1>8, CountedStays
<1>12. Exported'
    BY <1>1, <1>2, <1>4, <1>10, ExportedForgets
<1>13. Heap'
    BY <1>1, <1>2, <1>3, <1>7, HeapGrows
<1>14. Walk'
    BY <1>1, <1>2, <1>4 DEF Walk
<1>15. Calls'
    <2>1. (entry[x].score >= 1 \/ races' # {}) /\ entry[x].score + 1 <= blocks'[d]
        <3>1. entry[x] # Free
            BY <1>3, FreeFacts
        <3>2. /\ entry[x].score >= 1 \/ Judged(x)
              /\ entry[x].score <= blocks[d] /\ blocks[d] \in Nat
            BY <1>1, <1>2, <1>3, <1>8, <3>1 DEF Counted
        <3>3. Judged(x) => races' # {}
            BY <1>2, <1>4, <1>5, Observed DEF Judged, Decay
        <3>. QED  BY <1>8, <1>9, <3>2, <3>3
    <2>2. ASSUME NEW u \in Threads, u # t PROVE Call(u)'
        <3>1. Call(u) /\ e'[u] = e[u] /\ pc'[u] = pc[u] /\ arg'[u] = arg[u] /\ score'[u] = score[u]
            BY <1>2, <1>6, <2>2 DEF Calls
        <3>3. /\ pc[u] = "store" => score[u] + 1 <= blocks'[arg[u]]
              /\ pc[u] = "make" => 1 <= blocks'[arg[u]]
            BY <1>2, <1>8, <3>1, ReadStays
        <3>4. races \subseteq races'
            BY <1>2, Observed
        <3>. QED  BY <1>1, <3>1, <3>3, <3>4 DEF Call
    <2>3. Call(t)'
        BY <1>1, <1>3, <1>6, <2>1 DEF Call
    <2>. QED  BY <2>2, <2>3 DEF Calls
<1>16. "decay" \notin races' => NoDangling'
    BY <1>1, <1>2, <1>7, Observed DEF NoDangling
<1>17. ~(mpc' \in Decay /\ Main \notin met')
    BY <1>2, <1>5, Observed
<1>18. Listed' = Listed /\ \A c, p : First(c, p)' <=> First(c, p)
    BY <1>1, SameList
<1>19. ASSUME \A a, b \in Active' : a = b PROVE Undisturbed'
    <2>1. \A u \in Threads : pc'[u] # "out" => u = t
        BY <1>5, <1>19 DEF Calling
    <2>. QED  BY <1>3, <1>6, <1>18, <2>1 DEF Undisturbed
<1>20. met' = {} => sure' = sure
    BY <1>2, <1>5, SureStays
<1>21. met' = {} => Known'
    <2>1. NotSure' = NotSure
        BY DEF NotSure
    <2>. QED  BY <1>1, <1>2, <1>18, <1>20, <2>1 DEF Known
<1>22. met' = {} => sure' \in [Domains -> Ages]
    BY <1>2, <1>20 DEF TypeOK
<1>23. CorruptOnlyByDecay'
    BY <1>1, <1>2, <1>4, Observed DEF CorruptOnlyByDecay
<1>24. Losing'
    <2>1. mpc' \in Decay => Main \in met'
        BY <1>17
    <2>. QED  BY <1>1, <1>2, <1>4, <1>8, <2>1, LosingStays
<1>. QED  BY <1>4, <1>5, <1>10, <1>11, <1>12, <1>13, <1>14, <1>15, <1>16, <1>17, <1>19, <1>21, <1>22,
            <1>23, <1>24, StepIInv

\* The search runs into a freed entry, or meets rep_decay.
LEMMA find_danglingIInv ==
    ASSUME IInv, ~corrupt, NEW t \in Threads, NEW d \in Domains, find_dangling(t, d), Observe(0)
    PROVE  IInv'
<1>. USE ListAssumption, ReputationAssumption
<1>1. /\ EntryOf(d) = Dangling \/ mpc \in Decay
      /\ e' = [e EXCEPT ![t] = Dangling] /\ arg' = [arg EXCEPT ![t] = d]
      /\ pc' = [pc EXCEPT ![t] = "store"] /\ score' = score
      /\ blocks' = [blocks EXCEPT ![d] = @ + 1]
      /\ entry' = entry /\ bucket' = bucket /\ corrupt' = TRUE /\ UNCHANGED main
    BY DEF find_dangling, Begin
<1>2. /\ TypeOK /\ CodeTypes /\ Counted /\ Losing /\ Packets /\ Exported /\ Heap /\ Meetings
      /\ "decay" \notin races => NoDangling
    BY BeforeStep
<1>3. /\ mpc' = mpc /\ curr' = curr /\ prev' = prev /\ points' = points /\ decayed' = decayed
      /\ exported' = exported /\ silent' = silent /\ zone' = zone
      /\ Packets' /\ Delay' = Delay
    BY <1>1, <1>2, MainStill
<1>4. Active \subseteq Active' /\ t \in Calling' /\ Calling \subseteq Calling'
    BY <1>1, <1>2, <1>3, ActiveGrows
<1>5. /\ blocks' \in [Domains -> Nat]
      /\ \A c \in Domains : blocks[c] \in Nat /\ blocks[c] <= blocks'[c]
    BY <1>1, <1>2, BlocksGrow
<1>6. CodeTypes'
    BY <1>1, <1>2, <1>3, <1>5 DEF CodeTypes, Pointers
<1>7. Counted'
    BY <1>1, <1>2, <1>3, <1>5, CountedStays
<1>8. Exported'
    BY <1>1, <1>2, <1>3, <1>6, ExportedForgets
<1>9. "decay" \in races'
    <2>1. CASE EntryOf(d) = Dangling
        BY <1>2, <2>1, Observed, FindFacts DEF NoDangling
    <2>2. CASE mpc \in Decay
        BY <1>2, <1>3, <1>4, <2>2, Observed
    <2>. QED  BY <1>1, <2>1, <2>2
<1>10. met' = {} => sure' \in [Domains -> Ages]
    BY <1>2, <1>4, SureStays DEF TypeOK
<1>11. CorruptOnlyByDecay'
    BY <1>9 DEF CorruptOnlyByDecay
<1>12. Losing'
    <2>1. mpc' \in Decay => Main \in met'
        BY <1>2, <1>4, Observed
    <2>. QED  BY <1>1, <1>2, <1>3, <1>5, <2>1, LosingStays
<1>. QED  BY <1>1, <1>3, <1>4, <1>6, <1>7, <1>8, <1>10, <1>11, <1>12, StepIInv

\* The search ends with the list: a new entry is going to be made.
LEMMA missIInv ==
    ASSUME IInv, ~corrupt, NEW t \in Threads, NEW d \in Domains, miss(t, d), Observe(0)
    PROVE  IInv'
<1>. USE ListAssumption, ReputationAssumption
<1>1. /\ EntryOf(d) = Null
      /\ pc[t] = "out" /\ e' = e /\ arg' = [arg EXCEPT ![t] = d]
      /\ pc' = [pc EXCEPT ![t] = "make"] /\ score' = score
      /\ blocks' = [blocks EXCEPT ![d] = @ + 1]
      /\ entry' = entry /\ bucket' = bucket /\ corrupt' = corrupt /\ UNCHANGED main
    BY DEF miss, Begin
<1>2. /\ TypeOK /\ CodeTypes /\ Counted /\ Losing /\ Packets /\ Exported
      /\ Heap /\ Walk /\ Calls /\ Meetings /\ Undisturbed /\ Known
      /\ "decay" \notin races => NoDangling
    BY BeforeStep
<1>3. \A w \in Listed : entry[w].domain # d
    BY <1>1, <1>2, FindFacts
<1>4. /\ mpc' = mpc /\ curr' = curr /\ prev' = prev /\ points' = points /\ decayed' = decayed
      /\ exported' = exported /\ silent' = silent /\ zone' = zone
      /\ Packets' /\ Delay' = Delay
    BY <1>1, <1>2, MainStill
<1>5. /\ Active \subseteq Active' /\ t \in Calling' /\ Calling \subseteq Calling'
      /\ (\A a, b \in Active' : a = b) => Calling' = {t}
    BY <1>1, <1>2, <1>4, ActiveGrows
<1>6. /\ \A u \in Threads : pc'[u] = IF u = t THEN "make" ELSE pc[u]
      /\ \A u \in Threads : arg'[u] = IF u = t THEN d ELSE arg[u]
      /\ e[t] = Null
    BY <1>1, <1>2 DEF CodeTypes, Calls, Call
<1>7. Roots' = Roots
    BY <1>1, <1>4 DEF Roots
<1>8. /\ blocks' \in [Domains -> Nat] /\ blocks'[d] = blocks[d] + 1
      /\ \A c \in Domains : blocks[c] \in Nat /\ blocks[c] <= blocks'[c]
    BY <1>1, <1>2, BlocksGrow
<1>9. CodeTypes'
    BY <1>1, <1>2, <1>4, <1>8 DEF CodeTypes
<1>10. Counted'
    BY <1>1, <1>2, <1>4, <1>8, CountedStays
<1>11. Exported'
    BY <1>1, <1>2, <1>4, <1>9, ExportedForgets
<1>12. Heap' /\ Walk'
    BY <1>1, <1>2, <1>4, <1>7 DEF Heap, Walk, nexts, Acyclic, Alive
<1>13. Calls'
    <2>1. ASSUME NEW u \in Threads, u # t PROVE Call(u)'
        <3>1. Call(u) /\ pc'[u] = pc[u] /\ arg'[u] = arg[u] /\ races \subseteq races'
            BY <1>2, <1>6, <2>1, Observed DEF Calls
        <3>2. /\ pc[u] = "store" => score[u] + 1 <= blocks'[arg[u]]
              /\ pc[u] = "make" => 1 <= blocks'[arg[u]]
            BY <1>2, <1>8, <3>1, ReadStays
        <3>. QED  BY <1>1, <3>1, <3>2 DEF Call
    <2>2. Call(t)'
        BY <1>1, <1>6, <1>8 DEF Call
    <2>. QED  BY <2>1, <2>2 DEF Calls
<1>14. "decay" \notin races' => NoDangling'
    BY <1>1, <1>2, <1>7, Observed DEF NoDangling
<1>15. ~(mpc' \in Decay /\ Main \notin met')
    BY <1>2, <1>5, Observed
<1>16. Listed' = Listed /\ \A c, p : First(c, p)' <=> First(c, p)
    BY <1>1, SameList
<1>17. ASSUME \A a, b \in Active' : a = b PROVE Undisturbed'
    <2>1. \A u \in Threads : pc'[u] # "out" => u = t
        BY <1>5, <1>17 DEF Calling
    <2>. QED  BY <1>1, <1>3, <1>6, <1>16, <2>1 DEF Undisturbed
<1>18. met' = {} => sure' = sure
    BY <1>2, <1>5, SureStays
<1>19. met' = {} => Known' /\ sure' \in [Domains -> Ages]
    <2>1. NotSure' = NotSure
        BY DEF NotSure
    <2>. QED  BY <1>1, <1>2, <1>16, <1>18, <2>1 DEF Known, TypeOK
<1>20. CorruptOnlyByDecay'
    BY <1>1, <1>2, <1>4, Observed DEF CorruptOnlyByDecay
<1>21. Losing'
    BY <1>1, <1>2, <1>4, <1>8, <1>15, LosingStays
<1>. QED  BY <1>4, <1>5, <1>9, <1>10, <1>11, <1>12, <1>13, <1>14, <1>15, <1>17, <1>19, <1>20, <1>21,
            StepIInv

\* A new entry, which points at the head of the list and is not yet in it.
LEMMA createIInv ==
    ASSUME IInv, ~corrupt, NEW t \in Threads, NEW x \in Entries, create(t, x), Observe(0)
    PROVE  IInv'
<1>. USE ListAssumption, ReputationAssumption
<1>. DEFINE d   == arg[t]
            new == [domain |-> d, score |-> 1, age |-> 0, next |-> bucket, peak |-> 1]
            nx  == nexts(entry)
            ny  == nexts(entry')
<1>1. /\ entry[x] = Free
      /\ entry' = [entry EXCEPT ![x] = new]
      /\ pc[t] = "make" /\ e' = [e EXCEPT ![t] = x] /\ arg' = arg
      /\ pc' = [pc EXCEPT ![t] = "link"] /\ score' = score /\ blocks' = blocks
      /\ bucket' = bucket /\ corrupt' = corrupt /\ UNCHANGED main
    BY DEF create
<1>2. /\ TypeOK /\ CodeTypes /\ Counted /\ Losing /\ Packets /\ Exported
      /\ Heap /\ Walk /\ Calls /\ Meetings /\ Undisturbed /\ Known
      /\ "decay" \notin races => NoDangling
    BY BeforeStep
<1>3. d \in Domains /\ d # Null /\ (met = {} => \A w \in Listed : entry[w].domain # d)
    BY <1>1, <1>2 DEF Calls, Call, Undisturbed
<1>4. /\ mpc' = mpc /\ curr' = curr /\ prev' = prev /\ points' = points /\ decayed' = decayed
      /\ exported' = exported /\ silent' = silent /\ zone' = zone
      /\ Packets' /\ Delay' = Delay
    BY <1>1, <1>2, MainStill
<1>5. /\ Active \subseteq Active' /\ t \in Calling' /\ Calling \subseteq Calling'
      /\ (\A a, b \in Active' : a = b) => Calling' = {t}
    BY <1>1, <1>2, <1>4, ActiveGrows
<1>6. /\ \A u \in Threads : e'[u] = IF u = t THEN x ELSE e[u]
      /\ \A u \in Threads : pc'[u] = IF u = t THEN "link" ELSE pc[u]
      /\ e[t] = Null
    BY <1>1, <1>2 DEF CodeTypes, Calls, Call
<1>7. Roots' \subseteq Roots \cup {x} /\ Roots \cap Entries \subseteq Roots' /\ x \in Roots'
    BY <1>1, <1>4, <1>6 DEF Roots
<1>8. blocks[d] >= 1 /\ \A c \in Domains : blocks[c] \in Nat
    BY <1>1, <1>2, <1>3 DEF CodeTypes, Calls, Call
<1>9. new \in Record
    BY <1>2, <1>3 DEF Record, CodeTypes, Ages
<1>10. /\ entry \in [Entries -> Record] /\ entry' \in [Entries -> Record]
       /\ \A y \in Entries : y # x => entry'[y] = entry[y]
       /\ entry'[x] = new
    BY <1>1, <1>2, <1>9 DEF CodeTypes
<1>11. /\ entry'[x].next = bucket /\ entry'[x].domain = d
       /\ entry'[x].score = 1 /\ entry'[x].peak = 1
    BY <1>10
<1>. HIDE DEF d, new
<1>12. /\ x \notin Roots /\ \A y \in Entries : entry[y].next # x
       /\ entry[x].next = Null /\ entry[x].domain = Null
    BY <1>1, <1>2, FreeFacts DEF Heap, Alive
<1>13. /\ \A y \in Entries : nx[y] = entry[y].next
       /\ \A y \in Entries : ny[y] = entry'[y].next
    BY <1>10, RecordFacts
<1>14. CodeTypes'
    BY <1>1, <1>2, <1>4, <1>10 DEF CodeTypes, Pointers
<1>15. Counted'
    <2>. SUFFICES ASSUME NEW y \in Entries, entry'[y] # Free
                  PROVE  /\ entry'[y].domain \in Domains
                         /\ entry'[y].score >= 1 \/ Judged(y)
                         /\ entry'[y].score <= blocks[entry'[y].domain]
        BY <1>1, <1>4 DEF Counted, Free, Judged
    <2>1. CASE y = x
        BY <1>3, <1>8, <1>11, <2>1
    <2>2. CASE y # x
        BY <1>2, <1>10, <2>2 DEF Counted
    <2>. QED  BY <2>1, <2>2
<1>16. Exported'
    <2>1. races \subseteq races' /\ Delay <= Delay'
        <3>1. Delay \in Nat
            BY <1>2, MeasuredHolds DEF Measured
        <3>. QED  BY <1>2, <1>4, <3>1, Observed
    <2>2. ASSUME NEW y \in Entries, entry'[y].peak > 1, entry'[y].score >= 1
          PROVE  /\ entry'[y].domain = entry[y].domain /\ entry[y].peak > 1 /\ entry[y].score >= 1
                 /\ Spent(y)' <= Spent(y)
        <3>1. y # x
            BY <1>11, <2>2
        <3>2. entry'[y] = entry[y]
            BY <1>10, <3>1
        <3>3. Spent(y)' = Spent(y) /\ Spent(y) \in Nat
            BY <1>2, <1>4, <3>2, MeasuredHolds DEF Spent, Measured, Judged
        <3>. QED  BY <2>2, <3>2, <3>3
    <2>. QED  BY <1>2, <1>4, <1>14, <2>1, <2>2, ExportedStays
<1>17. Heap'
    <2>1. Acyclic(nx) /\ bucket # x
        BY <1>2, <1>12 DEF Heap, Roots
    <2>2. ASSUME NEW D \in SUBSET Entries, D # {} PROVE \E y \in D : ny[y] \notin D
        <3>. HIDE DEF nx, ny
        <3>1. CASE D \ {x} = {}
            BY <1>11, <1>13, <2>1, <2>2, <3>1
        <3>2. CASE D \ {x} # {}
            <4>1. PICK y \in D \ {x} : nx[y] \notin D \ {x}
                BY <2>1, <3>2 DEF Acyclic
            <4>. QED  BY <1>10, <1>12, <1>13, <4>1
        <3>. QED  BY <3>1, <3>2
    <2>3. \A p \in Roots' : Alive(entry', p)
        BY <1>2, <1>3, <1>7, <1>10, <1>11 DEF Heap, Alive
    <2>4. \A y \in Entries : Alive(entry', entry'[y].next)
        <3>1. \A y \in Entries : Alive(entry, entry'[y].next) /\ entry'[y].next # x
            BY <1>2, <1>10, <1>11, <1>12, <2>1 DEF Heap, Roots
        <3>. QED  BY <1>10, <3>1 DEF Alive
    <2>5. ASSUME NEW y \in Entries, entry'[y].domain # Null PROVE y \in Reached(ny, Roots')
        <3>. DEFINE C == Reached(ny, Roots')
        <3>1. C \in SUBSET Entries /\ Closed(ny, C) /\ Roots' \cap Entries \subseteq C
            BY ReachedFacts
        <3>. HIDE DEF C, nx, ny
        <3>2. Closed(nx, C)
            BY <1>10, <1>12, <1>13, <3>1 DEF Closed
        <3>3. Reached(nx, Roots) \subseteq C
            BY <1>7, <3>1, <3>2, ReachedFacts
        <3>4. entry[y].domain # Null => y \in Reached(nx, Roots)
            BY <1>2 DEF Heap, nx
        <3>. QED  BY <1>7, <1>10, <2>5, <3>1, <3>3, <3>4 DEF C
    <2>6. ny = nexts(entry)'
        BY DEF nexts
    <2>. QED  BY <2>2, <2>3, <2>4, <2>5, <2>6 DEF Heap, Acyclic, Alive
<1>18. Walk'
    BY <1>2, <1>4, <1>10, <1>12 DEF Walk, Roots
<1>19. Calls'
    <2>1. \A u \in Threads : e[u] # x
        BY <1>12 DEF Roots
    <2>2. ASSUME NEW u \in Threads, u # t PROVE Call(u)'
        <3>1. Call(u) /\ e'[u] = e[u] /\ pc'[u] = pc[u] /\ arg'[u] = arg[u] /\ score'[u] = score[u]
            BY <1>1, <1>2, <1>6, <2>2 DEF Calls
        <3>2. e[u] \in Entries => entry'[e[u]] = entry[e[u]]
            BY <1>10, <2>1
        <3>3. races \subseteq races'
            BY <1>2, Observed
        <3>. QED  BY <1>1, <3>1, <3>2, <3>3 DEF Call
    <2>3. arg'[t] = d
        BY <1>1 DEF d
    <2>4. Call(t)'
        BY <1>3, <1>6, <1>11, <2>3 DEF Call
    <2>. QED  BY <2>2, <2>4 DEF Calls
<1>20. "decay" \notin races' => NoDangling'
    <2>1. bucket \in Roots
        BY DEF Roots
    <2>. QED  BY <1>2, <1>7, <1>10, <1>11, <2>1, Observed DEF NoDangling
<1>21. ~(mpc' \in Decay /\ Main \notin met')
    BY <1>2, <1>5, Observed
<1>22. x \notin Listed /\ Listed \subseteq Entries
    <2>1. {bucket} \in SUBSET Roots
        BY DEF Roots
    <2>. QED  BY <1>2, <1>10, <1>12, <2>1, ReachedAlive, ReachedFacts DEF Listed
<1>23. /\ Listed' = Listed
       /\ \A c, p : First(c, p)' <=> First(c, p)
    <2>1. \A y \in Listed : entry'[y] = entry[y]
        BY <1>10, <1>22
    <2>2. /\ Reached(nexts(entry'), {bucket}) = Reached(nexts(entry), {bucket})
          /\ \A c, p : FirstIn(entry', bucket, c, p) <=> FirstIn(entry, bucket, c, p)
        BY <1>10, <2>1, SameFirst DEF Listed
    <2>. QED  BY <1>1, <2>2 DEF Listed, First, FirstIn, nexts
<1>24. ASSUME met = {}, \A a, b \in Active' : a = b PROVE Undisturbed'
    <2>1. \A u \in Threads : pc'[u] # "out" => u = t
        BY <1>5, <1>24 DEF Calling
    <2>2. /\ pc'[t] = "link" /\ e'[t] = x /\ entry'[x].next = bucket' /\ entry'[x].peak = 1
          /\ e'[t] \notin Listed' /\ \A w \in Listed' : entry'[w].domain # arg'[t]
        BY <1>1, <1>3, <1>6, <1>10, <1>11, <1>22, <1>23, <1>24 DEF d
    <2>. QED  BY <2>1, <2>2 DEF Undisturbed
<1>25. met' = {} => sure' = sure
    BY <1>2, <1>5, SureStays
<1>26. met' = {} => Known'
    <2>1. \A c, p : First(c, p) => p \in Listed
        BY DEF First, FirstIn, Listed
    <2>2. \A c, p : First(c, p) => entry'[p] = entry[p]
        BY <1>10, <1>22, <2>1
    <2>3. NotSure' = NotSure
        BY DEF NotSure
    <2>. QED  BY <1>2, <1>23, <1>25, <2>2, <2>3 DEF Known
<1>27. met' = {} => sure' \in [Domains -> Ages]
    BY <1>2, <1>25 DEF TypeOK
<1>28. CorruptOnlyByDecay'
    BY <1>1, <1>2, <1>4, Observed DEF CorruptOnlyByDecay
<1>29. Losing'
    <2>1. curr \in Entries => entry'[curr].domain = entry[curr].domain
        BY <1>10, <1>12 DEF Roots
    <2>2. \A c \in Domains : blocks'[c] \in Nat /\ blocks[c] <= blocks'[c]
        BY <1>1, <1>8
    <2>. QED  BY <1>2, <1>4, <1>8, <1>21, <2>1, <2>2, LosingStays
<1>. QED  BY <1>4, <1>5, <1>14, <1>15, <1>16, <1>17, <1>18, <1>19, <1>20, <1>21, <1>24, <1>26, <1>27,
            <1>28, <1>29, StepIInv

\* The end of a call.
LEMMA EndFacts ==
    ASSUME TypeOK, CodeTypes, Meetings, Observe(0), NEW t \in Threads, pc[t] # "out", End(t), mpc' = mpc
    PROVE  /\ \A u \in Threads : /\ e'[u] = (IF u = t THEN Null ELSE e[u])
                                 /\ pc'[u] = (IF u = t THEN "out" ELSE pc[u])
                                 /\ arg'[u] = (IF u = t THEN Null ELSE arg[u])
                                 /\ score'[u] = (IF u = t THEN 0 ELSE score[u])
           /\ pc' \in [Threads -> {"out", "store", "make", "link"}] /\ arg' \in [Threads -> Domains \cup {Null}]
           /\ e' \in [Threads -> Pointers] /\ score' \in [Threads -> Nat]
           /\ t \in Calling /\ Calling' = Calling \ {t} /\ Active' \subseteq Active
           /\ mpc' \in Decay => Main \in met'
           /\ met = {} => \A u \in Threads : pc'[u] = "out"
<1>. USE ReputationAssumption
<1>1. /\ pc' = [pc EXCEPT ![t] = "out"] /\ arg' = [arg EXCEPT ![t] = Null]
      /\ e' = [e EXCEPT ![t] = Null] /\ score' = [score EXCEPT ![t] = 0]
    BY DEF End
<1>2. /\ pc \in [Threads -> {"out", "store", "make", "link"}] /\ arg \in [Threads -> Domains \cup {Null}]
      /\ e \in [Threads -> Pointers] /\ score \in [Threads -> Nat] /\ Null \in Pointers
    BY DEF CodeTypes, Pointers
<1>3. /\ t \in Calling /\ Calling' = Calling \ {t}
      /\ t \in Active /\ Active' = Active \ {t}
    BY <1>1, ActiveShrinks
<1>4. mpc' \in Decay => Main \in met'
    <2>. SUFFICES ASSUME mpc' \in Decay PROVE Main \in met'
        OBVIOUS
    <2>1. Main \in Active /\ Main \in Active' /\ Main # t
        BY DEF Active
    <2>2. Main \in met
        BY <1>3, <2>1 DEF Meetings
    <2>. QED  BY <2>1, <2>2 DEF Observe
<1>5. ASSUME met = {}, NEW u \in Threads PROVE pc'[u] = "out"
    <2>. SUFFICES ASSUME pc'[u] # "out" PROVE FALSE
        OBVIOUS
    <2>1. u # t /\ u \in Active
        BY <1>1, <1>2 DEF Active, Calling
    <2>. QED  BY <1>3, <1>5, <2>1 DEF Meetings
<1>6. \A u \in Threads : /\ e'[u] = (IF u = t THEN Null ELSE e[u])
                         /\ pc'[u] = (IF u = t THEN "out" ELSE pc[u])
                         /\ arg'[u] = (IF u = t THEN Null ELSE arg[u])
                         /\ score'[u] = (IF u = t THEN 0 ELSE score[u])
    BY <1>1, <1>2
<1>7. /\ pc' \in [Threads -> {"out", "store", "make", "link"}] /\ arg' \in [Threads -> Domains \cup {Null}]
      /\ e' \in [Threads -> Pointers] /\ score' \in [Threads -> Nat]
    BY <1>1, <1>2
<1>. QED  BY <1>3, <1>4, <1>5, <1>6, <1>7

\* The calls of the others, when one ends.
LEMMA CallsEnd ==
    ASSUME Calls, NEW t \in Threads, blocks' = blocks, races \subseteq races',
           \A u \in Threads : /\ e'[u] = (IF u = t THEN Null ELSE e[u])
                              /\ pc'[u] = (IF u = t THEN "out" ELSE pc[u])
                              /\ arg'[u] = (IF u = t THEN Null ELSE arg[u])
                              /\ score'[u] = (IF u = t THEN 0 ELSE score[u]),
           \A u \in Threads : u # t /\ e[u] \in Entries => entry'[e[u]].domain = entry[e[u]].domain
    PROVE  Calls'
<1>1. Call(t)'
    BY ListAssumption DEF Call
<1>2. ASSUME NEW u \in Threads, u # t PROVE Call(u)'
    <2>1. Call(u) /\ e'[u] = e[u] /\ pc'[u] = pc[u] /\ arg'[u] = arg[u] /\ score'[u] = score[u]
        BY <1>2 DEF Calls
    <2>. QED  BY <1>2, <2>1 DEF Call
<1>. QED  BY <1>1, <1>2 DEF Calls

\* The history after a call that ends has the age of its entry.
LEMMA SureTyped ==
    ASSUME TypeOK, Observe(0), met = {}, met' = {}, NEW t \in Calling, Calling' = Calling \ {t},
           entry'[e[t]].age \in Ages
    PROVE  sure' \in [Domains -> Ages]
<1>1. \A d \in Domains : sure'[d] = IF arg[t] = d THEN entry'[e[t]].age ELSE sure[d]
    BY SureEnds
<1>2. sure' = [d \in Domains |-> sure'[d]]
    BY DEF Observe
<1>3. \A d \in Domains : sure[d] \in Ages
    BY DEF TypeOK
<1>. QED  BY <1>1, <1>2, <1>3

\* The entries with one more point.
LEMMA ScoredFacts ==
    ASSUME NEW ents \in [Entries -> Record], NEW x \in Entries, NEW s \in Nat, NEW scored,
           scored = Scored(ents, x, s)
    PROVE  /\ scored \in [Entries -> Record]
           /\ \A y \in Entries : /\ scored[y].domain = ents[y].domain
                                 /\ scored[y].next = ents[y].next
                                 /\ y # x => scored[y] = ents[y]
           /\ scored[x].score = s /\ scored[x].age = 0
<1>1. Larger(ents[x].peak, s) \in Nat
    BY RecordFacts DEF Larger
<1>2. 0 \in Ages
    BY ReputationAssumption DEF Ages
<1>3. ents[x] \in Record
    OBVIOUS
<1>4. scored = [ents EXCEPT ![x] = [ents[x] EXCEPT !.score = s, !.age = 0,
                                                   !.peak = Larger(ents[x].peak, s)]]
    BY DEF Scored, Record
<1>5. [ents[x] EXCEPT !.score = s, !.age = 0, !.peak = Larger(ents[x].peak, s)] \in Record
    BY <1>1, <1>2, <1>3 DEF Record
<1>6. scored[x] = [ents[x] EXCEPT !.score = s, !.age = 0, !.peak = Larger(ents[x].peak, s)]
    BY <1>4
<1>7. /\ scored[x].domain = ents[x].domain /\ scored[x].next = ents[x].next
      /\ scored[x].score = s /\ scored[x].age = 0
    BY <1>3, <1>6 DEF Record
<1>8. \A y \in Entries : y # x => scored[y] = ents[y]
    BY <1>4
<1>9. scored \in [Entries -> Record]
    BY <1>4, <1>5
<1>. QED  BY <1>7, <1>8, <1>9

\* The score that was read is written, plus one.
LEMMA storeIInv ==
    ASSUME IInv, ~corrupt, NEW t \in Threads, store(t), Observe(0)
    PROVE  IInv'
<1>. USE ListAssumption, ReputationAssumption
<1>. DEFINE x == e[t]
            d == arg[t]
            s == PlusOne(score[t])
<1>1. /\ pc[t] = "store" /\ End(t)
      /\ bucket' = bucket /\ UNCHANGED main /\ blocks' = blocks
    BY DEF store
<1>2. /\ TypeOK /\ CodeTypes /\ Counted /\ Losing /\ Packets /\ Exported
      /\ Heap /\ Walk /\ Calls /\ Meetings /\ Undisturbed /\ Known
      /\ "decay" \notin races => NoDangling
    BY BeforeStep
<1>3. /\ mpc' = mpc /\ curr' = curr /\ prev' = prev /\ points' = points /\ decayed' = decayed
      /\ exported' = exported /\ silent' = silent /\ zone' = zone
      /\ Packets' /\ Delay' = Delay
    BY <1>1, <1>2, MainStill
<1>4. /\ \A u \in Threads : /\ e'[u] = (IF u = t THEN Null ELSE e[u])
                            /\ pc'[u] = (IF u = t THEN "out" ELSE pc[u])
                            /\ arg'[u] = (IF u = t THEN Null ELSE arg[u])
                            /\ score'[u] = (IF u = t THEN 0 ELSE score[u])
      /\ pc' \in [Threads -> {"out", "store", "make", "link"}] /\ arg' \in [Threads -> Domains \cup {Null}]
      /\ e' \in [Threads -> Pointers] /\ score' \in [Threads -> Nat]
      /\ t \in Calling /\ Calling' = Calling \ {t} /\ Active' \subseteq Active
      /\ mpc' \in Decay => Main \in met'
      /\ met = {} => \A u \in Threads : pc'[u] = "out"
    BY <1>1, <1>2, <1>3, EndFacts
<1>5. d \in Domains /\ x # Null /\ x \in Pointers /\ (x \in Entries => entry[x].domain = d)
    BY <1>1, <1>2 DEF Calls, Call, CodeTypes
<1>6. s \in Nat /\ s >= 1 /\ (s >= 2 \/ races # {}) /\ s <= blocks[d]
    <2>1. /\ score[t] >= 1 \/ races # {}
          /\ score[t] + 1 <= blocks[d] /\ score[t] \in Nat
        BY <1>1, <1>2 DEF Calls, Call, CodeTypes
    <2>. QED  BY <2>1 DEF PlusOne
<1>7. Roots' \subseteq Roots \cup {Null}
    BY <1>1, <1>3, <1>4 DEF Roots
<1>8. \A c \in Domains : blocks[c] \in Nat
    BY <1>2 DEF CodeTypes
<1>9. met = {} => First(d, x) /\ x \in Listed /\ x \in Entries
    BY <1>1, <1>2, ReachedFacts DEF Undisturbed, First, FirstIn, Listed
<1>. HIDE DEF x, d, s
<1>0. races \subseteq races'
    BY <1>2, Observed
<1>10. ASSUME x = Dangling, corrupt' = TRUE, entry' = entry PROVE IInv'
    <2>1. CodeTypes'
        BY <1>1, <1>2, <1>3, <1>4, <1>10 DEF CodeTypes
    <2>2. Counted'
        BY <1>1, <1>2, <1>3, <1>8, <1>10, CountedStays
    <2>3. Exported'
        BY <1>2, <1>3, <1>10, <2>1, ExportedForgets
    <2>4. "decay" \in races'
        BY <1>2, <1>10, Observed DEF NoDangling, Roots, x
    <2>5. CorruptOnlyByDecay'
        BY <2>4 DEF CorruptOnlyByDecay
    <2>6. met # {}
        BY <1>9, <1>10
    <2>7. Losing'
        BY <1>1, <1>2, <1>3, <1>4, <1>8, <1>10, LosingStays
    <2>. QED  BY <1>3, <1>4, <1>10, <2>1, <2>2, <2>3, <2>5, <2>6, <2>7, StepIInv
<1>11. ASSUME x # Dangling, corrupt' = FALSE, NEW ents, ents = Scored(entry, x, s), Assign(ents)
       PROVE  IInv'
    <2>1. x \in Entries /\ entry[x].domain = d
        BY <1>5, <1>11 DEF Pointers
    <2>2. entry \in [Entries -> Record]
        BY <1>2 DEF CodeTypes
    <2>3. /\ ents \in [Entries -> Record]
          /\ \A y \in Entries : /\ ents[y].domain = entry[y].domain /\ ents[y].next = entry[y].next
                                /\ y # x => ents[y] = entry[y]
          /\ ents[x].score = s /\ ents[x].age = 0
        BY <1>6, <1>11, <2>1, <2>2, ScoredFacts
    <2>4. \A p \in Roots' : Alive(entry, p)
        BY <1>2, <1>7 DEF Heap, Alive
    <2>5. /\ entry' \in [Entries -> Record] /\ Heap'
          /\ \A y \in Entries : (entry'[y] = ents[y] /\ ents[y].domain # Null) \/ entry'[y] = Free
          /\ \A p \in Roots' \cap Entries : entry'[p] = ents[p]
          /\ \A c, p : First(c, p)' <=> First(c, p)
          /\ Listed' = Listed
          /\ \A y \in Listed : entry'[y] = ents[y]
        BY <1>1, <1>2, <1>11, <2>2, <2>3, <2>4, InPlace
    <2>6. CodeTypes'
        BY <1>1, <1>2, <1>3, <1>4, <1>11, <2>5 DEF CodeTypes
    <2>7. Counted'
        <3>. SUFFICES ASSUME NEW y \in Entries, entry'[y] # Free
                      PROVE  /\ entry'[y].domain \in Domains
                             /\ entry'[y].score >= 1 \/ Judged(y)
                             /\ entry'[y].score <= blocks[entry'[y].domain]
            BY <1>1, <1>3 DEF Counted, Free, Judged
        <3>1. entry'[y] = ents[y] /\ ents[y].domain # Null
            BY <2>5
        <3>2. CASE y = x
            BY <1>5, <1>6, <2>1, <2>3, <3>1, <3>2
        <3>3. CASE y # x
            <4>1. entry'[y] = entry[y] /\ entry[y] # Free
                BY <2>3, <3>1, <3>3, FreeFacts
            <4>. QED  BY <1>2, <4>1 DEF Counted
        <3>. QED  BY <3>2, <3>3
    <2>8. Exported'
        <3>1. races \subseteq races' /\ Delay <= Delay'
            <4>1. Delay \in Nat
                BY <1>2, MeasuredHolds DEF Measured
            <4>. QED  BY <1>2, <1>3, <4>1, Observed
        <3>2. ASSUME races' = {}, NEW y \in Entries, entry'[y].domain # Null,
                     entry'[y].peak > 1, entry'[y].score >= 1
              PROVE  \/ Spent(y)' = 0
                     \/ /\ entry'[y].domain = entry[y].domain
                        /\ entry[y].peak > 1 /\ entry[y].score >= 1
                        /\ Spent(y)' <= Spent(y)
            <4>1. entry'[y] = ents[y]
                BY <2>5, <3>2, FreeFacts
            <4>2. CASE y = x
                <5>1. entry'[y].age = 0 /\ ~(entry'[y].score <= 1)
                    BY <1>0, <1>6, <2>3, <3>2, <4>1, <4>2
                <5>. QED  BY <5>1 DEF Spent
            <4>3. CASE y # x
                <5>1. entry'[y] = entry[y]
                    BY <2>3, <4>1, <4>3
                <5>2. Spent(y)' = Spent(y) /\ Spent(y) \in Nat
                    BY <1>2, <1>3, <5>1, MeasuredHolds DEF Spent, Measured, Judged
                <5>. QED  BY <3>2, <5>1, <5>2
            <4>. QED  BY <4>2, <4>3
        <3>. QED  BY <1>2, <1>3, <2>6, <3>1, <3>2, ExportedStays
    <2>9. Walk'
        <3>1. prev \in Entries => entry'[prev].next = entry[prev].next
            BY <1>3, <2>3, <2>5 DEF Roots
        <3>. QED  BY <1>2, <1>3, <3>1 DEF Walk
    <2>10. Calls'
        <3>1. \A u \in Threads : u # t /\ e[u] \in Entries => entry'[e[u]].domain = entry[e[u]].domain
            <4>. SUFFICES ASSUME NEW u \in Threads, u # t, e[u] \in Entries
                          PROVE  entry'[e[u]].domain = entry[e[u]].domain
                OBVIOUS
            <4>1. e[u] \in Roots'
                BY <1>4 DEF Roots
            <4>. QED  BY <2>3, <2>5, <4>1
        <3>. QED  BY <1>0, <1>1, <1>2, <1>4, <3>1, CallsEnd
    <2>11. "decay" \notin races' => NoDangling'
        <3>1. \A y \in Entries : entry'[y].next = entry[y].next \/ entry'[y].next = Null
            BY <2>3, <2>5, FreeFacts
        <3>. QED  BY <1>2, <1>7, <3>1, Observed DEF NoDangling
    <2>12. ASSUME met = {}, met' = {} PROVE Undisturbed' /\ Known' /\ sure' \in [Domains -> Ages]
        <3>1. First(d, x) /\ x \in Listed
            BY <1>9, <2>12
        <3>2. \A c \in Domains : sure'[c] = IF d = c THEN entry'[x].age ELSE sure[c]
            BY <1>2, <1>4, <2>12, SureEnds DEF d, x
        <3>3. entry'[x].age = 0 /\ 0 \in Ages
            BY <2>3, <2>5, <3>1 DEF Ages
        <3>4. sure' \in [Domains -> Ages]
            BY <1>2, <1>4, <2>12, <3>3, SureTyped DEF x
        <3>5. ASSUME NEW c \in Domains, sure'[c] < NotSure
              PROVE  \E p \in Entries : First(c, p)' /\ entry'[p].age = sure'[c]
            <4>1. CASE c = d
                BY <2>1, <2>5, <3>1, <3>2, <4>1
            <4>2. CASE c # d
                <5>1. sure'[c] = sure[c]
                    BY <3>2, <4>2
                <5>2. PICK p \in Entries : First(c, p) /\ entry[p].age = sure[c]
                    BY <1>2, <3>5, <5>1 DEF Known
                <5>3. p \in Listed /\ p # x
                    BY <2>1, <4>2, <5>2 DEF First, FirstIn, Listed
                <5>4. entry'[p] = entry[p]
                    BY <2>3, <2>5, <5>2, <5>3
                <5>. QED  BY <2>5, <5>1, <5>2, <5>4
            <4>. QED  BY <4>1, <4>2
        <3>6. Known'
            <4>1. NotSure' = NotSure
                BY DEF NotSure
            <4>. QED  BY <3>5, <4>1 DEF Known
        <3>7. Undisturbed'
            BY <1>4, <2>12 DEF Undisturbed
        <3>. QED  BY <3>4, <3>6, <3>7
    <2>13. CorruptOnlyByDecay'
        BY <1>11 DEF CorruptOnlyByDecay
    <2>14. Losing'
        <3>1. curr \in Entries => entry'[curr].domain = entry[curr].domain
            BY <1>3, <2>3, <2>5 DEF Roots
        <3>. QED  BY <1>1, <1>2, <1>3, <1>4, <1>8, <3>1, LosingStays
    <2>. QED  BY <1>3, <1>4, <2>5, <2>6, <2>7, <2>8, <2>9, <2>10, <2>11, <2>12, <2>13, <2>14, StepIInv
<1>. QED  BY <1>10, <1>11 DEF store, x, s

\* The new entry becomes the head of the list.
LEMMA linkIInv ==
    ASSUME IInv, ~corrupt, NEW t \in Threads, link(t), Observe(0)
    PROVE  IInv'
<1>. USE ListAssumption, ReputationAssumption
<1>. DEFINE x  == e[t]
            d  == arg[t]
            nx == nexts(entry)
<1>1. /\ pc[t] = "link" /\ bucket' = x /\ End(t)
      /\ UNCHANGED main /\ corrupt' = corrupt /\ blocks' = blocks /\ Assign(entry)
    BY DEF link, NewHead
<1>2. /\ TypeOK /\ CodeTypes /\ Counted /\ Losing /\ Packets /\ Exported
      /\ Heap /\ Walk /\ Calls /\ Meetings /\ Undisturbed /\ Known
      /\ "decay" \notin races => NoDangling
    BY BeforeStep
<1>3. /\ mpc' = mpc /\ curr' = curr /\ prev' = prev /\ points' = points /\ decayed' = decayed
      /\ exported' = exported /\ silent' = silent /\ zone' = zone
      /\ Packets' /\ Delay' = Delay
    BY <1>1, <1>2, MainStill
<1>4. /\ \A u \in Threads : /\ e'[u] = (IF u = t THEN Null ELSE e[u])
                            /\ pc'[u] = (IF u = t THEN "out" ELSE pc[u])
                            /\ arg'[u] = (IF u = t THEN Null ELSE arg[u])
                            /\ score'[u] = (IF u = t THEN 0 ELSE score[u])
      /\ pc' \in [Threads -> {"out", "store", "make", "link"}] /\ arg' \in [Threads -> Domains \cup {Null}]
      /\ e' \in [Threads -> Pointers] /\ score' \in [Threads -> Nat]
      /\ t \in Calling /\ Calling' = Calling \ {t} /\ Active' \subseteq Active
      /\ mpc' \in Decay => Main \in met'
      /\ met = {} => \A u \in Threads : pc'[u] = "out"
    BY <1>1, <1>2, <1>3, EndFacts
<1>5. d \in Domains /\ x \in Pointers /\ (x \in Entries => entry[x].domain = d)
    BY <1>1, <1>2 DEF Calls, Call, CodeTypes
<1>6. Roots' \subseteq Roots \cup {Null}
    BY <1>1, <1>3, <1>4 DEF Roots
<1>7. met = {} => /\ x \in Entries /\ entry[x].next = bucket
                  /\ \A w \in Listed : entry[w].domain # d
    BY <1>1, <1>2 DEF Undisturbed
<1>. HIDE DEF x, d, nx
<1>8. /\ entry \in [Entries -> Record] /\ Acyclic(nx)
      /\ \A p \in Roots' : Alive(entry, p)
      /\ \A y \in Entries : Alive(entry, entry[y].next)
    BY <1>2, <1>6 DEF Heap, CodeTypes, Alive, nx
<1>9. /\ entry' \in [Entries -> Record] /\ Heap'
      /\ \A y \in Entries : (entry'[y] = entry[y] /\ entry[y].domain # Null) \/ entry'[y] = Free
      /\ \A p \in Roots' \cap Entries : entry'[p] = entry[p]
      /\ \A c, p : First(c, p)' <=> FirstIn(entry, bucket', c, p)
      /\ Listed' = Reached(nx, {bucket'})
      /\ \A y \in Listed' : entry'[y] = entry[y]
    BY <1>1, <1>8, AssignFacts DEF nx
<1>10. CodeTypes'
    BY <1>1, <1>2, <1>3, <1>4, <1>5, <1>9 DEF CodeTypes
<1>11. Counted'
    BY <1>1, <1>2, <1>3, <1>9 DEF Counted, Free, Judged
<1>12. Exported'
    BY <1>2, <1>3, <1>9, <1>10, ExportedForgets
<1>13. Walk'
    <2>1. prev \in Entries => entry'[prev].next = entry[prev].next
        BY <1>3, <1>9 DEF Roots
    <2>. QED  BY <1>2, <1>3, <2>1 DEF Walk
<1>14. Calls'
    <2>1. \A u \in Threads : u # t /\ e[u] \in Entries => entry'[e[u]].domain = entry[e[u]].domain
        <3>. SUFFICES ASSUME NEW u \in Threads, u # t, e[u] \in Entries
                      PROVE  entry'[e[u]].domain = entry[e[u]].domain
            OBVIOUS
        <3>1. e[u] \in Roots'
            BY <1>4 DEF Roots
        <3>. QED  BY <1>9, <3>1
    <2>. QED  BY <1>1, <1>2, <1>4, <2>1, Observed, CallsEnd
<1>15. "decay" \notin races' => NoDangling'
    <2>1. \A y \in Entries : entry'[y].next = entry[y].next \/ entry'[y].next = Null
        BY <1>9, FreeFacts
    <2>. QED  BY <1>2, <1>6, <2>1, Observed DEF NoDangling
<1>16. ASSUME met = {}, met' = {} PROVE Undisturbed' /\ Known' /\ sure' \in [Domains -> Ages]
    <2>1. /\ x \in Entries /\ entry[x].next = bucket /\ entry[x].domain = d
          /\ \A w \in Listed : entry[w].domain # d
        BY <1>5, <1>7, <1>16
    <2>2. Reached(nx, {x}) = {x} \cup Listed /\ x \in Reached(nx, {x})
        <3>1. nx[x] = bucket
            BY <1>8, <2>1, RecordFacts DEF nx
        <3>2. Reached(nx, {x}) = {x} \cup Reached(nx, {nx[x]})
            BY <2>1, TailStep
        <3>. QED  BY <3>1, <3>2 DEF Listed, nx
    <2>3. entry'[x] = entry[x] /\ \A c, p : c = d /\ p = x => First(c, p)'
        <3>1. FirstIn(entry, x, d, x)
            BY <2>1, <2>2 DEF FirstIn, nx
        <3>. QED  BY <1>1, <1>9, <2>2, <3>1
    <2>4. ASSUME NEW c, NEW p, First(c, p) PROVE First(c, p)' /\ entry'[p] = entry[p]
        <3>1. /\ p \in Listed /\ entry[p].domain = c
              /\ \A w \in Listed : entry[w].domain = c => w \in Reached(nx, {p})
            BY <2>4 DEF First, FirstIn, Listed, nx
        <3>2. FirstIn(entry, x, c, p)
            BY <2>1, <2>2, <3>1 DEF FirstIn, nx
        <3>. QED  BY <1>1, <1>9, <2>2, <3>1, <3>2
    <2>5. \A c \in Domains : sure'[c] = IF d = c THEN entry'[x].age ELSE sure[c]
        BY <1>2, <1>4, <1>16, SureEnds DEF d, x
    <2>6. entry'[x].age \in Ages
        BY <1>9, <2>1, RecordFacts
    <2>7. sure' \in [Domains -> Ages]
        BY <1>2, <1>4, <1>16, <2>6, SureTyped DEF x
    <2>8. ASSUME NEW c \in Domains, sure'[c] < NotSure
          PROVE  \E p \in Entries : First(c, p)' /\ entry'[p].age = sure'[c]
        <3>1. CASE c = d
            BY <2>1, <2>3, <2>5, <3>1
        <3>2. CASE c # d
            <4>1. sure'[c] = sure[c]
                BY <2>5, <3>2
            <4>2. PICK p \in Entries : First(c, p) /\ entry[p].age = sure[c]
                BY <1>2, <2>8, <4>1 DEF Known
            <4>. QED  BY <2>4, <4>1, <4>2
        <3>. QED  BY <3>1, <3>2
    <2>9. Known'
        <3>1. NotSure' = NotSure
            BY DEF NotSure
        <3>. QED  BY <2>8, <3>1 DEF Known
    <2>10. Undisturbed'
        BY <1>4, <1>16 DEF Undisturbed
    <2>. QED  BY <2>7, <2>9, <2>10
<1>17. CorruptOnlyByDecay'
    BY <1>1, <1>2, <1>3, Observed DEF CorruptOnlyByDecay
<1>18. Losing'
    <2>1. curr \in Entries => entry'[curr].domain = entry[curr].domain
        BY <1>3, <1>9 DEF Roots
    <2>2. \A c \in Domains : blocks[c] \in Nat
        BY <1>2 DEF CodeTypes
    <2>. QED  BY <1>1, <1>2, <1>3, <1>4, <2>1, <2>2, LosingStays
<1>. QED  BY <1>3, <1>4, <1>9, <1>10, <1>11, <1>12, <1>13, <1>14, <1>15, <1>16, <1>17, <1>18, StepIInv

-----------------------------------------------------------------------------
(* The steps of main.                                                      *)

\* rep_decay that met a call stays one that did.
LEMMA MainStays ==
    ASSUME Meetings, mpc' \in Decay, Observe(0), Main \notin met'
    PROVE  Main \notin met
BY DEF Meetings, Observe, Active

\* rep_decay that met no call is at an entry of the list.
LEMMA WalkListed ==
    ASSUME Chain, Walk, CodeTypes, curr \in Entries
    PROVE  curr \in Listed
<1>. DEFINE nx == nexts(entry)
<1>1. Closed(nx, Listed) /\ {bucket} \cap Entries \subseteq Listed /\ Listed \subseteq Entries
    BY ReachedFacts DEF Listed
<1>2. CASE prev = Null
    BY <1>1, <1>2 DEF Chain
<1>3. CASE prev # Null
    <2>1. prev \in Listed
        BY <1>3 DEF Chain
    <2>2. nx[prev] = curr
        BY <1>1, <2>1, RecordFacts DEF Walk, CodeTypes
    <2>. HIDE DEF nx
    <2>. QED  BY <1>1, <2>1, <2>2 DEF Closed
<1>. QED  BY <1>2, <1>3

\* Steps that leave the list, the calls and rep_decay where they are.
LEMMA StillIInv ==
    ASSUME IInv, ~corrupt, Observe(0),
           bucket' = bucket, entry' = entry, pc' = pc, arg' = arg, e' = e, score' = score,
           curr' = curr, prev' = prev, blocks' = blocks, mpc' \in Decay <=> mpc \in Decay,
           mpc' = mpc \/ (mpc # "judge" /\ mpc' # "judge"),
           CodeTypes', Losing', Packets', Exported', CorruptOnlyByDecay'
    PROVE  IInv'
<1>. USE ListAssumption, ReputationAssumption
<1>1. /\ TypeOK /\ CodeTypes /\ Counted /\ Heap /\ Walk /\ Calls /\ Meetings /\ Undisturbed /\ Known
      /\ "decay" \notin races => NoDangling
      /\ mpc \in Decay /\ Main \notin met => Chain
    BY BeforeStep
<1>2. Active' = Active /\ Calling' = Calling /\ Roots' = Roots
    BY DEF Active, Calling, Roots
<1>3. Counted'
    BY <1>1 DEF Counted, Free, Judged
<1>4. Heap'
    BY <1>1, <1>2, HeapGrows
<1>5. Walk' /\ Calls'
    <2>1. races \subseteq races'
        BY <1>1, Observed
    <2>. QED  BY <1>1, <2>1 DEF Walk, Calls, Call
<1>6. "decay" \notin races' => NoDangling'
    BY <1>1, <1>2, Observed DEF NoDangling
<1>7. Listed' = Listed /\ \A c, p : First(c, p)' <=> First(c, p)
    BY SameList
<1>8. mpc' \in Decay /\ Main \notin met' => Chain'
    <2>. SUFFICES ASSUME mpc' \in Decay, Main \notin met' PROVE Chain'
        OBVIOUS
    <2>1. Chain
        BY <1>1, MainStays
    <2>. QED  BY <1>7, <2>1 DEF Chain
<1>9. met = {} => Undisturbed'
    BY <1>1, <1>7 DEF Undisturbed
<1>10. met' = {} => sure' = sure
    BY <1>1, <1>2, SureStays
<1>11. met' = {} => Known'
    <2>1. NotSure' = NotSure
        BY DEF NotSure
    <2>. QED  BY <1>1, <1>7, <1>10, <2>1 DEF Known
<1>12. met' = {} => sure' \in [Domains -> Ages]
    BY <1>1, <1>10 DEF TypeOK
<1>. QED  BY <1>2, <1>3, <1>4, <1>5, <1>6, <1>8, <1>9, <1>11, <1>12, StepIInv

\* rep_decay has lost nothing of what it has read, as long as it stays where it is.
LEMMA StillLosing ==
    ASSUME Losing, TypeOK, Meetings, Observe(0), entry' = entry, blocks' = blocks,
           mpc' = mpc, curr' = curr, points' = points
    PROVE  Losing'
<1>1. Main \notin met' /\ mpc' \in Decay => Main \notin met
    BY MainStays
<1>2. mpc' \in {"read", "write", "judge"} => mpc' \in Decay
    BY DEF Decay
<1>. QED  BY <1>1, <1>2 DEF Losing, Stale

\* A packet does not shorten the wait for an export.
LEMMA PacketDelay ==
    ASSUME CodeTypes, packet
    PROVE  /\ Delay <= Delay' /\ exported' \in 0..(EXPORT + 1) /\ exported' # Null
           /\ silent' = 0 /\ 0 \in 0..(Gap + 1) /\ mpc' # "recv"
<1>. USE ReputationAssumption
<1>1. /\ mpc = "recv" /\ mpc' # "recv" /\ silent' = 0
      /\ exported' = IF exported = Null THEN 0 ELSE exported
    BY DEF packet
<1>2. silent \in 0..(Gap + 1) /\ (exported = Null \/ exported \in 0..(EXPORT + 1))
    BY DEF CodeTypes
<1>3. EXPORT \in Nat /\ Gap \in Nat /\ 0 # Null /\ 0 \in 0..(EXPORT + 1) /\ 0 \in 0..(Gap + 1)
    <2>1. 0 \in Nat /\ Null \notin Nat
        OBVIOUS
    <2>. QED  BY <2>1
<1>4. exported' \in 0..(EXPORT + 1) /\ exported' # Null
    <2>1. CASE exported = Null
        <3>1. exported' = 0
            BY <1>1, <2>1
        <3>. QED  BY ONLY <1>3, <3>1
    <2>2. CASE exported # Null
        <3>1. exported' = exported
            BY <1>1, <2>2
        <3>. QED  BY ONLY <1>2, <2>2, <3>1
    <2>. QED  BY <2>1, <2>2
<1>5. Delay' = IF exported' <= EXPORT THEN exported' + Gap + 1 ELSE EXPORT + Gap + 1 + (Gap + 1)
    BY <1>1, <1>4 DEF Delay
<1>6. CASE exported = Null
    <2>1. Delay = silent /\ exported' = 0
        BY <1>1, <1>6 DEF Delay
    <2>2. Delay' = 0 + Gap + 1
        BY <1>3, <1>5, <2>1
    <2>3. Delay <= Delay'
        BY <1>2, <1>3, <2>1, <2>2
    <2>. QED  BY <1>1, <1>3, <1>4, <2>3
<1>7. CASE exported # Null
    <2>1. Delay = IF exported <= EXPORT THEN exported + Gap + 1 ELSE EXPORT + Gap + 1 + silent
        BY <1>1, <1>7 DEF Delay
    <2>2. exported' = exported /\ exported \in 0..(EXPORT + 1)
        BY <1>1, <1>2, <1>7
    <2>. QED  BY <1>1, <1>2, <1>3, <1>4, <1>5, <2>1, <2>2
<1>. QED  BY <1>1, <1>3, <1>4, <1>6, <1>7

\* A packet, after which rep_decay may begin at the head of the list.
LEMMA packetIInv ==
    ASSUME IInv, ~corrupt, packet, Observe(0)
    PROVE  IInv'
<1>. USE ListAssumption, ReputationAssumption
<1>. DEFINE nx == nexts(entry)
<1>1. /\ mpc = "recv"
      /\ bucket' = bucket /\ entry' = entry /\ pc' = pc /\ arg' = arg /\ e' = e /\ score' = score
      /\ prev' = prev /\ zone' = zone /\ corrupt' = corrupt /\ blocks' = blocks
      /\ points' = points
      /\ \/ mpc' = "decay" /\ curr' = bucket /\ decayed' = 0
         \/ mpc' = "export" /\ curr' = curr /\ decayed' = decayed
    BY DEF packet, calls
<1>2. /\ TypeOK /\ CodeTypes /\ Counted /\ Losing /\ Packets /\ Exported
      /\ Heap /\ Walk /\ Calls /\ Meetings /\ Undisturbed /\ Known
      /\ "decay" \notin races => NoDangling
    BY BeforeStep
<1>3. /\ Delay <= Delay' /\ exported' \in 0..(EXPORT + 1) /\ exported' # Null
      /\ silent' = 0 /\ 0 \in 0..(Gap + 1) /\ mpc' # "recv"
    BY <1>2, PacketDelay
<1>4. CodeTypes'
    <2>1. decayed' \in Ages /\ curr' \in Pointers
        BY <1>1, <1>2 DEF CodeTypes, Ages
    <2>2. exported' \in 0..(EXPORT + 1) \cup {Null} /\ silent' \in 0..(Gap + 1)
        BY <1>3
    <2>3. mpc' \in {"recv", "export"} \cup Decay
        BY <1>1 DEF Decay
    <2>. QED  BY <1>1, <1>2, <2>1, <2>2, <2>3 DEF CodeTypes
<1>5. Packets'
    BY <1>3 DEF Packets
<1>6. Exported'
    <2>1. \A y \in Entries : Spent(y)' = Spent(y) /\ Spent(y) \in Nat
        BY <1>1, <1>2, MeasuredHolds DEF Spent, Measured, Judged
    <2>. QED  BY <1>1, <1>2, <1>3, <1>4, <2>1, Observed, ExportedStays
<1>7. CorruptOnlyByDecay'
    BY <1>1 DEF CorruptOnlyByDecay
<1>8. Losing' /\ mpc \notin Decay
    BY <1>1 DEF Losing, Decay
<1>9. CASE mpc' = "export" /\ curr' = curr
    <2>1. mpc' \notin Decay
        BY <1>9 DEF Decay
    <2>. QED  BY <1>1, <1>4, <1>5, <1>6, <1>7, <1>8, <1>9, <2>1, StillIInv
<1>10. CASE mpc' = "decay" /\ curr' = bucket
    <2>0. mpc' \in Decay /\ ~(mpc' = "judge")
        BY <1>10 DEF Decay
    <2>1. Active \subseteq Active' /\ Calling' = Calling /\ Main \in Active'
        BY <1>1, <1>8, <2>0 DEF Active, Calling
    <2>2. curr = Null /\ prev = Null
        BY <1>2, <1>8 DEF Walk
    <2>3. Roots' = Roots
        BY <1>1, <1>10, <2>2 DEF Roots
    <2>4. Heap'
        BY <1>1, <1>2, <2>3, HeapGrows
    <2>5. Walk' /\ Calls' /\ Counted'
        BY <1>1, <1>2, <1>10, <2>0, <2>2, Observed DEF Walk, Calls, Call, Counted, Free, Judged
    <2>6. "decay" \notin races' => NoDangling'
        BY <1>1, <1>2, <2>3, Observed DEF NoDangling
    <2>7. ASSUME Main \notin met' PROVE Chain'
        <3>1. Calling = {}
            BY <1>2, <2>0, <2>1, <2>7, Observed
        <3>2. \A t \in Threads : e[t] = Null
            BY <1>2, <3>1 DEF Calling, Calls, Call
        <3>3. {bucket} \subseteq Roots /\ Roots \cap Entries \subseteq {bucket}
            BY <2>2, <3>2 DEF Roots
        <3>4. Reached(nx, Roots) \subseteq Reached(nx, {bucket})
            <4>1. /\ Reached(nx, {bucket}) \in SUBSET Entries /\ Closed(nx, Reached(nx, {bucket}))
                  /\ Roots \cap Entries \subseteq Reached(nx, {bucket})
                BY <3>3, ReachedFacts
            <4>. QED  BY <4>1, ReachedFacts
        <3>5. \A x \in Entries : entry[x].next \in Entries => x \in Reached(nx, {bucket})
            <4>. SUFFICES ASSUME NEW x \in Entries, entry[x].next \in Entries PROVE x \in Reached(nx, {bucket})
                OBVIOUS
            <4>1. entry[x] # Free
                BY FreeFacts
            <4>2. entry[x].domain # Null
                BY <1>2, <4>1 DEF Counted
            <4>. QED  BY <1>2, <3>4, <4>2 DEF Heap
        <3>6. Acyclic(nx) /\ \A x \in Entries : nx[x] = entry[x].next
            BY <1>2, RecordFacts DEF Heap, CodeTypes
        <3>. HIDE DEF nx
        <3>7. ASSUME NEW x \in Entries, NEW y \in Entries, entry[x].next \in Entries
              PROVE  (entry[x].next = entry[y].next => x = y) /\ entry[x].next # bucket
            <4>1. x \in Reached(nx, {bucket}) /\ nx[x] \in Entries
                BY <3>5, <3>6, <3>7
            <4>2. nx[x] # bucket
                BY <3>6, <4>1, OnePredecessor
            <4>3. ASSUME entry[x].next = entry[y].next PROVE x = y
                <5>1. y \in Reached(nx, {bucket}) /\ nx[x] = nx[y]
                    BY <3>5, <3>6, <3>7, <4>3
                <5>2. Acyclic(nx)
                    BY <3>6
                <5>3. nx[x] = nx[y] => x = y
                    BY ONLY <4>1, <5>1, <5>2, OnePredecessor, Zenon
                <5>. QED  BY <5>1, <5>3
            <4>. QED  BY <3>6, <4>2, <4>3
        <3>. QED  BY <1>1, <1>10, <2>2, <3>7 DEF Chain
    <2>8. \A c, p : First(c, p)' <=> First(c, p)
        BY <1>1, SameList
    <2>9. met' = {} => sure' = sure
        BY <1>2, <2>1, SureStays
    <2>10. met' = {} => Known'
        <3>1. NotSure' = NotSure
            BY DEF NotSure
        <3>. QED  BY <1>1, <1>2, <2>8, <2>9, <3>1 DEF Known
    <2>11. met' = {} => sure' \in [Domains -> Ages]
        BY <1>2, <2>9 DEF TypeOK
    <2>12. (\A a, b \in Active' : a = b) => Undisturbed'
        <3>. SUFFICES ASSUME \A a, b \in Active' : a = b PROVE Undisturbed'
            OBVIOUS
        <3>1. \A t \in Threads : pc'[t] = "out"
            BY <2>0, <2>1 DEF Active, Calling
        <3>. QED  BY <3>1 DEF Undisturbed
    <2>. QED  BY <1>4, <1>5, <1>6, <1>7, <1>8, <2>0, <2>1, <2>4, <2>5, <2>6, <2>7, <2>10, <2>11, <2>12, StepIInv
<1>. QED  BY <1>1, <1>9, <1>10

\* The export of main, or no export.
LEMMA ad_export_rpzIInv ==
    ASSUME IInv, ~corrupt, ad_export_rpz, Observe(0)
    PROVE  IInv'
<1>. USE ListAssumption, ReputationAssumption
<1>1. /\ mpc = "export" /\ mpc' = "recv"
      /\ bucket' = bucket /\ entry' = entry /\ pc' = pc /\ arg' = arg /\ e' = e /\ score' = score
      /\ curr' = curr /\ prev' = prev /\ points' = points
      /\ decayed' = decayed /\ silent' = silent /\ blocks' = blocks
      /\ IF ExportDue THEN Export /\ exported' = 0
         ELSE zone' = zone /\ exported' = exported /\ corrupt' = corrupt
    BY DEF ad_export_rpz, calls
<1>2. TypeOK /\ CodeTypes /\ Losing /\ Packets /\ Exported /\ Meetings
    BY BeforeStep
<1>3. exported \in 0..(EXPORT + 1) /\ exported # Null /\ EXPORT \in Nat /\ \A n \in Nat : n # Null
    BY <1>1, <1>2 DEF Packets, CodeTypes
<1>0. Losing' /\ mpc \notin Decay /\ mpc' \notin Decay /\ mpc # "judge" /\ mpc' # "judge"
    BY <1>1 DEF Losing, Decay
<1>4. CASE ExportDue
    <2>1. Export /\ exported' = 0
        BY <1>1, <1>4
    <2>2. /\ corrupt' \in BOOLEAN /\ zone' \subseteq Domains
          /\ corrupt' => "decay" \in races \/ mpc \in Decay
          /\ races = {} => \A x \in Entries :
                entry[x].domain # Null /\ entry[x].peak > 1 /\ entry[x].score >= 1
                => entry[x].domain \in zone'
        BY <2>1, ExportFacts
    <2>3. exported' \in 0..(EXPORT + 1) \cup {Null}
        BY <1>3, <2>1
    <2>4. CodeTypes'
        BY <1>1, <1>2, <2>2, <2>3 DEF CodeTypes
    <2>5. Packets'
        BY <1>1, <1>3, <2>1 DEF Packets
    <2>6. Exported'
        BY <1>1, <1>2, <2>2, Observed DEF Exported
    <2>7. CorruptOnlyByDecay'
        BY <1>0, <1>1, <1>2, <2>2, Observed DEF CorruptOnlyByDecay
    <2>. QED  BY <1>0, <1>1, <2>4, <2>5, <2>6, <2>7, StillIInv
<1>5. CASE ~ExportDue
    <2>1. zone' = zone /\ exported' = exported /\ corrupt' = corrupt
        BY <1>1, <1>5
    <2>2. exported <= EXPORT /\ exported # EXPORT + 1
        BY <1>3, <1>5 DEF ExportDue
    <2>3. CodeTypes'
        BY <1>1, <1>2, <2>1 DEF CodeTypes
    <2>4. Packets'
        BY <1>1, <2>1, <2>2 DEF Packets
    <2>5. Delay' = Delay
        BY <1>1, <1>3, <2>1, <2>2 DEF Delay
    <2>6. Exported'
        BY <1>0, <1>1, <1>2, <2>1, <2>3, <2>5, ExportedForgets
    <2>7. CorruptOnlyByDecay'
        BY <1>1, <2>1 DEF CorruptOnlyByDecay
    <2>. QED  BY <1>0, <1>1, <2>3, <2>4, <2>6, <2>7, StillIInv
<1>. QED  BY <1>4, <1>5

\* The export of the handler of SIGHUP.
LEMMA sighupIInv ==
    ASSUME IInv, ~corrupt, sighup, Observe(0)
    PROVE  IInv'
<1>1. /\ Export /\ mpc' = mpc
      /\ bucket' = bucket /\ entry' = entry /\ pc' = pc /\ arg' = arg /\ e' = e /\ score' = score
      /\ curr' = curr /\ prev' = prev /\ points' = points /\ blocks' = blocks
      /\ decayed' = decayed /\ exported' = exported /\ silent' = silent
    BY DEF sighup, calls, timers
<1>2. TypeOK /\ CodeTypes /\ Losing /\ Packets /\ Exported /\ Meetings
    BY BeforeStep
<1>3. /\ corrupt' \in BOOLEAN /\ zone' \subseteq Domains
      /\ corrupt' => "decay" \in races \/ mpc \in Decay
      /\ races = {} => \A x \in Entries :
            entry[x].domain # Null /\ entry[x].peak > 1 /\ entry[x].score >= 1
            => entry[x].domain \in zone'
    BY <1>1, ExportFacts
<1>4. CodeTypes'
    BY <1>1, <1>2, <1>3 DEF CodeTypes
<1>5. Packets'
    BY <1>1, <1>2 DEF Packets
<1>6. Exported'
    BY <1>1, <1>2, <1>3, Observed DEF Exported
<1>7. CorruptOnlyByDecay'
    BY <1>1, <1>2, <1>3, Observed DEF CorruptOnlyByDecay
<1>8. Losing'
    BY <1>1, <1>2, StillLosing
<1>. QED  BY <1>1, <1>4, <1>5, <1>6, <1>7, <1>8, StillIInv

\* rep_decay runs into a freed entry.
LEMMA decay_danglingIInv ==
    ASSUME IInv, ~corrupt, decay_dangling, Observe(0)
    PROVE  IInv'
<1>1. /\ mpc = "decay" /\ corrupt' = TRUE /\ UNCHANGED main
      /\ bucket' = bucket /\ entry' = entry /\ pc' = pc /\ arg' = arg /\ e' = e /\ score' = score
      /\ blocks' = blocks
    BY DEF decay_dangling, calls
<1>2. TypeOK /\ CodeTypes /\ Losing /\ Packets /\ Exported /\ Meetings
    BY BeforeStep
<1>3. /\ mpc' = mpc /\ curr' = curr /\ prev' = prev /\ points' = points /\ decayed' = decayed
      /\ exported' = exported /\ silent' = silent /\ zone' = zone
      /\ Packets' /\ Delay' = Delay
    BY <1>1, <1>2, MainStill
<1>4. CodeTypes'
    BY <1>1, <1>2, <1>3 DEF CodeTypes
<1>5. Exported'
    BY <1>1, <1>2, <1>3, <1>4, ExportedForgets
<1>6. CorruptOnlyByDecay'
    BY <1>1, <1>3 DEF CorruptOnlyByDecay, Decay
<1>7. Losing'
    BY <1>1, <1>2, <1>3, StillLosing
<1>. QED  BY <1>1, <1>3, <1>4, <1>5, <1>6, <1>7, StillIInv

\* rep_decay finds an old entry, or reads its score.
LEMMA decay_oldIInv ==
    ASSUME IInv, ~corrupt, decay_old \/ decay_read, Observe(0)
    PROVE  IInv'
<1>. USE ListAssumption, ReputationAssumption
<1>1. /\ bucket' = bucket /\ entry' = entry /\ pc' = pc /\ arg' = arg /\ e' = e /\ score' = score
      /\ curr' = curr /\ prev' = prev /\ blocks' = blocks
      /\ decayed' = decayed /\ exported' = exported /\ silent' = silent /\ zone' = zone
      /\ corrupt' = corrupt
      /\ \/ /\ mpc = "decay" /\ mpc' = "read" /\ curr \in Entries /\ Stale(curr)
            /\ points' = points
         \/ mpc = "read" /\ mpc' = "write" /\ points' = entry[curr].score
    BY DEF decay_old, decay_read, calls, timers
<1>2. /\ TypeOK /\ CodeTypes /\ Counted /\ Losing /\ Packets /\ Exported
      /\ Heap /\ Walk /\ Calls /\ Meetings
    BY BeforeStep
<1>3. /\ mpc \in Decay /\ mpc' \in Decay /\ mpc # "recv" /\ mpc' # "recv"
      /\ mpc # "judge" /\ mpc' # "judge"
    BY <1>1 DEF Decay
<1>4. /\ curr \in Entries /\ entry[curr] # Free
      /\ Main \notin met => Stale(curr)
    <2>1. curr \in Entries /\ (Main \notin met => Stale(curr))
        BY <1>1, <1>2 DEF Losing
    <2>2. entry[curr].domain # Null
        BY <1>2, <2>1 DEF Heap, Roots, Alive
    <2>. QED  BY <2>1, <2>2, FreeFacts
<1>5. /\ entry[curr].domain \in Domains /\ entry[curr].score \in Nat
      /\ entry[curr].score >= 1 /\ entry[curr].score <= blocks[entry[curr].domain]
    BY <1>2, <1>3, <1>4, RecordFacts DEF Counted, Judged, CodeTypes
<1>6. CodeTypes'
    BY <1>1, <1>2, <1>3, <1>5 DEF CodeTypes
<1>7. Packets' /\ Delay' = Delay
    BY <1>1, <1>2, <1>3 DEF Packets, Delay
<1>8. Exported'
    BY <1>1, <1>2, <1>3, <1>6, <1>7, ExportedForgets
<1>9. CorruptOnlyByDecay'
    BY <1>1 DEF CorruptOnlyByDecay
<1>10. Losing'
    <2>1. Main \notin met' => Main \notin met
        BY <1>2, <1>3, MainStays
    <2>. QED  BY <1>1, <1>4, <1>5, <2>1 DEF Losing, Stale
<1>. QED  BY <1>1, <1>3, <1>6, <1>7, <1>8, <1>9, <1>10, StillIInv

\* rep_decay changes its entry in place, and stays there or goes on to the next.
LEMMA DecayStep ==
    ASSUME IInv, ~corrupt, Observe(0), mpc \in Decay, mpc' \in Decay, NEW x \in Entries, x = curr,
           NEW ents \in [Entries -> Record], Assign(ents),
           \A y \in Entries : /\ ents[y].domain = entry[y].domain /\ ents[y].next = entry[y].next
                              /\ ents[y].peak = entry[y].peak
                              /\ y # x => ents[y] = entry[y],
           Main \notin met => Stale(x) \/ ents = entry,
           \/ prev' = prev /\ curr' = curr
           \/ prev' = x /\ curr' = entry[x].next /\ mpc' # "judge",
           bucket' = bucket, pc' = pc, arg' = arg, e' = e, score' = score, points' \in Nat,
           decayed' = decayed, exported' = exported, silent' = silent, zone' = zone,
           corrupt' = corrupt, blocks' = blocks, Losing',
           ents[x].score >= 1 \/ mpc' = "judge",
           ents[x].score <= blocks[entry[x].domain],
           races' = {} /\ ents[x].score >= 1 /\ entry'[x] = ents[x]
           => entry[x].score >= 1 /\ Spent(x)' <= Spent(x)
    PROVE  IInv'
<1>. USE ListAssumption, ReputationAssumption
<1>2. /\ TypeOK /\ CodeTypes /\ Counted /\ Losing /\ Packets /\ Exported
      /\ Heap /\ Walk /\ Calls /\ Meetings /\ Undisturbed /\ Known
      /\ "decay" \notin races => NoDangling
      /\ mpc \in Decay /\ Main \notin met => Chain
    BY BeforeStep
<1>3. entry \in [Entries -> Record] /\ x \in Roots /\ entry[x].next \in Pointers
    BY <1>2, RecordFacts DEF CodeTypes, Roots
<1>4. x \in Roots' /\ \A p \in Roots' : p \in Roots \/ p = entry[x].next
    BY DEF Roots
<1>5. \A p \in Roots' : Alive(entry, p)
    BY <1>2, <1>4 DEF Heap
<1>6. /\ entry' \in [Entries -> Record] /\ Heap'
      /\ \A y \in Entries : (entry'[y] = ents[y] /\ ents[y].domain # Null) \/ entry'[y] = Free
      /\ \A p \in Roots' \cap Entries : entry'[p] = ents[p]
      /\ \A c, p : First(c, p)' <=> First(c, p)
      /\ Listed' = Listed
      /\ \A y \in Listed : entry'[y] = ents[y]
    BY <1>2, <1>3, <1>5, InPlace
<1>7. Active' = Active /\ Calling' = Calling
    BY DEF Active, Calling
<1>8. mpc # "recv" /\ mpc' # "recv"
    BY DEF Decay
<1>9. CodeTypes'
    BY <1>2, <1>3, <1>6 DEF CodeTypes
<1>10. Packets' /\ Delay' = Delay
    BY <1>2, <1>8 DEF Packets, Delay
<1>11. \A y \in Entries : y # x => ~Judged(y) /\ ~Judged(y)'
    BY DEF Judged
<1>12. Counted'
    <2>. SUFFICES ASSUME NEW y \in Entries, entry'[y] # Free
                  PROVE  /\ entry'[y].domain \in Domains
                         /\ entry'[y].score >= 1 \/ Judged(y)'
                         /\ entry'[y].score <= blocks[entry'[y].domain]
        BY DEF Counted, Free
    <2>1. entry'[y] = ents[y] /\ entry[y] # Free /\ ents[y].domain = entry[y].domain
        BY <1>6, FreeFacts
    <2>2. /\ entry[y].domain \in Domains
          /\ entry[y].score >= 1 \/ Judged(y)
          /\ entry[y].score <= blocks[entry[y].domain]
        BY <1>2, <2>1 DEF Counted
    <2>3. CASE y = x
        BY <2>1, <2>2, <2>3 DEF Judged
    <2>4. CASE y # x
        BY <1>11, <2>1, <2>2, <2>4
    <2>. QED  BY <2>3, <2>4
<1>13. Exported'
    <2>1. races \subseteq races' /\ Delay <= Delay'
        <3>1. Delay \in Nat
            BY <1>2, MeasuredHolds DEF Measured
        <3>. QED  BY <1>2, <1>10, <3>1, Observed
    <2>2. ASSUME races' = {}, NEW y \in Entries, entry'[y].domain # Null, entry'[y].peak > 1,
                 entry'[y].score >= 1
          PROVE  /\ entry'[y].domain = entry[y].domain /\ entry[y].peak > 1 /\ entry[y].score >= 1
                 /\ Spent(y)' <= Spent(y)
        <3>1. entry'[y] = ents[y]
            BY <1>6, <2>2, FreeFacts
        <3>2. CASE y # x
            <4>1. entry'[y] = entry[y]
                BY <3>1, <3>2
            <4>2. Spent(y)' = Spent(y) /\ Spent(y) \in Nat
                BY <1>2, <1>11, <3>2, <4>1, MeasuredHolds DEF Spent, Measured
            <4>. QED  BY <2>2, <4>1, <4>2
        <3>3. CASE y = x
            BY <2>2, <3>1, <3>3
        <3>. QED  BY <3>2, <3>3
    <2>. QED  BY <1>2, <1>9, <2>1, <2>2, ExportedStays
<1>14. Walk'
    <2>1. prev \in Entries => entry[prev].next = curr
        BY <1>2 DEF Walk
    <2>2. prev' \in Entries => prev' \in Roots' /\ entry'[prev'].next = entry[prev'].next
        BY <1>6 DEF Roots
    <2>. QED  BY <2>1, <2>2 DEF Walk
<1>15. Calls'
    <2>1. \A t \in Threads : e[t] \in Entries => entry'[e[t]].domain = entry[e[t]].domain
        BY <1>6 DEF Roots
    <2>2. races \subseteq races'
        BY <1>2, Observed
    <2>3. ASSUME NEW t \in Threads PROVE Call(t)'
        BY <1>2, <2>1, <2>2 DEF Calls, Call
    <2>. QED  BY <2>3 DEF Calls
<1>16. \A y \in Entries : entry'[y].next = entry[y].next \/ entry'[y].next = Null
    BY <1>6, FreeFacts
<1>17. "decay" \notin races' => NoDangling'
    BY <1>2, <1>4, <1>16, Observed DEF NoDangling
<1>18. ASSUME Main \notin met' PROVE Chain'
    <2>1. Chain
        BY <1>2, <1>18, MainStays
    <2>2. \A y, z \in Entries : entry'[y].next \in Entries /\ entry'[y].next = entry'[z].next => y = z
        BY <1>16, <2>1 DEF Chain
    <2>3. \A y \in Entries : entry'[y].next = bucket => bucket \notin Entries
        BY <1>16, <2>1 DEF Chain
    <2>4. x \in Listed
        BY <1>2, <2>1, WalkListed
    <2>5. prev' = Null => curr' = bucket'
        BY <2>1 DEF Chain
    <2>6. prev' \in Listed' \cup {Null}
        BY <1>6, <2>1, <2>4 DEF Chain
    <2>. QED  BY <2>2, <2>3, <2>5, <2>6 DEF Chain
<1>19. ASSUME met = {}, met' = {} PROVE Undisturbed' /\ Known' /\ sure' \in [Domains -> Ages]
    <2>1. \A t \in Threads : pc'[t] = "out"
        BY <1>2, <1>19, DecayAlone
    <2>2. sure' = sure
        BY <1>2, <1>7, <1>19, SureStays
    <2>3. ASSUME NEW c \in Domains, sure[c] < NotSure
          PROVE  \E p \in Entries : First(c, p)' /\ entry'[p].age = sure[c]
        <3>1. PICK p \in Entries : First(c, p) /\ entry[p].age = sure[c]
            BY <1>2, <2>3 DEF Known
        <3>2. p \in Listed
            BY <3>1 DEF First, FirstIn, Listed
        <3>3. ~Stale(p)
            <4>1. entry[p].age \in Ages
                BY <1>3, <3>1, RecordFacts
            <4>. QED  BY <2>3, <3>1, <4>1 DEF Stale, NotSure, Ages
        <3>4. ents[p] = entry[p]
            BY <1>19, <3>3
        <3>5. entry'[p] = entry[p]
            BY <1>6, <3>2, <3>4
        <3>. QED  BY <1>6, <3>1, <3>5
    <2>4. Known'
        <3>1. NotSure' = NotSure
            BY DEF NotSure
        <3>. QED  BY <2>2, <2>3, <3>1 DEF Known
    <2>5. Undisturbed'
        BY <2>1 DEF Undisturbed
    <2>. QED  BY <1>2, <2>2, <2>4, <2>5 DEF TypeOK
<1>20. CorruptOnlyByDecay'
    BY DEF CorruptOnlyByDecay
<1>. QED  BY <1>6, <1>7, <1>9, <1>10, <1>12, <1>13, <1>14, <1>15, <1>17, <1>18, <1>19, <1>20, StepIInv

\* rep_decay passes an entry that is recent.
LEMMA decay_nextIInv ==
    ASSUME IInv, ~corrupt, decay_next, Observe(0)
    PROVE  IInv'
<1>1. /\ mpc = "decay" /\ mpc' = mpc /\ curr \in Entries
      /\ prev' = curr /\ curr' = entry[curr].next /\ bucket' = bucket
      /\ pc' = pc /\ arg' = arg /\ e' = e /\ score' = score /\ points' = points
      /\ decayed' = decayed /\ exported' = exported /\ silent' = silent /\ zone' = zone
      /\ corrupt' = corrupt /\ blocks' = blocks /\ Assign(entry)
    BY DEF decay_next, calls, timers
<1>2. CodeTypes /\ Counted /\ Heap
    BY BeforeStep
<1>3. mpc \in Decay /\ mpc' \in Decay /\ mpc # "judge" /\ mpc' # "judge" /\ Losing'
    BY <1>1 DEF Decay, Losing
<1>4. entry[curr] # Free
    BY <1>1, <1>2, FreeFacts DEF Heap, Roots, Alive
<1>5. entry[curr].score >= 1 /\ entry[curr].score <= blocks[entry[curr].domain]
    BY <1>1, <1>2, <1>3, <1>4 DEF Counted, Judged
<1>6. ASSUME NEW x, x = curr, entry'[x] = entry[x] PROVE Spent(x)' <= Spent(x)
    <2>1. Spent(x)' = Spent(x)
        BY <1>3, <1>6 DEF Spent, Judged
    <2>2. Spent(x) \in Nat
        BY <1>1, <1>2, <1>6, MeasuredHolds DEF Measured
    <2>. QED  BY <2>1, <2>2
<1>. QED  BY <1>1, <1>2, <1>3, <1>5, <1>6, DecayStep DEF CodeTypes

\* Entry x with another score.
WithScore(ents, x, s) == [ents EXCEPT ![x].score = s]

LEMMA NewScore ==
    ASSUME NEW ents \in [Entries -> Record], NEW x \in Entries, NEW s \in Nat, NEW entt,
           entt = WithScore(ents, x, s)
    PROVE  /\ entt \in [Entries -> Record]
           /\ \A y \in Entries : /\ entt[y].domain = ents[y].domain /\ entt[y].next = ents[y].next
                                 /\ entt[y].peak = ents[y].peak
                                 /\ y # x => entt[y] = ents[y]
           /\ entt[x].score = s /\ entt[x].age = ents[x].age
<1>. DEFINE new == [ents[x] EXCEPT !.score = s]
<1>1. /\ ents[x] \in Record
      /\ entt = [ents EXCEPT ![x] = new]
    BY DEF WithScore
<1>2. /\ new \in Record /\ new.domain = ents[x].domain /\ new.next = ents[x].next
      /\ new.peak = ents[x].peak /\ new.score = s /\ new.age = ents[x].age
    BY <1>1 DEF Record
<1>. HIDE DEF new
<1>3. entt[x] = new /\ \A y \in Entries : y # x => entt[y] = ents[y]
    BY <1>1
<1>4. entt \in [Entries -> Record]
    BY <1>1, <1>2
<1>. QED  BY <1>2, <1>3, <1>4

\* Entry x with another age.
WithAge(ents, x, a) == [ents EXCEPT ![x].age = a]

LEMMA NewAge ==
    ASSUME NEW ents \in [Entries -> Record], NEW x \in Entries, NEW a \in Ages, NEW entt,
           entt = WithAge(ents, x, a)
    PROVE  /\ entt \in [Entries -> Record]
           /\ \A y \in Entries : /\ entt[y].domain = ents[y].domain /\ entt[y].next = ents[y].next
                                 /\ entt[y].peak = ents[y].peak
                                 /\ y # x => entt[y] = ents[y]
           /\ entt[x].age = a /\ entt[x].score = ents[x].score
<1>. DEFINE new == [ents[x] EXCEPT !.age = a]
<1>1. /\ ents[x] \in Record
      /\ entt = [ents EXCEPT ![x] = new]
    BY DEF WithAge
<1>2. /\ new \in Record /\ new.domain = ents[x].domain /\ new.next = ents[x].next
      /\ new.peak = ents[x].peak /\ new.age = a /\ new.score = ents[x].score
    BY <1>1 DEF Record
<1>. HIDE DEF new
<1>3. entt[x] = new /\ \A y \in Entries : y # x => entt[y] = ents[y]
    BY <1>1
<1>4. entt \in [Entries -> Record]
    BY <1>1, <1>2
<1>. QED  BY <1>2, <1>3, <1>4

\* rep_decay writes what it has read minus one.
LEMMA decay_writeIInv ==
    ASSUME IInv, ~corrupt, decay_write, Observe(0)
    PROVE  IInv'
<1>. USE ReputationAssumption
<1>. DEFINE ents == [entry EXCEPT ![curr].score = points - 1]
<1>1. /\ mpc = "write" /\ mpc' = "judge" /\ points' = 0
      /\ prev' = prev /\ curr' = curr /\ bucket' = bucket
      /\ pc' = pc /\ arg' = arg /\ e' = e /\ score' = score
      /\ decayed' = decayed /\ exported' = exported /\ silent' = silent /\ zone' = zone
      /\ corrupt' = corrupt /\ blocks' = blocks /\ Assign(ents)
    BY DEF decay_write, calls, timers
<1>2. TypeOK /\ CodeTypes /\ Losing /\ Meetings /\ blocks \in [Domains -> Nat]
    BY BeforeStep DEF CodeTypes
<1>3. mpc \in Decay /\ mpc' \in Decay
    BY <1>1 DEF Decay
<1>4. /\ curr \in Entries /\ entry[curr].domain \in Domains /\ points \in Nat
      /\ points >= 1 /\ points <= blocks[entry[curr].domain]
      /\ Main \notin met => Stale(curr) /\ points = entry[curr].score
    BY <1>1, <1>2 DEF Losing, CodeTypes
<1>5. /\ points - 1 \in Nat /\ points - 1 <= blocks[entry[curr].domain]
      /\ entry \in [Entries -> Record] /\ entry[curr].age \in Ages
    BY <1>2, <1>4, RecordFacts DEF CodeTypes
<1>0. ents = WithScore(entry, curr, points - 1)
    BY DEF WithScore
<1>. HIDE DEF ents
<1>6. /\ ents \in [Entries -> Record]
      /\ \A y \in Entries : /\ ents[y].domain = entry[y].domain /\ ents[y].next = entry[y].next
                            /\ ents[y].peak = entry[y].peak
                            /\ y # curr => ents[y] = entry[y]
      /\ ents[curr].score = points - 1 /\ ents[curr].age = entry[curr].age
    BY <1>0, <1>4, <1>5, NewScore
<1>7. \A y \in Entries : entry'[y] # Free => entry'[y] = ents[y]
    BY <1>1, <1>6 DEF Assign
<1>8. entry'[curr] = ents[curr]
    <2>1. curr \in Reached(nexts(ents), Roots')
        BY <1>1, <1>4, ReachedFacts DEF Roots
    <2>. QED  BY <1>1, <1>4, <2>1 DEF Assign
<1>9. Losing'
    <2>1. Main \notin met' => Main \notin met
        BY <1>2, <1>3, MainStays
    <2>. QED  BY <1>1, <1>4, <1>6, <1>8, <2>1 DEF Losing, Stale
<1>10. ASSUME NEW x, x = curr, races' = {}, ents[x].score >= 1
       PROVE  entry[x].score >= 1 /\ Spent(x)' <= Spent(x)
    <2>1. Main \notin met
        BY <1>2, <1>10, Observed
    <2>2. /\ entry[x].score = points /\ entry[x].age = DECAY_INTERVAL
          /\ DECAY_INTERVAL \in Nat /\ ~Judged(x) /\ Judged(x)'
        BY <1>1, <1>4, <1>5, <1>10, <2>1 DEF Stale, Ages, Judged
    <2>3. Spent(x) = DECAY_INTERVAL + (IF points <= 1 THEN DECAY_INTERVAL ELSE 0)
        BY <2>2 DEF Spent
    <2>4. Spent(x)' = 0 + (IF points - 1 <= 1 THEN DECAY_INTERVAL ELSE 0)
        BY <1>6, <1>8, <1>10, <2>2 DEF Spent
    <2>. QED  BY <1>4, <1>6, <1>10, <2>2, <2>3, <2>4
<1>. QED  BY <1>1, <1>3, <1>4, <1>5, <1>6, <1>9, <1>10, DecayStep

\* rep_decay keeps the entry, which is new again.
LEMMA decay_keepIInv ==
    ASSUME IInv, ~corrupt, decay_keep, Observe(0)
    PROVE  IInv'
<1>. USE ReputationAssumption
<1>. DEFINE ents == [entry EXCEPT ![curr].age = 0]
<1>1. /\ mpc = "judge" /\ mpc' = "decay" /\ entry[curr].score > 0
      /\ prev' = curr /\ curr' = entry[curr].next /\ bucket' = bucket
      /\ pc' = pc /\ arg' = arg /\ e' = e /\ score' = score /\ points' = points
      /\ decayed' = decayed /\ exported' = exported /\ silent' = silent /\ zone' = zone
      /\ corrupt' = corrupt /\ blocks' = blocks /\ Assign(ents)
    BY DEF decay_keep, Survives, calls, timers
<1>2. CodeTypes /\ Counted /\ Losing /\ Heap
    BY BeforeStep
<1>3. mpc \in Decay /\ mpc' \in Decay /\ mpc' # "judge" /\ Losing'
    BY <1>1 DEF Decay, Losing
<1>4. curr \in Entries /\ (Main \notin met => Stale(curr))
    BY <1>1, <1>2 DEF Losing
<1>5. /\ entry \in [Entries -> Record] /\ entry[curr].score \in Nat /\ 0 \in Ages
    BY <1>2, <1>4, RecordFacts DEF CodeTypes, Ages
<1>0. ents = WithAge(entry, curr, 0)
    BY DEF WithAge
<1>. HIDE DEF ents
<1>6. /\ ents \in [Entries -> Record]
      /\ \A y \in Entries : /\ ents[y].domain = entry[y].domain /\ ents[y].next = entry[y].next
                            /\ ents[y].peak = entry[y].peak
                            /\ y # curr => ents[y] = entry[y]
      /\ ents[curr].score = entry[curr].score /\ ents[curr].age = 0
    BY <1>0, <1>4, <1>5, NewAge
<1>7. entry[curr] # Free
    BY <1>2, <1>4, FreeFacts DEF Heap, Roots, Alive
<1>8. entry[curr].score >= 1 /\ entry[curr].score <= blocks[entry[curr].domain]
    BY <1>1, <1>2, <1>4, <1>5, <1>7 DEF Counted
<1>9. ASSUME NEW x, x = curr, entry'[x] = ents[x] PROVE Spent(x)' <= Spent(x)
    <2>1. Judged(x) /\ ~Judged(x)'
        BY <1>1, <1>3, <1>9 DEF Judged
    <2>2. Spent(x)' = Spent(x)
        BY <1>6, <1>9, <2>1 DEF Spent
    <2>3. Spent(x) \in Nat
        BY <1>2, <1>4, <1>9, MeasuredHolds DEF Measured
    <2>. QED  BY <2>2, <2>3
<1>. QED  BY <1>1, <1>2, <1>3, <1>4, <1>6, <1>8, <1>9, DecayStep DEF CodeTypes

\* rep_decay is at the end of the list.
LEMMA decay_endIInv ==
    ASSUME IInv, ~corrupt, decay_end, Observe(0)
    PROVE  IInv'
<1>. USE ListAssumption, ReputationAssumption
<1>1. /\ mpc = "decay" /\ mpc' = "export" /\ curr' = Null /\ prev' = Null /\ bucket' = bucket
      /\ points' = points
      /\ pc' = pc /\ arg' = arg /\ e' = e /\ score' = score
      /\ decayed' = decayed /\ exported' = exported /\ silent' = silent /\ zone' = zone
      /\ corrupt' = corrupt /\ blocks' = blocks /\ Assign(entry)
    BY DEF decay_end, calls, timers
<1>2. /\ TypeOK /\ CodeTypes /\ Counted /\ Losing /\ Packets /\ Exported
      /\ Heap /\ Walk /\ Calls /\ Meetings /\ Undisturbed /\ Known
      /\ "decay" \notin races => NoDangling
    BY BeforeStep
<1>0. /\ mpc \in Decay /\ mpc' \notin Decay /\ Losing'
      /\ mpc # "judge" /\ mpc' # "judge" /\ mpc # "recv" /\ mpc' # "recv"
    BY <1>1 DEF Decay, Losing
<1>3. Roots' \subseteq Roots \cup {Null}
    BY <1>1 DEF Roots
<1>4. /\ entry \in [Entries -> Record] /\ Acyclic(nexts(entry))
      /\ \A p \in Roots' : Alive(entry, p)
      /\ \A y \in Entries : Alive(entry, entry[y].next)
    BY <1>2, <1>3 DEF Heap, CodeTypes, Alive
<1>5. /\ entry' \in [Entries -> Record] /\ Heap'
      /\ \A y \in Entries : (entry'[y] = entry[y] /\ entry[y].domain # Null) \/ entry'[y] = Free
      /\ \A p \in Roots' \cap Entries : entry'[p] = entry[p]
      /\ \A d, p : First(d, p)' <=> FirstIn(entry, bucket', d, p)
      /\ Listed' = Reached(nexts(entry), {bucket'})
      /\ \A y \in Listed' : entry'[y] = entry[y]
    BY <1>1, <1>4, AssignFacts
<1>6. Active' \subseteq Active /\ Calling' = Calling
    BY <1>0, <1>1 DEF Active, Calling
<1>7. CodeTypes'
    BY <1>1, <1>2, <1>5 DEF CodeTypes, Pointers
<1>8. Packets'
    BY <1>0, <1>1, <1>2 DEF Packets
<1>9. Delay' = Delay
    BY <1>0, <1>1 DEF Delay
<1>10. Counted'
    BY <1>0, <1>1, <1>2, <1>5 DEF Counted, Free, Judged
<1>11. Exported'
    BY <1>0, <1>1, <1>2, <1>5, <1>7, <1>9, ExportedForgets
<1>12. Walk'
    BY <1>1 DEF Walk
<1>13. Calls'
    <2>1. \A u \in Threads : e'[u] \in Entries => entry'[e'[u]] = entry[e'[u]]
        BY <1>5 DEF Roots
    <2>2. races \subseteq races'
        BY <1>2, Observed
    <2>3. ASSUME NEW u \in Threads PROVE Call(u)'
        BY <1>1, <1>2, <2>1, <2>2 DEF Call, Calls
    <2>. QED  BY <2>3 DEF Calls
<1>14. "decay" \notin races' => NoDangling'
    BY <1>2, <1>3, <1>5, Observed, FreeFacts DEF NoDangling
<1>15. ASSUME met = {}, met' = {} PROVE Undisturbed' /\ Known' /\ sure' \in [Domains -> Ages]
    <2>1. \A t \in Threads : pc'[t] = "out"
        BY <1>0, <1>1, <1>2, <1>15, DecayAlone
    <2>2. \A d, p : First(d, p) => First(d, p)' /\ entry'[p] = entry[p]
        BY <1>1, <1>5 DEF First, FirstIn
    <2>3. sure' = sure
        BY <1>2, <1>6, <1>15, SureStays
    <2>4. Known'
        <3>1. NotSure' = NotSure
            BY DEF NotSure
        <3>. QED  BY <1>2, <2>2, <2>3, <3>1 DEF Known
    <2>5. Undisturbed'
        BY <2>1 DEF Undisturbed
    <2>. QED  BY <1>2, <2>3, <2>4, <2>5 DEF TypeOK
<1>16. CorruptOnlyByDecay'
    BY <1>1 DEF CorruptOnlyByDecay
<1>. QED  BY <1>0, <1>1, <1>5, <1>6, <1>7, <1>8, <1>10, <1>11, <1>12, <1>13, <1>14, <1>15, <1>16, StepIInv

\* rep_decay that met no call knows the one pointer to the entry where it is.
LEMMA ChainFacts ==
    ASSUME Chain, Walk, CodeTypes, curr \in Entries
    PROVE  /\ \A y \in Entries : entry[y].next = curr => y = prev
           /\ prev = Null => bucket = curr
           /\ prev # Null => prev \in Entries /\ entry[prev].next = curr /\ bucket # curr
<1>1. prev # Null => prev \in Entries /\ entry[prev].next = curr
    BY DEF CodeTypes, Walk
<1>2. prev = Null => bucket = curr
    BY DEF Chain
<1>3. prev # Null => bucket # curr
    BY <1>1 DEF Chain
<1>4. ASSUME NEW y \in Entries, entry[y].next = curr PROVE y = prev
    <2>1. CASE prev = Null
        BY <1>2, <1>4, <2>1 DEF Chain
    <2>2. CASE prev # Null
        BY <1>1, <1>4, <2>2 DEF Chain
    <2>. QED  BY <2>1, <2>2
<1>. QED  BY <1>1, <1>2, <1>3, <1>4

\* rep_decay unlinks an entry and frees it.
LEMMA decay_freeIInv ==
    ASSUME IInv, ~corrupt, decay_free, Observe(0)
    PROVE  IInv'
<1>. USE ListAssumption, ReputationAssumption
<1>. DEFINE x    == curr
            n    == entry[x].next
            nx   == nexts(entry)
            ents == [y \in Entries |-> [entry[y] EXCEPT !.next = Unlinked[2][y]]]
            ny   == nexts(ents)
<1>0. /\ mpc = "judge" /\ mpc' = "decay" /\ points' = points
      /\ prev' = prev /\ curr' = n
      /\ bucket' = (IF prev = Null THEN n ELSE Without(x, bucket))
      /\ e' = [t \in Threads |-> Without(x, e[t])]
      /\ pc' = pc /\ arg' = arg /\ score' = score
      /\ decayed' = decayed /\ exported' = exported /\ silent' = silent /\ zone' = zone
      /\ corrupt' = corrupt /\ blocks' = blocks
      /\ Assign(ents)
    BY DEF decay_free, timers, Unlinked
<1>2. /\ TypeOK /\ CodeTypes /\ Counted /\ Losing /\ Packets /\ Exported
      /\ Heap /\ Walk /\ Calls /\ Meetings /\ Undisturbed /\ Known
      /\ "decay" \notin races => NoDangling
      /\ mpc \in Decay /\ Main \notin met => Chain
    BY BeforeStep
<1>1. /\ mpc \in Decay /\ mpc' \in Decay /\ mpc # "recv" /\ mpc' # "recv" /\ Losing'
      /\ x \in Entries /\ (Main \notin met => Stale(x))
      /\ \A y \in Entries : ~Judged(y)' /\ (Judged(y) <=> y = x)
    BY <1>0, <1>2 DEF Decay, Losing, Judged
<1>3. /\ entry \in [Entries -> Record] /\ n \in Pointers
      /\ \A y \in Entries : nx[y] = entry[y].next /\ entry[y].next \in Pointers
      /\ \A y \in Entries : Alive(entry, entry[y].next)
      /\ Acyclic(nx)
    BY <1>0, <1>1, <1>2, RecordFacts DEF CodeTypes, Heap
<1>4. prev \in Entries => entry[prev].next = x
    BY <1>0, <1>1, <1>2 DEF Walk
<1>5. n # x
    <2>1. {x} \in SUBSET Entries /\ {x} # {}
        BY <1>0, <1>1
    <2>. QED  BY <1>0, <1>1, <1>3, <2>1 DEF Acyclic
<1>6. \A y \in Entries : Unlinked[2][y] = IF y = prev THEN n ELSE Without(x, entry[y].next)
    BY DEF Unlinked
<1>7. \A y \in Entries : Unlinked[2][y] \in Pointers
    BY <1>3, <1>6 DEF Without, Pointers
<1>8. \A y \in Entries :
          /\ ents[y] \in Record
          /\ ents[y].domain = entry[y].domain /\ ents[y].score = entry[y].score
          /\ ents[y].age = entry[y].age /\ ents[y].peak = entry[y].peak
          /\ ents[y].next = IF y = prev THEN n ELSE Without(x, entry[y].next)
    <2>. SUFFICES ASSUME NEW y \in Entries
                  PROVE  /\ ents[y] \in Record
                         /\ ents[y].domain = entry[y].domain /\ ents[y].score = entry[y].score
                         /\ ents[y].age = entry[y].age /\ ents[y].peak = entry[y].peak
                         /\ ents[y].next = Unlinked[2][y]
        BY <1>6
    <2>1. entry[y] \in Record /\ Unlinked[2][y] \in Pointers
        BY <1>3, <1>7
    <2>2. ents[y] = [entry[y] EXCEPT !.next = Unlinked[2][y]]
        OBVIOUS
    <2>. HIDE DEF ents
    <2>. QED  BY <2>1, <2>2 DEF Record
<1>9. ents \in [Entries -> Record]
    BY <1>8
<1>. HIDE DEF ents, nx, ny, n
<1>10. \A y \in Entries : /\ ny[y] = ents[y].next
                          /\ ny[y] = IF y = prev THEN n ELSE IF nx[y] = x THEN Dangling ELSE nx[y]
    BY <1>3, <1>8, <1>9, RecordFacts DEF ny, Without
<1>11. Acyclic(ny)
    <2>. SUFFICES ASSUME NEW D \in SUBSET Entries, D # {} PROVE \E y \in D : ny[y] \notin D
        BY DEF Acyclic
    <2>1. CASE prev \in D
        <3>1. D \cup {x} \in SUBSET Entries /\ D \cup {x} # {}
            BY <1>0, <1>1
        <3>2. PICK y \in D \cup {x} : nx[y] \notin D \cup {x}
            BY <1>3, <3>1 DEF Acyclic
        <3>3. CASE y \in D
            BY <1>3, <1>4, <1>10, <2>1, <3>2, <3>3
        <3>4. CASE y = x
            BY <1>0, <1>1, <1>3, <1>10, <2>1, <3>2, <3>4 DEF n
        <3>. QED  BY <3>3, <3>4
    <2>2. CASE prev \notin D
        <3>1. PICK y \in D : nx[y] \notin D
            BY <1>3 DEF Acyclic
        <3>. QED  BY <1>10, <2>2, <3>1
    <2>. QED  BY <2>1, <2>2
<1>12. \A p \in Roots' : p \in Roots \cup {n, Dangling} /\ p # x
    <2>1. prev # x
        BY <1>0, <1>1, <1>4, <1>5 DEF n
    <2>2. bucket' \in {n, Dangling, bucket} /\ bucket' # x
        BY <1>0, <1>1, <1>5 DEF Without
    <2>3. \A t \in Threads : e'[t] \in {Dangling, e[t]} /\ e'[t] # x
        BY <1>0, <1>1 DEF Without
    <2>. QED  BY <1>0, <1>1, <1>5, <2>1, <2>2, <2>3 DEF Roots
<1>13. Alive(entry, n) /\ Alive(entry, Dangling)
    BY <1>0, <1>1, <1>3 DEF Alive, n
<1>14. /\ \A p \in Roots' : Alive(ents, p)
       /\ \A y \in Entries : Alive(ents, ents[y].next)
    <2>1. \A p \in Roots' : Alive(entry, p)
        BY <1>2, <1>12, <1>13 DEF Heap
    <2>2. \A y \in Entries : Alive(entry, ents[y].next)
        BY <1>3, <1>8, <1>13 DEF Without
    <2>. QED  BY <1>8, <2>1, <2>2 DEF Alive
<1>15. /\ entry' \in [Entries -> Record] /\ Heap'
       /\ \A y \in Entries : (entry'[y] = ents[y] /\ ents[y].domain # Null) \/ entry'[y] = Free
       /\ \A p \in Roots' \cap Entries : entry'[p] = ents[p]
       /\ \A d, p : First(d, p)' <=> FirstIn(ents, bucket', d, p)
       /\ Listed' = Reached(ny, {bucket'})
       /\ \A y \in Listed' : entry'[y] = ents[y]
    BY <1>0, <1>1, <1>9, <1>11, <1>14, AssignFacts DEF ny
<1>16. CodeTypes'
    <2>1. e' \in [Threads -> Pointers] /\ bucket' \in Pointers /\ curr' \in Pointers
        BY <1>0, <1>1, <1>2, <1>3 DEF CodeTypes, Without, Pointers
    <2>. QED  BY <1>0, <1>1, <1>2, <1>15, <2>1 DEF CodeTypes
<1>17. Packets' /\ Delay' = Delay
    BY <1>0, <1>1, <1>2 DEF Packets, Delay
<1>18. entry'[x] = Free
    <2>. DEFINE C == Entries \ {x}
    <2>1. C \in SUBSET Entries /\ Roots' \cap Entries \subseteq C
        BY <1>12
    <2>2. \A y \in Entries : entry'[y].next = ny[y] \/ entry'[y].next = Null
        BY <1>10, <1>15, FreeFacts
    <2>3. \A y \in Entries : entry'[y].next # x /\ nexts(entry)'[y] = entry'[y].next
        BY <1>1, <1>5, <1>10, <1>15, <2>2, RecordFacts DEF nexts
    <2>4. Closed(nexts(entry)', C)
        BY <2>3 DEF Closed
    <2>5. x \notin Reached(nexts(entry)', Roots')
        BY <2>1, <2>4, ReachedFacts
    <2>6. entry'[x].domain = Null
        BY <1>1, <1>15, <2>5 DEF Heap
    <2>. QED  BY <1>1, <1>15, <2>6
<1>30. \A y \in Entries : entry'[y] # Free =>
           /\ y # x /\ entry[y] # Free
           /\ entry'[y].domain = entry[y].domain /\ entry'[y].score = entry[y].score
           /\ entry'[y].age = entry[y].age /\ entry'[y].peak = entry[y].peak
    BY <1>8, <1>15, <1>18, FreeFacts
<1>19. Counted'
    BY <1>0, <1>1, <1>2, <1>30 DEF Counted, Free
<1>20. Exported'
    <2>1. races \subseteq races' /\ Delay <= Delay'
        <3>1. Delay \in Nat
            BY <1>2, MeasuredHolds DEF Measured
        <3>. QED  BY <1>2, <1>17, <3>1, Observed
    <2>2. ASSUME NEW y \in Entries, entry'[y].domain # Null, entry'[y].peak > 1, entry'[y].score >= 1
          PROVE  /\ entry'[y].domain = entry[y].domain /\ entry[y].peak > 1 /\ entry[y].score >= 1
                 /\ Spent(y)' <= Spent(y)
        <3>1. /\ y # x
              /\ entry'[y].domain = entry[y].domain /\ entry'[y].score = entry[y].score
              /\ entry'[y].age = entry[y].age /\ entry'[y].peak = entry[y].peak
            BY <1>30, <2>2, FreeFacts
        <3>2. Spent(y)' = Spent(y) /\ Spent(y) \in Nat
            BY <1>1, <1>2, <3>1, MeasuredHolds DEF Spent, Measured
        <3>. QED  BY <2>2, <3>1, <3>2
    <2>. QED  BY <1>0, <1>1, <1>2, <1>16, <2>1, <2>2, ExportedStays
<1>21. Walk'
    <2>1. prev \in Entries => entry'[prev].next = n
        BY <1>0, <1>1, <1>8, <1>15 DEF Roots
    <2>. QED  BY <1>0, <1>1, <2>1 DEF Walk
<1>22. Calls'
    <2>1. ASSUME NEW t \in Threads PROVE Call(t)'
        <3>1. e'[t] = (IF e[t] = x THEN Dangling ELSE e[t]) /\ x # Null
            BY <1>0, <1>1 DEF Without
        <3>2. e'[t] \in Entries => entry'[e'[t]].domain = entry[e[t]].domain /\ e'[t] = e[t]
            BY <1>8, <1>15, <3>1 DEF Roots
        <3>3. Call(t) /\ races \subseteq races'
            BY <1>2, Observed DEF Calls
        <3>. QED  BY <1>0, <1>1, <3>1, <3>2, <3>3 DEF Call
    <2>. QED  BY <2>1 DEF Calls
<1>23. Active' = Active /\ Calling' = Calling
    BY <1>0, <1>1 DEF Active, Calling
<1>24. ASSUME Main \notin met
       PROVE  /\ Chain /\ \A t \in Threads : pc[t] = "out" /\ e'[t] = Null
              /\ \A y \in Entries : nx[y] = x => y = prev
              /\ prev = Null => bucket = x /\ bucket' = n
              /\ prev # Null => prev \in Entries /\ nx[prev] = x /\ bucket # x /\ bucket' = bucket
              /\ \A y \in Entries : ny[y] = IF nx[y] = x THEN n ELSE nx[y]
    <2>1. Chain
        BY <1>0, <1>1, <1>2, <1>24
    <2>2. \A t \in Threads : pc[t] = "out" /\ e[t] = Null
        BY <1>0, <1>1, <1>2, <1>24, DecayAlone
    <2>3. \A t \in Threads : e'[t] = Null
        BY <1>0, <1>1, <2>2 DEF Without
    <2>4. /\ \A y \in Entries : entry[y].next = x => y = prev
          /\ prev = Null => bucket = x
          /\ prev # Null => prev \in Entries /\ entry[prev].next = x /\ bucket # x
        BY <1>0, <1>1, <1>2, <2>1, ChainFacts
    <2>5. bucket' = IF prev = Null THEN n ELSE bucket
        BY <1>0, <1>1, <2>4 DEF Without
    <2>. QED  BY <1>3, <1>10, <2>1, <2>2, <2>3, <2>4, <2>5
<1>25. ASSUME Main \notin met
       PROVE  /\ \A a : a # x => Reached(ny, {a}) = Reached(nx, {a}) \ {x}
              /\ Reached(ny, {bucket'}) = Listed \ {x}
    <2>1. nx[x] = n /\ \A y \in Entries : ny[y] = IF nx[y] = x THEN nx[x] ELSE nx[y]
        BY <1>0, <1>1, <1>3, <1>24, <1>25 DEF n
    <2>2. ASSUME NEW a, a # x PROVE Reached(ny, {a}) = Reached(nx, {a}) \ {x}
        <3>1. Bypassed(nx, ny, x)
            BY <1>5, <2>1 DEF Bypassed
        <3>. QED  BY <1>0, <1>1, <2>2, <3>1, Unlink
    <2>3. Reached(ny, {bucket'}) = Listed \ {x}
        <3>1. Listed = Reached(nx, {bucket})
            BY DEF Listed, nx
        <3>2. CASE prev = Null
            <4>1. Reached(nx, {x}) = {x} \cup Reached(nx, {n})
                BY <1>0, <1>1, <2>1, TailStep
            <4>. QED  BY <1>5, <1>24, <1>25, <2>2, <3>1, <3>2, <4>1
        <3>3. CASE prev # Null
            BY <1>24, <1>25, <2>2, <3>1, <3>3
        <3>. QED  BY <3>2, <3>3
    <2>. QED  BY <2>2, <2>3
<1>26. "decay" \notin races' => NoDangling'
    <2>. SUFFICES ASSUME "decay" \notin races' PROVE NoDangling'
        OBVIOUS
    <2>1. "decay" \notin races /\ NoDangling /\ Main \notin met
        BY <1>2, Observed DEF Meetings
    <2>2. n # Dangling /\ bucket # Dangling /\ prev # Dangling
        BY <1>0, <1>1, <2>1 DEF NoDangling, Roots, n
    <2>3. bucket' # Dangling /\ \A t \in Threads : e'[t] # Dangling
        BY <1>24, <2>1, <2>2
    <2>4. Dangling \notin Roots'
        BY <1>0, <1>1, <2>2, <2>3 DEF Roots
    <2>5. \A y \in Entries : ents[y].next # Dangling
        BY <1>3, <1>10, <1>24, <2>1, <2>2 DEF NoDangling
    <2>. QED  BY <1>15, <2>4, <2>5, FreeFacts DEF NoDangling
<1>27. ASSUME Main \notin met' PROVE Chain'
    <2>1. Main \notin met
        BY <1>0, <1>1, <1>2, <1>27, MainStays
    <2>2. \A y \in Entries : entry'[y].next = ny[y] \/ entry'[y].next = Null
        BY <1>10, <1>15, FreeFacts
    <2>3. entry'[x].next = Null
        BY <1>18, FreeFacts
    <2>4. ASSUME NEW y \in Entries, entry'[y].next \in Entries
          PROVE  y # x /\ entry'[y].next = IF nx[y] = x THEN n ELSE nx[y]
        BY <1>24, <2>1, <2>2, <2>3, <2>4
    <2>5. /\ \A y, z \in Entries : nx[y] \in Entries /\ nx[y] = nx[z] => y = z
          /\ \A y \in Entries : nx[y] = bucket => bucket \notin Entries
        BY <1>3, <1>24, <2>1 DEF Chain
    <2>6. nx[x] = n
        BY <1>0, <1>1, <1>3 DEF n
    <2>7. ASSUME NEW y \in Entries, NEW z \in Entries, entry'[y].next \in Entries, entry'[y].next = entry'[z].next
          PROVE  y = z
        <3>1. /\ y # x /\ entry'[y].next = IF nx[y] = x THEN n ELSE nx[y]
              /\ z # x /\ entry'[z].next = IF nx[z] = x THEN n ELSE nx[z]
            BY <2>4, <2>7
        <3>. QED  BY <1>0, <1>1, <2>5, <2>6, <2>7, <3>1
    <2>8. ASSUME NEW y \in Entries, bucket' \in Entries, entry'[y].next = bucket'
          PROVE  FALSE
        <3>1. y # x /\ entry'[y].next = IF nx[y] = x THEN n ELSE nx[y]
            BY <2>4, <2>8
        <3>2. CASE prev = Null
            BY <1>0, <1>1, <1>24, <2>1, <2>5, <2>6, <2>8, <3>1, <3>2
        <3>3. CASE prev # Null
            BY <1>0, <1>1, <1>24, <2>1, <2>5, <2>6, <2>8, <3>1, <3>3
        <3>. QED  BY <3>2, <3>3
    <2>9. prev' = Null => curr' = bucket'
        BY <1>0, <1>1, <1>24, <2>1
    <2>10. prev' \in Listed' \cup {Null}
        <3>1. prev \in Listed \cup {Null} /\ prev # x
            BY <1>0, <1>1, <1>4, <1>5, <1>24, <2>1 DEF Chain, n
        <3>. QED  BY <1>0, <1>1, <1>15, <1>25, <2>1, <3>1
    <2>. QED  BY <2>7, <2>8, <2>9, <2>10 DEF Chain
<1>28. ASSUME met = {}, met' = {} PROVE Undisturbed' /\ Known' /\ sure' \in [Domains -> Ages]
    <2>1. Main \notin met
        BY <1>28
    <2>2. \A t \in Threads : pc'[t] = "out"
        BY <1>0, <1>1, <1>24, <2>1
    <2>3. sure' = sure
        BY <1>2, <1>23, <1>28, SureStays
    <2>4. ASSUME NEW c \in Domains, sure[c] < NotSure
          PROVE  \E p \in Entries : First(c, p)' /\ entry'[p].age = sure[c]
        <3>1. PICK p \in Entries : First(c, p) /\ entry[p].age = sure[c]
            BY <1>2, <2>4 DEF Known
        <3>2. ~Stale(p)
            BY <1>3, <2>4, <3>1, RecordFacts DEF Stale, NotSure, Ages
        <3>3. p # x
            BY <1>0, <1>1, <2>1, <3>2
        <3>4. /\ p \in Listed /\ entry[p].domain = c
              /\ \A w \in Listed : entry[w].domain = c => w \in Reached(nx, {p})
            BY <3>1 DEF First, FirstIn, Listed, nx
        <3>5. Listed \subseteq Entries
            BY ReachedFacts DEF Listed
        <3>6. /\ Reached(ny, {p}) = Reached(nx, {p}) \ {x}
              /\ Reached(ny, {bucket'}) = Listed \ {x}
            BY <1>25, <2>1, <3>3
        <3>7. /\ p \in Reached(ny, {bucket'}) /\ ents[p].domain = c
              /\ \A w \in Reached(ny, {bucket'}) : ents[w].domain = c => w \in Reached(ny, {p})
            BY <1>8, <3>3, <3>4, <3>5, <3>6
        <3>8. FirstIn(ents, bucket', c, p)
            BY <3>7 DEF FirstIn, ny
        <3>. QED  BY <1>8, <1>15, <3>1, <3>7, <3>8
    <2>5. Known'
        <3>1. NotSure' = NotSure
            BY DEF NotSure
        <3>. QED  BY <2>3, <2>4, <3>1 DEF Known
    <2>6. Undisturbed'
        BY <2>2 DEF Undisturbed
    <2>. QED  BY <1>2, <2>3, <2>5, <2>6 DEF TypeOK
<1>29. CorruptOnlyByDecay'
    BY <1>0, <1>1 DEF CorruptOnlyByDecay
<1>. QED  BY <1>0, <1>1, <1>15, <1>16, <1>17, <1>19, <1>20, <1>21, <1>22, <1>23, <1>26, <1>27, <1>28, <1>29, StepIInv

-----------------------------------------------------------------------------
(* Time.                                                                   *)

\* The wait for an export grows with every second.
LEMMA TickDelay ==
    ASSUME CodeTypes, Tick
    PROVE  /\ Delay + 1 <= Delay' /\ Delay \in Nat /\ Delay' \in Nat
           /\ exported' \in 0..(EXPORT + 1) \cup {Null} /\ silent' \in 0..(Gap + 1) /\ silent' >= 1
<1>. USE ReputationAssumption
<1>1. /\ mpc = "recv" /\ mpc' = mpc /\ silent' = silent + 1 /\ silent <= Gap
      /\ exported' = IF exported = Null THEN Null ELSE Upto(exported, EXPORT + 1)
    BY DEF Tick
<1>2. silent \in 0..(Gap + 1) /\ (exported # Null => exported \in 0..(EXPORT + 1))
    BY DEF CodeTypes
<1>3. EXPORT \in Nat /\ Gap \in Nat /\ Null \notin Nat
    OBVIOUS
<1>4. silent' \in 0..(Gap + 1) /\ silent' >= 1 /\ silent \in Nat
    BY <1>1, <1>2, <1>3
<1>5. CASE exported = Null
    <2>1. Delay = silent /\ Delay' = silent' /\ exported' = Null
        BY <1>1, <1>5 DEF Delay
    <2>2. Delay + 1 <= Delay' /\ Delay \in Nat /\ Delay' \in Nat
        BY <1>1, <1>3, <1>4, <2>1
    <2>. QED  BY <1>4, <2>1, <2>2
<1>6. CASE exported # Null
    <2>1. exported \in 0..(EXPORT + 1) /\ exported' = Upto(exported, EXPORT + 1)
        BY <1>1, <1>2, <1>6
    <2>2. exported' = IF exported < EXPORT + 1 THEN exported + 1 ELSE EXPORT + 1
        BY <2>1 DEF Upto
    <2>3. exported' \in 0..(EXPORT + 1)
        BY <1>3, <2>1, <2>2
    <2>4. exported' # Null
        <3>1. exported' \in Nat
            BY <1>3, <2>3
        <3>. QED  BY <1>3, <3>1
    <2>5. Delay = IF exported <= EXPORT THEN exported + Gap + 1 ELSE EXPORT + Gap + 1 + silent
        BY <1>1, <1>6 DEF Delay
    <2>6. Delay' = IF exported' <= EXPORT THEN exported' + Gap + 1 ELSE EXPORT + Gap + 1 + silent'
        BY <1>1, <2>4 DEF Delay
    <2>7. Delay + 1 <= Delay' /\ Delay \in Nat /\ Delay' \in Nat
        BY ONLY <1>1, <1>3, <1>4, <2>1, <2>2, <2>5, <2>6
    <2>. QED  BY <1>4, <2>3, <2>7
<1>. QED  BY <1>5, <1>6

\* One second passes.
LEMMA TickIInv ==
    ASSUME IInv, ~corrupt, Tick, Observe(1)
    PROVE  IInv'
<1>. USE ListAssumption, ReputationAssumption
<1>1. /\ mpc = "recv" /\ mpc' = mpc /\ curr' = curr /\ prev' = prev /\ points' = points
      /\ decayed' = Upto(decayed, DECAY_INTERVAL)
      /\ entry' = [x \in Entries |-> IF entry[x] = Free THEN Free
                                     ELSE [entry[x] EXCEPT !.age = Upto(@, DECAY_INTERVAL)]]
      /\ bucket' = bucket /\ pc' = pc /\ arg' = arg /\ e' = e /\ score' = score
      /\ zone' = zone /\ corrupt' = corrupt /\ blocks' = blocks
    BY DEF Tick, calls
<1>2. /\ TypeOK /\ CodeTypes /\ Counted /\ Losing /\ Packets /\ Exported
      /\ Heap /\ Walk /\ Calls /\ Meetings /\ Undisturbed /\ Known
      /\ "decay" \notin races => NoDangling
    BY BeforeStep
<1>3. \A a \in Ages : /\ a \in Nat /\ Upto(a, DECAY_INTERVAL) \in Ages
                      /\ Upto(a, DECAY_INTERVAL) = IF a < DECAY_INTERVAL THEN a + 1 ELSE a
    BY DEF Ages, Upto
<1>4. /\ entry \in [Entries -> Record]
      /\ \A x \in Entries : entry[x].age \in Ages /\ entry[x] \in Record
    BY <1>2, RecordFacts DEF CodeTypes
<1>5. ASSUME NEW x \in Entries
      PROVE  /\ entry'[x] \in Record
             /\ entry'[x].domain = entry[x].domain /\ entry'[x].next = entry[x].next
             /\ entry'[x].score = entry[x].score /\ entry'[x].peak = entry[x].peak
             /\ entry[x] # Free => entry'[x].age = Upto(entry[x].age, DECAY_INTERVAL)
             /\ entry'[x].age <= entry[x].age + 1
             /\ entry[x] = Free => entry'[x] = Free
    <2>1. CASE entry[x] = Free
        <3>1. entry'[x] = Free
            BY <1>1, <2>1
        <3>. QED  BY <2>1, <3>1, FreeFacts
    <2>2. CASE entry[x] # Free
        <3>1. entry'[x] = [entry[x] EXCEPT !.age = Upto(entry[x].age, DECAY_INTERVAL)]
            BY <1>1, <2>2
        <3>2. Upto(entry[x].age, DECAY_INTERVAL) \in Ages
            BY <1>3, <1>4
        <3>3. /\ entry'[x] \in Record
              /\ entry'[x].domain = entry[x].domain /\ entry'[x].next = entry[x].next
              /\ entry'[x].score = entry[x].score /\ entry'[x].peak = entry[x].peak
              /\ entry'[x].age = Upto(entry[x].age, DECAY_INTERVAL)
            BY <1>4, <3>1, <3>2 DEF Record
        <3>4. entry'[x].age <= entry[x].age + 1
            BY <1>3, <1>4, <3>3
        <3>. QED  BY <2>2, <3>3, <3>4
    <2>. QED  BY <2>1, <2>2
<1>6. entry' \in [Entries -> Record]
    BY <1>1, <1>5
<1>7. /\ Delay + 1 <= Delay' /\ Delay \in Nat /\ Delay' \in Nat
      /\ exported' \in 0..(EXPORT + 1) \cup {Null} /\ silent' \in 0..(Gap + 1) /\ silent' >= 1
    BY <1>2, TickDelay
<1>8. CodeTypes'
    <2>1. decayed' \in Ages
        BY <1>1, <1>2, <1>3 DEF CodeTypes
    <2>. QED  BY <1>1, <1>2, <1>6, <1>7, <2>1 DEF CodeTypes
<1>9. Active' = Active /\ Calling' = Calling /\ Roots' = Roots
    BY <1>1 DEF Active, Calling, Roots
<1>10. /\ met' \subseteq Threads \cup {Main} /\ races' \subseteq {"calls", "decay"}
       /\ Meetings' /\ races \subseteq races'
       /\ met' = IF \E a, b \in Active' : a # b THEN Active' ELSE met \cap Active'
       /\ races' = {} => races = {}
    BY <1>2, Observed
<1>11. met' = met
    BY <1>2, <1>9, <1>10 DEF Meetings
<1>12. \A d \in Domains : sure'[d] = IF met' # {} THEN NotSure ELSE Upto(sure[d], NotSure)
    <2>1. Calling \ (Calling' \cup met) = {}
        BY <1>9
    <2>. QED  BY <2>1 DEF Observe
<1>13. sure' \in [Domains -> Ages]
    <2>1. sure' = [d \in Domains |-> sure'[d]]
        BY DEF Observe
    <2>2. \A d \in Domains : sure[d] \in Ages
        BY <1>2 DEF TypeOK
    <2>3. NotSure \in Ages /\ NotSure = DECAY_INTERVAL
        BY DEF NotSure, Ages
    <2>. QED  BY <1>3, <1>12, <2>1, <2>2, <2>3
<1>14. TypeOK'
    BY <1>8, <1>10, <1>13 DEF CodeTypes, TypeOK, Record
<1>15. Counted'
    <2>. SUFFICES ASSUME NEW y \in Entries, entry'[y] # Free
                  PROVE  /\ entry'[y].domain \in Domains
                         /\ entry'[y].score >= 1 /\ entry'[y].score <= blocks[entry'[y].domain]
        BY <1>1 DEF Counted, Free
    <2>1. entry[y] # Free /\ ~Judged(y)
        BY <1>1, <1>5 DEF Judged
    <2>. QED  BY <1>2, <1>5, <2>1 DEF Counted
<1>16. Packets'
    BY <1>1, <1>7 DEF Packets
<1>17. Exported'
    <2>. SUFFICES ASSUME races' = {}, NEW y \in Entries, entry'[y].domain # Null, entry'[y].peak > 1,
                         entry'[y].score >= 1, entry'[y].domain \notin zone'
                  PROVE  Spent(y)' <= Delay'
        BY DEF Exported
    <2>1. Spent(y) <= Delay
        BY <1>1, <1>2, <1>5, <1>10 DEF Exported
    <2>2. Spent(y)' <= Spent(y) + 1 /\ Spent(y) \in Nat /\ Spent(y)' \in Nat
        <3>1. /\ Spent(y) = entry[y].age + (IF entry[y].score <= 1 THEN DECAY_INTERVAL ELSE 0)
              /\ Spent(y)' = entry'[y].age + (IF entry[y].score <= 1 THEN DECAY_INTERVAL ELSE 0)
            BY <1>1, <1>5 DEF Spent, Judged
        <3>2. entry[y].age \in Nat /\ entry'[y].age \in Nat /\ entry'[y].age <= entry[y].age + 1
            BY <1>3, <1>4, <1>5, <1>6, RecordFacts
        <3>. QED  BY <3>1, <3>2
    <2>. QED  BY <1>7, <2>1, <2>2
<1>18. CorruptOnlyByDecay'
    BY <1>1 DEF CorruptOnlyByDecay
<1>19. Heap'
    <2>1. nexts(entry)' = nexts(entry)
        BY <1>5 DEF nexts
    <2>. QED  BY <1>2, <1>5, <1>9, <2>1 DEF Heap, Acyclic, Alive
<1>20. Walk'
    BY <1>1, <1>2 DEF Walk
<1>21. Calls'
    <2>1. ASSUME NEW t \in Threads PROVE Call(t)'
        BY <1>1, <1>2, <1>5, <1>10 DEF Calls, Call
    <2>. QED  BY <2>1 DEF Calls
<1>22. "decay" \notin races' => NoDangling'
    BY <1>2, <1>5, <1>9, <1>10 DEF NoDangling
<1>23. /\ Listed' = Listed /\ Listed \subseteq Entries
       /\ \A d, p : First(d, p)' <=> First(d, p)
    <2>1. Listed \subseteq Entries
        BY ReachedFacts DEF Listed
    <2>2. \A y \in Reached(nexts(entry), {bucket}) :
              entry'[y].next = entry[y].next /\ entry'[y].domain = entry[y].domain
        BY <1>5, <2>1 DEF Listed
    <2>3. /\ Reached(nexts(entry'), {bucket}) = Reached(nexts(entry), {bucket})
          /\ \A d, p : FirstIn(entry', bucket, d, p) <=> FirstIn(entry, bucket, d, p)
        BY <1>4, <1>6, <2>2, SameFirst
    <2>. QED  BY <1>1, <2>1, <2>3 DEF Listed, First, FirstIn, nexts
<1>24. Undisturbed'
    <2>. SUFFICES ASSUME met' = {}, NEW t \in Threads
                  PROVE  /\ pc'[t] = "store" => First(arg[t], e[t])'
                         /\ pc'[t] \in {"make", "link"} =>
                               \A w \in Listed' : entry'[w].domain # arg'[t]
                         /\ pc'[t] = "link" => /\ e'[t] \in Entries /\ entry'[e'[t]].next = bucket'
                                               /\ entry'[e'[t]].peak = 1
                                               /\ e'[t] \notin Listed'
        BY DEF Undisturbed
    <2>1. /\ pc[t] = "store" => First(arg[t], e[t])
          /\ pc[t] \in {"make", "link"} => \A w \in Listed : entry[w].domain # arg[t]
          /\ pc[t] = "link" => /\ e[t] \in Entries /\ entry[e[t]].next = bucket
                               /\ entry[e[t]].peak = 1
                               /\ e[t] \notin Listed
        BY <1>2, <1>11 DEF Undisturbed
    <2>. QED  BY <1>1, <1>5, <1>23, <2>1
<1>25. Known'
    <2>. SUFFICES ASSUME NEW d \in Domains, sure'[d] < NotSure
                  PROVE  \E p \in Entries : First(d, p)' /\ entry'[p].age = sure'[d]
        <3>1. NotSure' = NotSure
            BY DEF NotSure
        <3>. QED  BY <3>1 DEF Known
    <2>1. sure[d] \in Ages /\ NotSure = DECAY_INTERVAL
        BY <1>2 DEF TypeOK, NotSure
    <2>2. sure'[d] = Upto(sure[d], DECAY_INTERVAL)
        BY <1>12, <2>1
    <2>3. sure[d] < NotSure
        BY <1>3, <2>1, <2>2
    <2>4. PICK p \in Entries : First(d, p) /\ entry[p].age = sure[d]
        BY <1>2, <2>3 DEF Known
    <2>5. entry[p] # Free
        BY <2>4, FreeFacts DEF First, FirstIn
    <2>. QED  BY <1>5, <1>23, <2>2, <2>4, <2>5
<1>26. mpc' \notin Decay /\ Losing'
    BY <1>1 DEF Decay, Losing
<1>. QED  BY <1>10, <1>14, <1>15, <1>16, <1>17, <1>18, <1>19, <1>20, <1>21, <1>22, <1>24, <1>25, <1>26
          DEF IInv, Inner

-----------------------------------------------------------------------------
\* Nothing is recorded at the start.
LEMMA InitIInv == Init => IInv
<1>. SUFFICES ASSUME Init PROVE IInv
    OBVIOUS
<1>. USE ListAssumption, ReputationAssumption
<1>1. /\ bucket = Null /\ curr = Null /\ prev = Null /\ points = 0 /\ mpc = "recv"
      /\ decayed = 0 /\ exported = Null /\ silent = 0 /\ zone = {}
      /\ entry = [x \in Entries |-> Free] /\ pc = [t \in Threads |-> "out"]
      /\ arg = [t \in Threads |-> Null] /\ e = [t \in Threads |-> Null]
      /\ score = [t \in Threads |-> 0] /\ corrupt = FALSE
      /\ blocks = [d \in Domains |-> 0] /\ sure = [d \in Domains |-> NotSure]
      /\ met = {} /\ races = {}
    BY DEF Init
<1>2. /\ \A x \in Entries : entry[x] = Free
      /\ \A d \in Domains : sure[d] = NotSure
      /\ NotSure \in Ages /\ 0 \in Ages /\ ~(NotSure < NotSure)
    BY <1>1 DEF NotSure, Ages
<1>3. TypeOK
    <2>1. entry \in [Entries -> Record]
        BY <1>1, FreeFacts
    <2>2. bucket \in Pointers /\ curr \in Pointers /\ prev \in Entries \cup {Null} /\ points \in Nat
        BY <1>1 DEF Pointers
    <2>3. /\ pc \in [Threads -> {"out", "store", "make", "link"}] /\ arg \in [Threads -> Domains \cup {Null}]
          /\ e \in [Threads -> Pointers] /\ score \in [Threads -> Nat]
        BY <1>1 DEF Pointers
    <2>4. /\ decayed \in Ages /\ exported \in 0..(EXPORT + 1) \cup {Null} /\ silent \in 0..(Gap + 1)
        BY <1>1, <1>2
    <2>5. blocks \in [Domains -> Nat] /\ sure \in [Domains -> Ages]
        BY <1>1, <1>2
    <2>6. /\ mpc \in {"recv", "export"} \cup Decay /\ zone \subseteq Domains /\ corrupt \in BOOLEAN
          /\ met \subseteq Threads \cup {Main} /\ races \subseteq {"calls", "decay"}
        BY <1>1
    <2>. QED  BY <2>1, <2>2, <2>3, <2>4, <2>5, <2>6 DEF TypeOK, Record
<1>4. Roots \subseteq {Null}
    BY <1>1 DEF Roots
<1>5. Heap
    <2>1. \A x \in Entries : nexts(entry)[x] = Null
        BY <1>2, FreeFacts DEF nexts
    <2>2. Acyclic(nexts(entry))
        BY <2>1 DEF Acyclic
    <2>. QED  BY <1>2, <1>4, <2>2, FreeFacts DEF Heap, Alive
<1>6. Calling = {} /\ Active = {} /\ mpc \notin Decay
    BY <1>1 DEF Calling, Active, Decay
<1>7. Walk /\ Calls /\ Undisturbed /\ Losing
    BY <1>1, <1>2 DEF Walk, Calls, Call, Undisturbed, Losing
<1>8. Meetings
    BY <1>1, <1>6 DEF Meetings
<1>9. NoDangling
    BY <1>2, <1>4, FreeFacts DEF NoDangling
<1>10. Known /\ Counted
    BY <1>2 DEF Known, Counted
<1>11. Packets
    <2>1. EXPORT + 1 \in Nat /\ Null \notin Nat
        OBVIOUS
    <2>2. EXPORT + 1 # Null
        BY <2>1
    <2>. QED  BY <1>1, <2>2 DEF Packets
<1>12. Exported
    BY <1>2, FreeFacts DEF Exported
<1>13. CorruptOnlyByDecay
    BY <1>1 DEF CorruptOnlyByDecay
<1>. QED  BY <1>1, <1>3, <1>5, <1>6, <1>7, <1>8, <1>9, <1>10, <1>11, <1>12, <1>13 DEF IInv, Inner

\* Every step keeps the invariant.
LEMMA NextIInv == IInv /\ [Next]_vars => IInv'
<1>. SUFFICES ASSUME IInv, [Next]_vars PROVE IInv'
    OBVIOUS
<1>1. CASE UNCHANGED vars
    <2>1. /\ bucket' = bucket /\ entry' = entry /\ pc' = pc /\ arg' = arg /\ e' = e /\ score' = score
          /\ mpc' = mpc /\ curr' = curr /\ prev' = prev /\ points' = points /\ decayed' = decayed
          /\ exported' = exported /\ silent' = silent /\ zone' = zone /\ corrupt' = corrupt
          /\ blocks' = blocks /\ sure' = sure /\ met' = met /\ races' = races
        BY <1>1 DEF vars, calls, main, timers
    <2>2. TypeOK' /\ CorruptOnlyByDecay' /\ Packets' /\ Counted' /\ Losing'
        BY <2>1 DEF IInv, TypeOK, CorruptOnlyByDecay, Packets, Counted, Free, Judged, Losing, Stale
    <2>3. Exported' /\ Meetings'
        BY <2>1 DEF IInv, Exported, Spent, Delay, Judged, Meetings, Active, Calling, NotSure
    <2>. SUFFICES ASSUME ~corrupt PROVE Inner'
        BY <2>1, <2>2, <2>3 DEF IInv
    <2>4. Listed' = Listed /\ \A d, p : First(d, p)' <=> First(d, p)
        BY <2>1, SameList
    <2>5. Roots' = Roots /\ Calling' = Calling /\ Active' = Active /\ NotSure' = NotSure
        BY <2>1 DEF Roots, Calling, Active, NotSure
    <2>6. Heap' /\ Walk' /\ Calls'
        BY <2>1, <2>5 DEF IInv, Inner, Heap, Walk, Calls, Call, nexts, Acyclic, Alive
    <2>7. /\ ("decay" \notin races => NoDangling)'
          /\ (mpc \in Decay /\ Main \notin met => Chain)'
        BY <2>1, <2>4, <2>5 DEF IInv, Inner, NoDangling, Chain
    <2>8. Undisturbed' /\ Known'
        BY <2>1, <2>4, <2>5 DEF IInv, Inner, Undisturbed, Known
    <2>. QED  BY <2>6, <2>7, <2>8 DEF Inner
<1>2. ASSUME NEW t \in Threads, rep_record_block(t), ~corrupt, Observe(0) PROVE IInv'
    BY <1>2, findIInv, find_danglingIInv, missIInv, createIInv, storeIInv, linkIInv DEF rep_record_block
<1>3. ASSUME packet \/ rep_decay \/ ad_export_rpz, ~corrupt, Observe(0) PROVE IInv'
    BY <1>3, packetIInv, ad_export_rpzIInv, decay_nextIInv, decay_oldIInv, decay_writeIInv,
       decay_keepIInv, decay_freeIInv, decay_danglingIInv, decay_endIInv DEF rep_decay
<1>. QED  BY <1>1, <1>2, <1>3, sighupIInv, TickIInv DEF Next

\* The inductive invariant holds.
THEOREM Invariance == Spec => []IInv
BY InitIInv, NextIInv, PTL DEF Spec

\* However the reads and writes of score, by threads and by rep_decay, mix, and whatever
\* rep_decay frees in between, no score exceeds the number of queries that were blocked for its domain.
THEOREM NeverOvercountsHolds == Spec => []NeverOvercounts
<1>1. IInv => NeverOvercounts
    BY DEF IInv, Counted, NeverOvercounts
<1>. QED  BY <1>1, Invariance, PTL

\* A domain that rep_record_block has recorded less than DECAY_INTERVAL seconds ago, in a
\* call that met no other and was followed by no meeting, is found by the next search and
\* is in the next export, whatever races have lost from the list before.
THEOREM SureIsListedHolds == Spec => []SureIsListed
<1>1. IInv => SureIsListed
    <2>. SUFFICES ASSUME IInv, ~corrupt, NEW d \in Domains, sure[d] < NotSure
                  PROVE  EntryOf(d) \in Entries /\ d \in rep_get_blocked_domains
        BY DEF SureIsListed
    <2>1. TypeOK /\ CodeTypes /\ Counted /\ Losing /\ Heap /\ Known /\ Meetings
        BY BeforeStep
    <2>2. PICK p \in Entries : First(d, p) /\ entry[p].age = sure[d]
        BY <2>1 DEF Known
    <2>3. p \in Listed /\ entry[p].domain = d
        BY <2>2 DEF First, FirstIn, Listed
    <2>4. EntryOf(d) \in Entries
        BY <2>1, <2>3, FindFacts
    <2>5. entry[p] # Free
        BY <2>3, FreeFacts, ReputationAssumption
    <2>6. entry[p].score > 0
        <3>1. entry[p].score \in Nat
            BY <2>1, RecordFacts DEF CodeTypes
        <3>2. ~Judged(p)
            <4>. SUFFICES ASSUME Judged(p) PROVE FALSE
                OBVIOUS
            <4>1. NotSure = DECAY_INTERVAL /\ DECAY_INTERVAL \in Nat /\ sure[d] \in Nat
                BY <2>1, ReputationAssumption DEF NotSure, TypeOK, Ages
            <4>2. CASE Main \in met
                BY <2>1, <4>1, <4>2 DEF Meetings
            <4>3. CASE Main \notin met
                <5>1. Stale(p)
                    BY <2>1, <4>3 DEF Judged, Losing
                <5>. QED  BY <2>2, <4>1, <5>1 DEF Stale
            <4>. QED  BY <4>2, <4>3
        <3>3. entry[p].score >= 1
            BY <2>1, <2>5, <3>2 DEF Counted
        <3>. QED  BY <3>1, <3>3
    <2>. QED  BY <2>3, <2>4, <2>6 DEF rep_get_blocked_domains
<1>. QED  BY <1>1, Invariance, PTL

\* Freed memory is used only after a call of rep_record_block, or an export by SIGHUP, has
\* met rep_decay: threads alone never do it.
THEOREM CorruptOnlyByDecayHolds == Spec => []CorruptOnlyByDecay
<1>1. IInv => CorruptOnlyByDecay
    BY DEF IInv
<1>. QED  BY <1>1, Invariance, PTL

\* Two intervals of decay are longer than the time to the next export: its period, the wait
\* for the packet that makes it, and the wait for the one before.
PacketsOften == 2 * DECAY_INTERVAL > EXPORT + 2 * Gap + 2

\* With packets that often, a domain that has had two points is in the zone file before
\* rep_decay forgets it, if calls have met neither each other nor rep_decay.
THEOREM ExportedBeforeForgottenHolds ==
    ASSUME PacketsOften PROVE Spec => []ExportedBeforeForgotten
<1>. USE ReputationAssumption
<1>1. IInv => ExportedBeforeForgotten
    <2>. SUFFICES ASSUME IInv, races = {}, mpc = "write", points = 1, entry[curr].peak > 1,
                         entry[curr].domain \notin zone
                  PROVE  FALSE
        BY DEF ExportedBeforeForgotten
    <2>1. /\ CodeTypes /\ Losing /\ Packets /\ Exported /\ Meetings
        BY DEF IInv, TypeOK, CodeTypes, Record
    <2>2. /\ curr \in Entries /\ entry[curr].domain # Null
          /\ Stale(curr) /\ entry[curr].score = 1
        BY <2>1 DEF Losing, Meetings
    <2>3. Spent(curr) <= Delay
        BY <2>1, <2>2 DEF Exported
    <2>4. Spent(curr) = 2 * DECAY_INTERVAL
        <3>1. entry[curr].age \in Ages
            BY <2>1, <2>2, RecordFacts DEF CodeTypes
        <3>2. entry[curr].age = DECAY_INTERVAL
            BY <2>2, <3>1 DEF Stale, Ages
        <3>. QED  BY <2>2, <3>2 DEF Spent, Judged
    <2>5. Delay <= EXPORT + 2 * Gap + 2
        <3>1. exported # Null /\ exported \in 0..(EXPORT + 1)
            BY <2>1 DEF Packets, CodeTypes
        <3>2. Delay = IF exported <= EXPORT THEN exported + Gap + 1 ELSE EXPORT + Gap + 1 + (Gap + 1)
            BY <3>1 DEF Delay
        <3>3. EXPORT \in Nat /\ Gap \in Nat
            OBVIOUS
        <3>. QED  BY ONLY <3>1, <3>2, <3>3
    <2>6. Delay \in Nat
        BY <2>1, MeasuredHolds DEF Measured
    <2>. QED  BY <2>3, <2>4, <2>5, <2>6 DEF PacketsOften
<1>. QED  BY <1>1, Invariance, PTL
=============================================================================
