------------------------- MODULE FluxTrackerProofs -------------------------
(***************************************************************************)
(* TLAPS proofs about FluxTracker, for any number of threads, domains,     *)
(* addresses and entries, any window and any threshold.                    *)
(***************************************************************************)
EXTENDS FluxTracker, UnlockedListProofs

(* The inductive invariant.                                                *)

Record == [domain : Domains \cup {Null}, next : Pointers, age : [IPs -> Ages]]

Alive(ents, x) == x \in Entries => ents[x].domain # Null

\* The heap: lists end, no pointer leads to an entry that is not in use, every entry in use
\* is reached by some pointer, and the others lead nowhere.
Heap ==
    /\ Acyclic(nexts(entry))
    /\ \A p \in Roots : Alive(entry, p)
    /\ \A x \in Entries : Alive(entry, entry[x].next)
    /\ \A x \in Entries : entry[x].domain # Null => x \in Reached(nexts(entry), Roots)
    /\ \A x \in Entries : entry[x].domain = Null => entry[x].next = Null

\* What a thread has in flux_detect: an entry of its domain, once it has found or made it.
Call(t) ==
    /\ e[t] = Null <=> pc[t] \in {"out", "make"}
    /\ pc[t] # "out" => arg[t] \in Domains
    /\ e[t] \in Entries => entry[e[t]].domain = arg[t]

\* Where flux_cleanup is.
Walk ==
    /\ ~walking => curr = Null /\ prev = Null
    /\ walking /\ prev \in Entries => entry[prev].next = curr

\* An address that counts for an entry was reported for its domain, no longer ago.
Recent ==
    \A x \in Entries, i \in IPs :
        entry[x].domain # Null /\ entry[x].age[i] < WINDOW
            => seen[entry[x].domain][i] <= entry[x].age[i]

\* Calls that met others are under way, and are the ones that count as entangled.
Meetings ==
    /\ entangled \subseteq Active
    /\ \A a, b \in Active : a # b => entangled = Active
    /\ entangled # {} => quiet = 0
    /\ Main \in entangled => clash

\* Every entry of the list has one pointer to it.
Chain ==
    /\ \A x, y \in Entries : entry[x].next \in Entries /\ entry[x].next = entry[y].next => x = y
    /\ \A x \in Entries : entry[x].next = flux_table => flux_table \notin Entries
    /\ prev = Null => curr = flux_table

\* Before the first clash no pointer is left to an entry that was freed.
Sound ==
    ~clash => /\ ~Clash
              /\ Dangling \notin Roots
              /\ \A x \in Entries : entry[x].next # Dangling

Listed == Reached(nexts(entry), {flux_table})

\* The entry that a search for d finds: every other one of d is behind it.
FirstIn(ents, head, d, p) ==
    /\ p \in Reached(nexts(ents), {head}) /\ ents[p].domain = d
    /\ \A w \in Reached(nexts(ents), {head}) :
          ents[w].domain = d => w \in Reached(nexts(ents), {p})

First(d, p) == FirstIn(entry, flux_table, d, p)

\* A call that met no other has the entry of its domain, or knows that there is none until
\* it has linked the one it makes.
Undisturbed ==
    entangled = {} => \A t \in Threads :
        /\ pc[t] = "add" => First(arg[t], e[t])
        /\ pc[t] = "link" => /\ e[t] \in Entries /\ entry[e[t]].next = flux_table
                             /\ e[t] \notin Listed
        /\ pc[t] \in {"make", "link"} => \A w \in Listed : entry[w].domain # arg[t]

\* What was reported after the last meeting has ended is known to the entry.
Exact ==
    \A d \in Domains, i \in IPs : seen[d][i] < quiet =>
        \E p \in Entries : First(d, p) /\ entry[p].age[i] = seen[d][i]

Inner ==
    /\ Heap /\ Walk /\ (\A t \in Threads : Call(t))
    /\ Recent /\ Meetings /\ Sound
    /\ walking /\ Main \notin entangled => Chain
    /\ Undisturbed /\ Exact

IInv ==
    /\ TypeOK /\ (corrupt => clash)
    /\ ~corrupt => Inner /\ NoFalseAlarm /\ HealsInAWindow

-----------------------------------------------------------------------------
(* The heap.                                                               *)

\* The fields of the entries.
LEMMA RecordFacts ==
    ASSUME NEW ents \in [Entries -> Record]
    PROVE  /\ nexts(ents) \in [Entries -> Pointers]
           /\ \A x \in Entries : /\ nexts(ents)[x] = ents[x].next /\ ents[x].next \in Pointers
                                 /\ ents[x].domain \in Domains \cup {Null}
                                 /\ ents[x].age \in [IPs -> Ages]
<1>1. \A x \in Entries : /\ ents[x].next \in Pointers /\ ents[x].domain \in Domains \cup {Null}
                         /\ ents[x].age \in [IPs -> Ages]
    BY DEF Record
<1>. QED  BY <1>1 DEF nexts

\* Memory that no entry has: no domain, no next, no address.
LEMMA FreeFacts ==
    Free \in Record /\ Free.domain = Null /\ Free.next = Null /\ \A i \in IPs : Free.age[i] = Gone
<1>1. NoIPs \in [IPs -> Ages] /\ \A i \in IPs : NoIPs[i] = Gone
    BY FluxAssumption DEF NoIPs, Ages, Gone
<1>. QED  BY <1>1 DEF Free, Record, Pointers

\* flux_find, by what is in the list.
LEMMA FindFacts ==
    ASSUME TypeOK, Heap, NEW d \in Domains, NEW p, p = flux_find(d)
    PROVE  /\ p \in Pointers /\ Alive(entry, p)
           /\ p \in Entries => First(d, p)
           /\ p \notin Entries => \A w \in Listed : entry[w].domain # d
           /\ p = Dangling => Dangling \in Roots \/ \E x \in Entries : entry[x].next = Dangling
<1>. DEFINE nx == nexts(entry)
            W  == {x \in Entries : entry[x].domain = d}
<1>1. entry \in [Entries -> Record] /\ flux_table \in Pointers
    BY DEF TypeOK, Record
<1>2. nx \in [Entries -> Pointers] /\ \A x \in Entries : nx[x] = entry[x].next
    BY <1>1, RecordFacts
<1>3. Acyclic(nx) /\ W \in SUBSET Entries /\ p = Search(flux_table, nx, W)
    BY DEF Heap, flux_find
<1>4. Listed = Reached(nx, {flux_table}) /\ Listed \subseteq Entries
    BY ReachedFacts DEF Listed
<1>. HIDE DEF nx
<1>5. /\ p \in {flux_table} \cup {nx[x] : x \in Entries}
      /\ p \in Entries => /\ p \in W /\ p \in Listed
                          /\ \A w \in W \cap Listed : w \in Reached(nx, {p})
      /\ p \notin Entries => W \cap Listed = {}
    <2>1. nx \in [Entries -> Pointers] /\ flux_table \in Pointers
        BY <1>1, <1>2
    <2>. HIDE DEF W
    <2>2. /\ p \in {flux_table} \cup {nx[x] : x \in Entries}
          /\ p \in Entries => /\ p \in W /\ p \in Reached(nx, {flux_table})
                              /\ \A w \in W \cap Reached(nx, {flux_table}) : w \in Reached(nx, {p})
          /\ p \notin Entries => W \cap Reached(nx, {flux_table}) = {}
        BY <1>3, <2>1, SearchFacts
    <2>. QED  BY <1>4, <2>2
<1>6. p \in Pointers /\ Alive(entry, p)
    BY <1>1, <1>2, <1>5 DEF Heap, Roots
<1>7. p \in Entries => First(d, p)
    BY <1>4, <1>5 DEF First, FirstIn, nx, Listed
<1>8. p \notin Entries => \A w \in Listed : entry[w].domain # d
    BY <1>4, <1>5
<1>9. p = Dangling => Dangling \in Roots \/ \E x \in Entries : entry[x].next = Dangling
    BY <1>2, <1>5 DEF Roots
<1>. QED  BY <1>6, <1>7, <1>8, <1>9

\* There is one first entry of a domain.
LEMMA FirstUnique ==
    ASSUME TypeOK, Heap, NEW d, NEW p, NEW q, First(d, p), First(d, q)
    PROVE  p = q
<1>1. Acyclic(nexts(entry)) /\ p \in Entries /\ q \in Entries
    BY ReachedFacts DEF Heap, First, FirstIn
<1>2. p \in Reached(nexts(entry), {q}) /\ q \in Reached(nexts(entry), {p})
    BY DEF First, FirstIn
<1>. QED  BY <1>1, <1>2, Antisymmetric

\* An assignment of entries, after which what has leaked is forgotten: nothing changes for
\* what some pointer still leads to.
LEMMA AssignFacts ==
    ASSUME NEW ents \in [Entries -> Record], Assign(ents), Acyclic(nexts(ents)),
           \A p \in Roots' : Alive(ents, p),
           \A x \in Entries : Alive(ents, ents[x].next)
    PROVE  /\ entry' \in [Entries -> Record] /\ Heap'
           /\ \A x \in Entries : entry'[x] = ents[x] \/ entry'[x] = Free
           /\ \A p \in Roots' \cap Entries : entry'[p] = ents[p]
           /\ \A d, p : First(d, p)' <=> FirstIn(ents, flux_table', d, p)
           /\ Listed' = Reached(nexts(ents), {flux_table'})
           /\ \A x \in Listed' : entry'[x] = ents[x]
<1>. USE ListAssumption
<1>. DEFINE kept == Reached(nexts(ents), Roots')
            nx   == nexts(ents)
            ny   == nexts(entry')
<1>1. entry' = [x \in Entries |-> IF x \in kept THEN ents[x] ELSE Free]
    BY DEF Assign
<1>2. /\ kept \subseteq Entries /\ Roots' \cap Entries \subseteq kept /\ Closed(nx, kept)
    BY ReachedFacts
<1>. HIDE DEF kept
<1>3. /\ entry' \in [Entries -> Record]
      /\ \A x \in Entries : entry'[x] = ents[x] \/ entry'[x] = Free
      /\ \A x \in kept : entry'[x] = ents[x]
      /\ \A x \in Entries \ kept : entry'[x] = Free
    BY <1>1, <1>2, FreeFacts
<1>4. /\ nx \in [Entries -> Pointers] /\ \A x \in Entries : nx[x] = ents[x].next
      /\ ny \in [Entries -> Pointers] /\ \A x \in Entries : ny[x] = entry'[x].next
    BY <1>3, RecordFacts
<1>. HIDE DEF nx, ny
<1>5. /\ \A x \in kept : ny[x] = nx[x]
      /\ \A x \in Entries \ kept : ny[x] = Null
    BY <1>2, <1>3, <1>4, FreeFacts
<1>6. Acyclic(ny)
    <2>. SUFFICES ASSUME NEW D \in SUBSET Entries, D # {} PROVE \E x \in D : ny[x] \notin D
        BY DEF Acyclic
    <2>1. PICK x \in D : nx[x] \notin D
        BY DEF Acyclic, nx
    <2>. QED  BY <1>5, <2>1
<1>7. \A p \in Roots' : Alive(entry', p)
    BY <1>2, <1>3 DEF Alive
<1>8. ASSUME NEW x \in Entries PROVE Alive(entry', entry'[x].next)
    <2>1. CASE x \in kept
        <3>1. entry'[x].next \in Entries => entry'[x].next \in kept
            BY <1>2, <1>4, <1>5, <2>1 DEF Closed
        <3>. QED  BY <1>3, <2>1, <3>1 DEF Alive
    <2>2. CASE x \notin kept
        BY <1>3, <2>2, FreeFacts DEF Alive
    <2>. QED  BY <2>1, <2>2
<1>9. ASSUME NEW roots, roots \cap Entries \subseteq kept
      PROVE  Reached(nx, roots) = Reached(ny, roots) /\ Reached(nx, roots) \subseteq kept
    BY <1>2, <1>5, <1>9, SameReach
<1>10. \A x \in Entries : entry'[x].domain # Null => x \in Reached(ny, Roots')
    <2>1. kept = Reached(ny, Roots')
        BY <1>2, <1>9 DEF kept, nx
    <2>. QED  BY <1>3, <2>1, FreeFacts
<1>11. Heap'
    <2>. DEFINE C == {x \in Entries : ents[x].domain # Null}
    <2>1. C \in SUBSET Entries /\ Roots' \cap Entries \subseteq C /\ Closed(nx, C)
        BY <1>4 DEF Alive, Closed
    <2>2. kept \subseteq C
        BY <2>1, ReachedFacts DEF kept, nx
    <2>3. \A x \in Entries : entry'[x].domain = Null => entry'[x].next = Null
        BY <1>3, <2>2, FreeFacts
    <2>. QED  BY <1>6, <1>7, <1>8, <1>10, <2>3 DEF Heap, ny, Roots, nexts, Alive, Acyclic
<1>12. /\ Reached(nx, {flux_table'}) = Reached(ny, {flux_table'})
       /\ Reached(nx, {flux_table'}) \subseteq kept
    <2>1. {flux_table'} \cap Entries \subseteq kept
        BY <1>2 DEF Roots
    <2>. QED  BY <1>9, <2>1
<1>13. Listed' = Reached(nx, {flux_table'}) /\ \A x \in Listed' : entry'[x] = ents[x]
    BY <1>3, <1>12 DEF Listed, ny, nexts
<1>14. \A p \in kept : Reached(nx, {p}) = Reached(ny, {p})
    BY <1>9
<1>15. ASSUME NEW d, NEW p PROVE First(d, p)' <=> FirstIn(ents, flux_table', d, p)
    <2>1. First(d, p)' <=> FirstIn(entry', flux_table', d, p)
        BY DEF First, FirstIn, nexts
    <2>2. FirstIn(entry', flux_table', d, p) <=>
            /\ p \in Reached(ny, {flux_table'}) /\ entry'[p].domain = d
            /\ \A w \in Reached(ny, {flux_table'}) : entry'[w].domain = d => w \in Reached(ny, {p})
        BY DEF FirstIn, ny
    <2>3. FirstIn(ents, flux_table', d, p) <=>
            /\ p \in Reached(nx, {flux_table'}) /\ ents[p].domain = d
            /\ \A w \in Reached(nx, {flux_table'}) : ents[w].domain = d => w \in Reached(nx, {p})
        BY DEF FirstIn, nx
    <2>. QED  BY <1>3, <1>12, <1>14, <2>1, <2>2, <2>3
<1>16. \A p \in Roots' \cap Entries : entry'[p] = ents[p]
    BY <1>2, <1>3
<1>. QED  BY <1>3, <1>11, <1>13, <1>15, <1>16 DEF nx

-----------------------------------------------------------------------------
(* The history.                                                            *)

\* What every step leaves in the history.
LEMMA Observed ==
    ASSUME TypeOK, Meetings, Observe(FALSE) \/ Observe(TRUE)
    PROVE  /\ entangled' \subseteq Threads \cup {Main} /\ quiet' \in 0..WINDOW /\ clash' \in BOOLEAN
           /\ Meetings'
           /\ ~clash' => ~clash /\ ~Clash'
           /\ walking' /\ Calling' # {} => Main \in entangled'
<1>. USE FluxAssumption
<1>1. Calling' \subseteq Threads /\ Active' \subseteq Threads \cup {Main}
    BY DEF Calling, Active
<1>2. IsFiniteSet(Active')
    <2>1. IsFiniteSet(Threads \cup {Main})
        BY FS_AddElement
    <2>. QED  BY <1>1, <2>1, FS_Subset
<1>3. /\ entangled' = IF \E a, b \in Active' : a # b THEN Active' ELSE entangled \cap Active'
      /\ clash' = (clash \/ Clash')
      /\ entangled' # {} => quiet' = 0
      /\ quiet' \in {0, quiet} \/ (quiet < WINDOW /\ quiet' = quiet + 1)
    <2>1. Cardinality(Active') > 1 <=> \E a, b \in Active' : a # b
        BY <1>2, TwoOrMore
    <2>2. quiet \in Int
        BY DEF TypeOK
    <2>. QED  BY <2>1, <2>2 DEF Observe
<1>4. entangled' \subseteq Threads \cup {Main} /\ clash' \in BOOLEAN
    BY <1>1, <1>3
<1>5. quiet' \in 0..WINDOW
    BY <1>3 DEF TypeOK
<1>6. walking' /\ Calling' # {} => Main \in entangled' /\ Clash'
    <2>. SUFFICES ASSUME walking', Calling' # {} PROVE Main \in entangled' /\ Clash'
        OBVIOUS
    <2>1. PICK t \in Calling' : TRUE
        OBVIOUS
    <2>2. t \in Active' /\ Main \in Active' /\ t # Main
        BY <1>1, <2>1 DEF Active
    <2>. QED  BY <1>3, <2>2 DEF Clash
<1>7. Main \in entangled' => clash'
    <2>. SUFFICES ASSUME Main \in entangled' PROVE clash'
        OBVIOUS
    <2>1. CASE \E a, b \in Active' : a # b
        <3>1. Main \in Active'
            BY <1>3, <2>1
        <3>2. walking'
            BY <1>1, <3>1 DEF Active
        <3>3. Active' = Calling' \cup {Main}
            BY <3>2 DEF Active
        <3>4. Calling' # {}
            BY <2>1, <3>3
        <3>. QED  BY <1>3, <1>6, <3>2, <3>4
    <2>2. CASE ~\E a, b \in Active' : a # b
        BY <1>3, <2>2 DEF Meetings
    <2>. QED  BY <2>1, <2>2
<1>8. Meetings'
    <2>1. entangled' \subseteq Active'
        BY <1>3
    <2>2. \A a, b \in Active' : a # b => entangled' = Active'
        BY <1>3
    <2>. QED  BY <1>3, <1>7, <2>1, <2>2 DEF Meetings, Active, Calling
<1>. QED  BY <1>3, <1>4, <1>5, <1>6, <1>8

\* A step that begins or ends at most one call disturbs nobody who was undisturbed.
LEMMA Settled ==
    ASSUME TypeOK, Meetings, Observe(FALSE), Active \subseteq Active' \/ Active' \subseteq Active
    PROVE  /\ quiet' = IF entangled' = {} THEN quiet ELSE 0
           /\ entangled' = {} => \A a, b \in Active' : a = b
           /\ entangled' = {} /\ entangled # {} => Active' = {} /\ quiet' = 0
<1>1. Meetings'
    BY Observed
<1>2. quiet' = IF entangled' # {} THEN 0 ELSE quiet
    BY DEF Observe
<1>3. entangled' = {} => \A a, b \in Active' : a = b
    BY <1>1 DEF Meetings
<1>4. ASSUME entangled' = {}, entangled # {} PROVE Active' = {}
    <2>. SUFFICES ASSUME NEW u \in Active' PROVE FALSE
        OBVIOUS
    <2>1. IsFiniteSet(Active')
        <3>1. IsFiniteSet(Threads \cup {Main})
            BY FluxAssumption, FS_AddElement
        <3>2. Active' \subseteq Threads \cup {Main}
            BY DEF Active, Calling
        <3>. QED  BY <3>1, <3>2, FS_Subset
    <2>2. entangled \cap Active' = {}
        <3>1. Cardinality(Active') > 1 <=> \E a, b \in Active' : a # b
            BY <2>1, TwoOrMore
        <3>. QED  BY <1>3, <1>4, <3>1 DEF Observe
    <2>3. PICK a \in entangled : TRUE
        BY <1>4
    <2>4. a \in Active /\ a \notin Active'
        BY <2>2, <2>3 DEF Meetings
    <2>5. u \in Active /\ u # a
        BY <2>4
    <2>6. entangled = Active
        BY <2>4, <2>5 DEF Meetings
    <2>. QED  BY <2>2, <2>5, <2>6
<1>. QED  BY <1>2, <1>3, <1>4 DEF Meetings

-----------------------------------------------------------------------------
(* The steps.                                                              *)

\* The types of all but the history.
CodeTypes ==
    /\ flux_table \in Pointers
    /\ entry \in [Entries -> Record]
    /\ pc \in [Threads -> {"out", "make", "link", "add"}]
    /\ arg \in [Threads -> Domains \cup {Null}]
    /\ e \in [Threads -> Pointers]
    /\ walking \in BOOLEAN /\ curr \in Pointers /\ prev \in Entries \cup {Null}
    /\ since \in 0..(PERIOD + 1)
    /\ verdict \in [domain : Domains \cup {Null}, alarm : BOOLEAN]
    /\ corrupt \in BOOLEAN
    /\ seen \in [Domains -> [IPs -> Ages]]

Calls == \A t \in Threads : Call(t)

\* No pointer leads to an entry that was freed.
NoDangling == Dangling \notin Roots /\ \A x \in Entries : entry[x].next # Dangling

\* What a step of a thread or of main has to show.
LEMMA StepIInv ==
    ASSUME IInv, ~corrupt, Observe(FALSE), Active \subseteq Active' \/ Active' \subseteq Active,
           CodeTypes', corrupt' => clash',
           ~corrupt' => Heap' /\ Walk' /\ Calls' /\ Recent' /\ NoFalseAlarm' /\ HealsInAWindow',
           ~corrupt' /\ ~clash' => NoDangling',
           ~corrupt' /\ walking' /\ Main \notin entangled' => Chain',
           /\ ~corrupt' /\ entangled = {} /\ entangled' = {} /\ quiet' = quiet
           /\ \A a, b \in Active' : a = b
           => Undisturbed' /\ Exact'
    PROVE  IInv'
<1>1. TypeOK /\ Meetings
    BY DEF IInv, Inner
<1>2. /\ entangled' \subseteq Threads \cup {Main} /\ quiet' \in 0..WINDOW /\ clash' \in BOOLEAN
      /\ Meetings' /\ (~clash' => ~Clash')
    BY <1>1, Observed
<1>3. TypeOK'
    BY <1>2 DEF CodeTypes, TypeOK, Record
<1>. SUFFICES ASSUME ~corrupt' PROVE Sound' /\ Undisturbed' /\ Exact'
    BY <1>2, <1>3 DEF IInv, Inner, Calls
<1>4. Sound'
    BY <1>2 DEF Sound, NoDangling
<1>5. /\ quiet' = IF entangled' = {} THEN quiet ELSE 0
      /\ entangled' = {} => \A a, b \in Active' : a = b
      /\ entangled' = {} /\ entangled # {} => Active' = {} /\ quiet' = 0
    BY <1>1, Settled
<1>6. quiet' = 0 => Exact'
    <2>1. \A d \in Domains, i \in IPs : ~(seen'[d][i] < 0)
        BY FluxAssumption DEF CodeTypes, Ages, Gone
    <2>. QED  BY <2>1 DEF Exact
<1>7. entangled' # {} => Undisturbed'
    BY DEF Undisturbed
<1>8. Active' = {} => Undisturbed'
    <2>1. Active' = {} => \A t \in Threads : pc'[t] = "out"
        BY DEF Active, Calling
    <2>. QED  BY <2>1 DEF Undisturbed
<1>. QED  BY <1>4, <1>5, <1>6, <1>7, <1>8

\* A step that returns no verdict raises no alarm.
LEMMA NoAlarm ==
    ASSUME verdict' = NoVerdict
    PROVE  NoFalseAlarm' /\ HealsInAWindow' /\ verdict' \in [domain : Domains \cup {Null}, alarm : BOOLEAN]
BY DEF NoVerdict, NoFalseAlarm, HealsInAWindow

\* What is there before a step.
LEMMA BeforeStep ==
    ASSUME IInv, ~corrupt
    PROVE  /\ TypeOK /\ CodeTypes /\ Heap /\ Walk /\ Calls /\ Recent /\ Meetings
           /\ Undisturbed /\ Exact
           /\ ~clash => ~Clash /\ NoDangling
           /\ walking /\ Main \notin entangled => Chain
           /\ entangled \subseteq Threads \cup {Main} /\ quiet \in 0..WINDOW
BY DEF IInv, Inner, TypeOK, CodeTypes, Record, Calls, Sound, NoDangling

\* A thread begins a call or goes on with it: the others stay as they are.
LEMMA ActiveGrows ==
    ASSUME NEW t \in Threads, NEW at, pc' = [pc EXCEPT ![t] = at], at # "out", walking' = walking,
           CodeTypes
    PROVE  /\ Active \subseteq Active' /\ t \in Calling'
           /\ (\A a, b \in Active' : a = b) => Calling' = {t} /\ ~walking
<1>1. Calling' = Calling \cup {t}
    BY DEF CodeTypes, Calling
<1>2. Active' = Active \cup {t}
    BY <1>1 DEF Active
<1>. QED  BY <1>1, <1>2, FluxAssumption DEF Active

\* The pointers lead to more, and the entries stay.
LEMMA HeapGrows ==
    ASSUME Heap, entry' = entry, Roots \cap Entries \subseteq Roots',
           \A p \in Roots' : p \in Roots \/ Alive(entry, p)
    PROVE  Heap'
<1>. DEFINE nx == nexts(entry)
<1>1. Reached(nx, Roots) \subseteq Reached(nx, Roots')
    <2>1. /\ Reached(nx, Roots') \in SUBSET Entries /\ Closed(nx, Reached(nx, Roots'))
          /\ Roots \cap Entries \subseteq Reached(nx, Roots')
        BY ReachedFacts
    <2>. QED  BY <2>1, ReachedFacts
<1>. HIDE DEF nx
<1>2. nexts(entry)' = nx /\ nexts(entry) = nx
    BY DEF nx, nexts
<1>3. \A x \in Entries : entry'[x].domain # Null => x \in Reached(nexts(entry)', Roots')
    BY <1>1, <1>2 DEF Heap
<1>4. \A p \in Roots' : Alive(entry', p)
    BY DEF Heap
<1>. QED  BY <1>2, <1>3, <1>4 DEF Heap, Alive, Acyclic

\* The list as it was has the first entries that it had.
LEMMA SameList ==
    ASSUME entry' = entry, flux_table' = flux_table
    PROVE  /\ Listed' = Listed
           /\ \A d, p : First(d, p)' <=> First(d, p)
BY DEF Listed, First, FirstIn, nexts

\* flux_find that finds an entry.
LEMMA findIInv ==
    ASSUME IInv, ~corrupt, NEW t \in Threads, NEW d \in Domains, find(t, d), Observe(FALSE)
    PROVE  IInv'
<1>. USE ListAssumption, FluxAssumption
<1>. DEFINE x == flux_find(d)
<1>1. /\ x \in Entries
      /\ pc[t] = "out" /\ e' = [e EXCEPT ![t] = x] /\ arg' = [arg EXCEPT ![t] = d]
      /\ pc' = [pc EXCEPT ![t] = "add"] /\ verdict' = NoVerdict
      /\ entry' = entry /\ flux_table' = flux_table /\ corrupt' = corrupt /\ seen' = seen
      /\ walking' = walking /\ curr' = curr /\ prev' = prev /\ since' = since
    BY DEF find, walk, results
<1>. HIDE DEF x
<1>2. /\ CodeTypes /\ TypeOK /\ Heap /\ Walk /\ Calls /\ Recent /\ Meetings /\ Undisturbed /\ Exact
      /\ ~clash => NoDangling
    BY BeforeStep
<1>3. Alive(entry, x) /\ First(d, x)
    BY <1>1, <1>2, FindFacts DEF x
<1>4. Active \subseteq Active' /\ t \in Calling' /\ ((\A a, b \in Active' : a = b) => Calling' = {t})
    BY <1>1, <1>2, ActiveGrows
<1>5. /\ \A u \in Threads : e'[u] = IF u = t THEN x ELSE e[u]
      /\ \A u \in Threads : pc'[u] = IF u = t THEN "add" ELSE pc[u]
      /\ \A u \in Threads : arg'[u] = IF u = t THEN d ELSE arg[u]
      /\ e[t] = Null
    BY <1>1, <1>2 DEF CodeTypes, Calls, Call
<1>6. Roots' \subseteq Roots \cup {x} /\ Roots \cap Entries \subseteq Roots'
    BY <1>1, <1>5 DEF Roots
<1>7. CodeTypes'
    BY <1>1, <1>2, NoAlarm DEF CodeTypes, Pointers
<1>8. Heap'
    BY <1>1, <1>2, <1>3, <1>6, HeapGrows
<1>9. Walk' /\ Recent'
    BY <1>1, <1>2 DEF Walk, Recent
<1>10. Calls'
    <2>1. entry[x].domain = d
        BY <1>3 DEF First, FirstIn
    <2>2. ASSUME NEW u \in Threads PROVE Call(u)'
        BY <1>1, <1>2, <1>5, <2>1 DEF Call, Calls
    <2>. QED  BY <2>2 DEF Calls
<1>11. ~clash' => NoDangling'
    BY <1>1, <1>2, <1>6, Observed DEF NoDangling
<1>12. ~(walking' /\ Main \notin entangled')
    BY <1>2, <1>4, Observed
<1>13. /\ Listed' = Listed
       /\ \A dd, p : First(dd, p)' <=> First(dd, p)
    BY <1>1, SameList
<1>14. ASSUME \A a, b \in Active' : a = b PROVE Undisturbed'
    <2>1. \A u \in Threads : pc'[u] # "out" => u = t
        BY <1>4, <1>14 DEF Calling
    <2>. QED  BY <1>3, <1>5, <1>13, <2>1 DEF Undisturbed
<1>15. quiet' = quiet => Exact'
    BY <1>1, <1>2, <1>13 DEF Exact
<1>. QED  BY <1>1, <1>4, <1>7, <1>8, <1>9, <1>10, <1>11, <1>12, <1>14, <1>15, NoAlarm, StepIInv

\* flux_find that meets a freed entry, or flux_cleanup.
LEMMA find_danglingIInv ==
    ASSUME IInv, ~corrupt, NEW t \in Threads, NEW d \in Domains, find_dangling(t, d), Observe(FALSE)
    PROVE  IInv'
<1>. USE ListAssumption, FluxAssumption
<1>1. /\ flux_find(d) = Dangling \/ walking
      /\ e' = [e EXCEPT ![t] = Dangling] /\ arg' = [arg EXCEPT ![t] = d]
      /\ pc' = [pc EXCEPT ![t] = "add"] /\ verdict' = NoVerdict
      /\ entry' = entry /\ flux_table' = flux_table /\ corrupt' = TRUE /\ seen' = seen
      /\ walking' = walking /\ curr' = curr /\ prev' = prev /\ since' = since
    BY DEF find_dangling, walk
<1>2. CodeTypes /\ TypeOK /\ Heap /\ Meetings /\ (~clash => NoDangling)
    BY BeforeStep
<1>3. Active \subseteq Active' /\ t \in Calling'
    BY <1>1, <1>2, ActiveGrows
<1>4. CodeTypes'
    BY <1>1, <1>2, NoAlarm DEF CodeTypes, Pointers
<1>5. clash'
    <2>1. CASE flux_find(d) = Dangling
        BY <1>2, <2>1, Observed, FindFacts DEF NoDangling
    <2>2. CASE walking
        BY <1>1, <1>2, <1>3, <2>2, Observed DEF Meetings
    <2>. QED  BY <1>1, <2>1, <2>2
<1>. QED  BY <1>1, <1>3, <1>4, <1>5, StepIInv

\* The list and its first entries depend only on the nexts and the domains along it.
LEMMA SameFirst ==
    ASSUME NEW ents \in [Entries -> Record], NEW entt \in [Entries -> Record], NEW h,
           \A y \in Reached(nexts(ents), {h}) : /\ entt[y].next = ents[y].next
                                                /\ entt[y].domain = ents[y].domain
    PROVE  /\ Reached(nexts(entt), {h}) = Reached(nexts(ents), {h})
           /\ \A d, p : FirstIn(entt, h, d, p) <=> FirstIn(ents, h, d, p)
<1>. DEFINE nx == nexts(ents)
            ny == nexts(entt)
            K  == Reached(nx, {h})
<1>1. K \in SUBSET Entries /\ Closed(nx, K) /\ {h} \cap Entries \subseteq K
    BY ReachedFacts
<1>2. \A y \in Entries : nx[y] = ents[y].next /\ ny[y] = entt[y].next
    BY RecordFacts
<1>3. \A y \in K : nx[y] = ny[y] /\ entt[y].domain = ents[y].domain
    BY <1>1, <1>2
<1>4. K = Reached(nx, {h})
    OBVIOUS
<1>. HIDE DEF nx, ny, K
<1>5. Reached(nx, {h}) = Reached(ny, {h})
    BY <1>1, <1>3, SameReach
<1>6. ASSUME NEW p \in K PROVE Reached(ny, {p}) = Reached(nx, {p})
    <2>1. {p} \cap Entries \subseteq K
        OBVIOUS
    <2>. QED  BY <1>1, <1>3, <2>1, SameReach
<1>7. ASSUME NEW d, NEW p PROVE FirstIn(entt, h, d, p) <=> FirstIn(ents, h, d, p)
    <2>1. FirstIn(ents, h, d, p) <=> /\ p \in K /\ ents[p].domain = d
                                     /\ \A w \in K : ents[w].domain = d => w \in Reached(nx, {p})
        BY DEF FirstIn, nx, K
    <2>2. FirstIn(entt, h, d, p) <=> /\ p \in Reached(ny, {h}) /\ entt[p].domain = d
                                     /\ \A w \in Reached(ny, {h}) : entt[w].domain = d => w \in Reached(ny, {p})
        BY DEF FirstIn, ny
    <2>3. Reached(ny, {h}) = K
        BY <1>4, <1>5
    <2>4. CASE p \in K
        BY <1>3, <1>6, <2>1, <2>2, <2>3, <2>4
    <2>5. CASE p \notin K
        BY <2>1, <2>2, <2>3, <2>5
    <2>. QED  BY <2>4, <2>5
<1>. QED  BY <1>5, <1>7 DEF nx, ny

\* What a pointer of the program leads to is in use.
LEMMA ReachedAlive ==
    ASSUME CodeTypes, Heap, NEW roots \in SUBSET Roots, NEW y \in Reached(nexts(entry), roots)
    PROVE  y \in Entries /\ entry[y].domain # Null
<1>. DEFINE C == {x \in Entries : entry[x].domain # Null}
<1>1. C \in SUBSET Entries /\ roots \cap Entries \subseteq C
    BY DEF Heap, Alive
<1>2. Closed(nexts(entry), C)
    BY RecordFacts DEF CodeTypes, Heap, Alive, Closed
<1>. QED  BY <1>1, <1>2, ReachedFacts

\* flux_find that finds nothing.
LEMMA missIInv ==
    ASSUME IInv, ~corrupt, NEW t \in Threads, NEW d \in Domains, miss(t, d), Observe(FALSE)
    PROVE  IInv'
<1>. USE ListAssumption, FluxAssumption
<1>1. /\ flux_find(d) = Null
      /\ pc[t] = "out" /\ e' = e /\ arg' = [arg EXCEPT ![t] = d]
      /\ pc' = [pc EXCEPT ![t] = "make"] /\ verdict' = NoVerdict
      /\ entry' = entry /\ flux_table' = flux_table /\ corrupt' = corrupt /\ seen' = seen
      /\ walking' = walking /\ curr' = curr /\ prev' = prev /\ since' = since
    BY DEF miss, walk, results
<1>2. /\ CodeTypes /\ TypeOK /\ Heap /\ Walk /\ Calls /\ Recent /\ Meetings /\ Undisturbed /\ Exact
      /\ ~clash => NoDangling
    BY BeforeStep
<1>3. \A w \in Listed : entry[w].domain # d
    BY <1>1, <1>2, FindFacts
<1>4. Active \subseteq Active' /\ t \in Calling' /\ ((\A a, b \in Active' : a = b) => Calling' = {t})
    BY <1>1, <1>2, ActiveGrows
<1>5. /\ \A u \in Threads : pc'[u] = IF u = t THEN "make" ELSE pc[u]
      /\ \A u \in Threads : arg'[u] = IF u = t THEN d ELSE arg[u]
      /\ e[t] = Null
    BY <1>1, <1>2 DEF CodeTypes, Calls, Call
<1>6. Roots' = Roots
    BY <1>1 DEF Roots
<1>7. CodeTypes'
    BY <1>1, <1>2, NoAlarm DEF CodeTypes
<1>8. Heap' /\ Walk' /\ Recent'
    BY <1>1, <1>2, <1>6 DEF Heap, Walk, Recent, nexts, Acyclic, Alive
<1>9. Calls'
    <2>1. ASSUME NEW u \in Threads PROVE Call(u)'
        BY <1>1, <1>2, <1>5 DEF Call, Calls
    <2>. QED  BY <2>1 DEF Calls
<1>10. ~clash' => NoDangling'
    BY <1>1, <1>2, <1>6, Observed DEF NoDangling
<1>11. ~(walking' /\ Main \notin entangled')
    BY <1>2, <1>4, Observed
<1>12. /\ Listed' = Listed
       /\ \A dd, p : First(dd, p)' <=> First(dd, p)
    BY <1>1, SameList
<1>13. ASSUME \A a, b \in Active' : a = b PROVE Undisturbed'
    <2>1. \A u \in Threads : pc'[u] # "out" => u = t
        BY <1>4, <1>13 DEF Calling
    <2>. QED  BY <1>1, <1>3, <1>5, <1>12, <2>1 DEF Undisturbed
<1>14. quiet' = quiet => Exact'
    BY <1>1, <1>2, <1>12 DEF Exact
<1>. QED  BY <1>1, <1>4, <1>7, <1>8, <1>9, <1>10, <1>11, <1>13, <1>14, NoAlarm, StepIInv

\* A new entry, which points at the head of the list.
LEMMA createIInv ==
    ASSUME IInv, ~corrupt, NEW t \in Threads, NEW x \in Entries, create(t, x), Observe(FALSE)
    PROVE  IInv'
<1>. USE ListAssumption, FluxAssumption
<1>. DEFINE d   == arg[t]
            new == [domain |-> d, next |-> flux_table, age |-> NoIPs]
            nx  == nexts(entry)
            ny  == nexts(entry')
<1>1. /\ entry[x] = Free
      /\ entry' = [entry EXCEPT ![x] = new]
      /\ pc[t] = "make" /\ e' = [e EXCEPT ![t] = x] /\ arg' = arg
      /\ pc' = [pc EXCEPT ![t] = "link"] /\ verdict' = NoVerdict
      /\ flux_table' = flux_table /\ corrupt' = corrupt /\ seen' = seen
      /\ walking' = walking /\ curr' = curr /\ prev' = prev /\ since' = since
    BY DEF create, walk, results
<1>2. /\ CodeTypes /\ TypeOK /\ Heap /\ Walk /\ Calls /\ Recent /\ Meetings /\ Undisturbed /\ Exact
      /\ ~clash => NoDangling
    BY BeforeStep
<1>3. d \in Domains /\ d # Null /\ (entangled = {} => \A w \in Listed : entry[w].domain # d)
    BY <1>1, <1>2 DEF Calls, Call, Undisturbed
<1>4. Active \subseteq Active' /\ t \in Calling' /\ ((\A a, b \in Active' : a = b) => Calling' = {t})
    BY <1>1, <1>2, ActiveGrows
<1>5. /\ \A u \in Threads : e'[u] = IF u = t THEN x ELSE e[u]
      /\ \A u \in Threads : pc'[u] = IF u = t THEN "link" ELSE pc[u]
      /\ e[t] = Null
    BY <1>1, <1>2 DEF CodeTypes, Calls, Call
<1>6. Roots' \subseteq Roots \cup {x} /\ Roots \cap Entries \subseteq Roots' /\ x \in Roots'
    BY <1>1, <1>5 DEF Roots
<1>7. new \in Record /\ \A i \in IPs : new.age[i] = Gone
    <2>1. NoIPs \in [IPs -> Ages] /\ \A i \in IPs : NoIPs[i] = Gone
        BY DEF NoIPs, Ages, Gone
    <2>. QED  BY <1>2, <1>3, <2>1 DEF Record, CodeTypes
<1>8. /\ entry \in [Entries -> Record] /\ entry' \in [Entries -> Record]
      /\ \A y \in Entries : y # x => entry'[y] = entry[y]
      /\ entry'[x].next = flux_table /\ entry'[x].domain = d /\ \A i \in IPs : entry'[x].age[i] = Gone
    BY <1>1, <1>2, <1>7 DEF CodeTypes
<1>. HIDE DEF new
<1>9. /\ x \notin Roots /\ \A y \in Entries : entry[y].next # x
      /\ entry[x].next = Null /\ entry[x].domain = Null
    BY <1>1, <1>2, FreeFacts DEF Heap, Alive
<1>10. /\ \A y \in Entries : nx[y] = entry[y].next
       /\ \A y \in Entries : ny[y] = entry'[y].next
    BY <1>8, RecordFacts
<1>11. CodeTypes'
    BY <1>1, <1>2, <1>8, NoAlarm DEF CodeTypes, Pointers
<1>12. Heap'
    <2>1. Acyclic(nx) /\ flux_table # x
        BY <1>2, <1>9 DEF Heap, Roots
    <2>2. ASSUME NEW D \in SUBSET Entries, D # {} PROVE \E y \in D : ny[y] \notin D
        <3>. HIDE DEF nx, ny
        <3>1. CASE D \ {x} = {}
            BY <1>8, <1>10, <2>1, <2>2, <3>1
        <3>2. CASE D \ {x} # {}
            <4>1. PICK y \in D \ {x} : nx[y] \notin D \ {x}
                BY <2>1, <3>2 DEF Acyclic
            <4>. QED  BY <1>8, <1>9, <1>10, <4>1
        <3>. QED  BY <3>1, <3>2
    <2>3. \A p \in Roots' : Alive(entry', p)
        BY <1>2, <1>3, <1>6, <1>8 DEF Heap, Alive
    <2>4. \A y \in Entries : Alive(entry', entry'[y].next)
        <3>1. \A y \in Entries : Alive(entry, entry'[y].next) /\ entry'[y].next # x
            BY <1>2, <1>8, <1>9, <2>1 DEF Heap, Roots
        <3>. QED  BY <1>8, <3>1 DEF Alive
    <2>5. ASSUME NEW y \in Entries, entry'[y].domain # Null PROVE y \in Reached(ny, Roots')
        <3>. DEFINE C == Reached(ny, Roots')
        <3>1. C \in SUBSET Entries /\ Closed(ny, C) /\ Roots' \cap Entries \subseteq C
            BY ReachedFacts
        <3>. HIDE DEF C, nx, ny
        <3>2. Closed(nx, C)
            BY <1>8, <1>9, <1>10, <3>1 DEF Closed
        <3>3. Reached(nx, Roots) \subseteq C
            BY <1>6, <3>1, <3>2, ReachedFacts
        <3>4. entry[y].domain # Null => y \in Reached(nx, Roots)
            BY <1>2 DEF Heap, nx
        <3>. QED  BY <1>6, <1>8, <2>5, <3>1, <3>3, <3>4 DEF C
    <2>6. ny = nexts(entry)'
        BY DEF nexts
    <2>7. \A y \in Entries : entry'[y].domain = Null => entry'[y].next = Null
        BY <1>2, <1>3, <1>8 DEF Heap
    <2>. QED  BY <2>2, <2>3, <2>4, <2>5, <2>6, <2>7 DEF Heap, Acyclic, Alive
<1>13. Walk'
    BY <1>1, <1>2, <1>8, <1>9 DEF Walk, Roots
<1>14. Recent'
    <2>1. ~(Gone < WINDOW)
        BY DEF Gone
    <2>. QED  BY <1>1, <1>2, <1>8, <2>1 DEF Recent
<1>15. Calls'
    <2>1. \A u \in Threads : e[u] # x
        BY <1>9 DEF Roots
    <2>2. ASSUME NEW u \in Threads PROVE Call(u)'
        BY <1>1, <1>2, <1>5, <1>8, <2>1 DEF Call, Calls
    <2>. QED  BY <2>2 DEF Calls
<1>16. ~clash' => NoDangling'
    <2>1. ~clash' => ~clash
        BY <1>2, Observed
    <2>2. flux_table \in Roots
        BY DEF Roots
    <2>. QED  BY <1>2, <1>6, <1>8, <2>1, <2>2 DEF NoDangling
<1>17. ~(walking' /\ Main \notin entangled')
    BY <1>2, <1>4, Observed
<1>18. x \notin Listed /\ Listed \subseteq Entries
    <2>1. {flux_table} \in SUBSET Roots
        BY DEF Roots
    <2>. QED  BY <1>2, <1>9, <2>1, ReachedAlive, ReachedFacts DEF Listed
<1>19. /\ Listed' = Listed
       /\ \A dd, p : First(dd, p)' <=> First(dd, p)
    <2>1. \A y \in Listed : entry'[y] = entry[y]
        BY <1>8, <1>18
    <2>2. /\ Reached(nexts(entry'), {flux_table}) = Reached(nexts(entry), {flux_table})
          /\ \A dd, p : FirstIn(entry', flux_table, dd, p) <=> FirstIn(entry, flux_table, dd, p)
        BY <1>8, <2>1, SameFirst DEF Listed
    <2>. QED  BY <1>1, <2>2 DEF Listed, First, FirstIn, nexts
<1>20. ASSUME entangled = {}, \A a, b \in Active' : a = b PROVE Undisturbed'
    <2>1. \A u \in Threads : pc'[u] # "out" => u = t
        BY <1>4, <1>20 DEF Calling
    <2>2. /\ pc'[t] = "link" /\ e'[t] = x /\ entry'[x].next = flux_table'
          /\ e'[t] \notin Listed' /\ \A w \in Listed' : entry'[w].domain # arg'[t]
        BY <1>1, <1>3, <1>5, <1>8, <1>18, <1>19, <1>20
    <2>. QED  BY <2>1, <2>2 DEF Undisturbed
<1>21. quiet' = quiet => Exact'
    <2>1. \A dd, p : First(dd, p) => p \in Listed
        BY DEF First, FirstIn, Listed
    <2>2. \A dd, p : First(dd, p) => entry'[p] = entry[p]
        BY <1>8, <1>18, <2>1
    <2>. QED  BY <1>1, <1>2, <1>19, <2>2 DEF Exact
<1>. QED  BY <1>1, <1>4, <1>11, <1>12, <1>13, <1>14, <1>15, <1>16, <1>17, <1>20, <1>21, NoAlarm, StepIInv

\* The new entry becomes the head of the list.
LEMMA linkIInv ==
    ASSUME IInv, ~corrupt, NEW t \in Threads, link(t), Observe(FALSE)
    PROVE  IInv'
<1>. USE ListAssumption, FluxAssumption
<1>. DEFINE x  == e[t]
            nx == nexts(entry)
<1>1. /\ pc[t] = "link" /\ flux_table' = x /\ pc' = [pc EXCEPT ![t] = "add"]
      /\ verdict' = NoVerdict /\ arg' = arg /\ e' = e /\ corrupt' = corrupt /\ seen' = seen
      /\ walking' = walking /\ curr' = curr /\ prev' = prev /\ since' = since
      /\ Assign(entry)
    BY DEF link, walk, results
<1>2. /\ CodeTypes /\ TypeOK /\ Heap /\ Walk /\ Calls /\ Recent /\ Meetings /\ Undisturbed /\ Exact
      /\ ~clash => NoDangling
    BY BeforeStep
<1>3. Active \subseteq Active' /\ t \in Calling' /\ ((\A a, b \in Active' : a = b) => Calling' = {t})
    BY <1>1, <1>2, ActiveGrows
<1>4. Roots' \subseteq Roots /\ \A u \in Threads : pc'[u] = IF u = t THEN "add" ELSE pc[u]
    BY <1>1, <1>2 DEF Roots, CodeTypes
<1>5. /\ entry \in [Entries -> Record] /\ Acyclic(nx)
      /\ \A p \in Roots' : Alive(entry, p)
      /\ \A y \in Entries : Alive(entry, entry[y].next)
    BY <1>2, <1>4 DEF Heap, CodeTypes
<1>6. /\ entry' \in [Entries -> Record] /\ Heap'
      /\ \A y \in Entries : entry'[y] = entry[y] \/ entry'[y] = Free
      /\ \A p \in Roots' \cap Entries : entry'[p] = entry[p]
      /\ \A d, p : First(d, p)' <=> FirstIn(entry, flux_table', d, p)
      /\ Listed' = Reached(nx, {flux_table'})
      /\ \A y \in Listed' : entry'[y] = entry[y]
    BY <1>1, <1>5, AssignFacts
<1>7. CodeTypes'
    BY <1>1, <1>2, <1>6, NoAlarm DEF CodeTypes
<1>8. Walk'
    BY <1>1, <1>2, <1>6 DEF Walk, Roots
<1>9. Recent'
    BY <1>1, <1>2, <1>6, FreeFacts DEF Recent
<1>10. Calls'
    <2>1. \A u \in Threads : e'[u] \in Entries => entry'[e'[u]] = entry[e'[u]]
        BY <1>6 DEF Roots
    <2>2. ASSUME NEW u \in Threads PROVE Call(u)'
        BY <1>1, <1>2, <1>4, <2>1 DEF Call, Calls
    <2>. QED  BY <2>2 DEF Calls
<1>11. ~clash' => NoDangling'
    BY <1>2, <1>4, <1>6, Observed, FreeFacts DEF NoDangling
<1>12. ~(walking' /\ Main \notin entangled')
    BY <1>1, <1>2, <1>3, Observed
<1>13. ASSUME entangled = {}, quiet' = quiet, \A a, b \in Active' : a = b PROVE Undisturbed' /\ Exact'
    <2>1. /\ x \in Entries /\ entry[x].next = flux_table
          /\ \A w \in Listed : entry[w].domain # arg[t]
        BY <1>1, <1>2, <1>13 DEF Undisturbed
    <2>2. entry[x].domain = arg[t]
        BY <1>2, <2>1 DEF Calls, Call
    <2>3. Reached(nx, {x}) = {x} \cup Listed /\ x \in Reached(nx, {x})
        <3>1. nx[x] = flux_table
            BY <1>5, <2>1, RecordFacts
        <3>2. Reached(nx, {x}) = {x} \cup Reached(nx, {nx[x]})
            BY <2>1, TailStep
        <3>. QED  BY <3>1, <3>2 DEF Listed
    <2>4. FirstIn(entry, x, arg[t], x)
        BY <2>2, <2>3 DEF FirstIn
    <2>5. ASSUME NEW d, NEW p, First(d, p) PROVE First(d, p)' /\ entry'[p] = entry[p]
        <3>1. /\ p \in Listed /\ entry[p].domain = d
              /\ \A w \in Listed : entry[w].domain = d => w \in Reached(nx, {p})
            BY <2>5 DEF First, FirstIn, Listed
        <3>2. FirstIn(entry, x, d, p)
            BY <2>1, <2>2, <2>3, <3>1 DEF FirstIn
        <3>. QED  BY <1>1, <1>6, <2>3, <3>1, <3>2
    <2>6. Exact'
        BY <1>1, <1>2, <1>13, <2>5 DEF Exact
    <2>7. \A u \in Threads : pc'[u] # "out" => u = t
        BY <1>3, <1>13 DEF Calling
    <2>8. First(arg[t], x)'
        BY <1>1, <1>6, <2>4
    <2>. QED  BY <1>1, <1>4, <2>6, <2>7, <2>8 DEF Undisturbed
<1>. QED  BY <1>1, <1>3, <1>6, <1>7, <1>8, <1>9, <1>10, <1>11, <1>12, <1>13, NoAlarm, StepIInv

\* The ages after the old ones are pruned and one address is refreshed.
LEMMA PrunedFacts ==
    ASSUME NEW ages \in [IPs -> Ages]
    PROVE  /\ Pruned(ages) \in [IPs -> Ages]
           /\ \A j \in IPs : Pruned(ages)[j] = IF ages[j] < WINDOW THEN ages[j] ELSE Gone
           /\ \A i \in IPs : /\ Touched(Pruned(ages), i) \in [IPs -> Ages]
                             /\ \A j \in IPs : Touched(Pruned(ages), i)[j] =
                                    IF j = i THEN 0 ELSE IF ages[j] < WINDOW THEN ages[j] ELSE Gone
<1>1. Gone \in Ages /\ 0 \in Ages
    BY FluxAssumption DEF Gone, Ages
<1>2. /\ Pruned(ages) \in [IPs -> Ages]
      /\ \A j \in IPs : Pruned(ages)[j] = IF ages[j] < WINDOW THEN ages[j] ELSE Gone
    BY <1>1 DEF Pruned, InWindow
<1>. QED  BY <1>1, <1>2 DEF Touched

\* A step that changes the ages of one entry leaves the list as it is.
LEMMA AgesChange ==
    ASSUME CodeTypes, Heap, NEW x \in Entries, NEW g \in [IPs -> Ages],
           Assign([entry EXCEPT ![x].age = g]), flux_table' = flux_table,
           \A p \in Roots' : Alive(entry, p)
    PROVE  /\ entry' \in [Entries -> Record] /\ Heap'
           /\ \A y \in Entries :
                 \/ /\ entry'[y].domain = entry[y].domain /\ entry'[y].next = entry[y].next
                    /\ entry'[y].age = IF y = x THEN g ELSE entry[y].age
                 \/ entry'[y] = Free
           /\ \A p \in Roots' \cap Entries : /\ entry'[p].domain = entry[p].domain
                                             /\ entry'[p].next = entry[p].next
           /\ \A d, p : First(d, p)' <=> First(d, p)
           /\ Listed' = Listed
           /\ \A y \in Listed : entry'[y].age = IF y = x THEN g ELSE entry[y].age
<1>. DEFINE ents == [entry EXCEPT ![x].age = g]
<1>0. entry \in [Entries -> Record]
    BY DEF CodeTypes
<1>1. [entry[x] EXCEPT !.age = g] \in Record
    BY <1>0 DEF Record
<1>2. ents \in [Entries -> Record]
    BY <1>0, <1>1
<1>3. \A y \in Entries : /\ ents[y].domain = entry[y].domain /\ ents[y].next = entry[y].next
                         /\ ents[y].age = IF y = x THEN g ELSE entry[y].age
    BY <1>0 DEF Record
<1>4. Assign(ents)
    OBVIOUS
<1>. HIDE DEF ents
<1>5. nexts(ents) = nexts(entry)
    BY <1>3 DEF nexts
<1>6. /\ Acyclic(nexts(ents))
      /\ \A p \in Roots' : Alive(ents, p)
      /\ \A y \in Entries : Alive(ents, ents[y].next)
    BY <1>3, <1>5 DEF Heap, Alive
<1>7. /\ entry' \in [Entries -> Record] /\ Heap'
      /\ \A y \in Entries : entry'[y] = ents[y] \/ entry'[y] = Free
      /\ \A p \in Roots' \cap Entries : entry'[p] = ents[p]
      /\ \A d, p : First(d, p)' <=> FirstIn(ents, flux_table', d, p)
      /\ Listed' = Reached(nexts(ents), {flux_table'})
      /\ \A y \in Listed' : entry'[y] = ents[y]
    BY <1>2, <1>4, <1>6, AssignFacts
<1>8. Listed' = Listed /\ Listed \subseteq Entries
    BY <1>5, <1>7, ReachedFacts DEF Listed
<1>9. /\ \A y \in Reached(nexts(entry), {flux_table}) : ents[y].next = entry[y].next /\ ents[y].domain = entry[y].domain
    BY <1>3, <1>8 DEF Listed
<1>10. \A d, p : FirstIn(ents, flux_table, d, p) <=> FirstIn(entry, flux_table, d, p)
    BY <1>0, <1>2, <1>9, SameFirst
<1>11. \A d, p : First(d, p)' <=> First(d, p)
    BY <1>7, <1>10 DEF First
<1>. QED  BY <1>3, <1>7, <1>8, <1>11

\* Fewer addresses are fewer.
LEMMA CountMonotone ==
    ASSUME NEW S \in SUBSET IPs, NEW T \in SUBSET IPs, S \subseteq T
    PROVE  Cardinality(S) \in Nat /\ Cardinality(T) \in Nat /\ Cardinality(S) <= Cardinality(T)
<1>1. IsFiniteSet(S) /\ IsFiniteSet(T)
    BY FluxAssumption, FS_Subset
<1>. QED  BY <1>1, FS_Subset, FS_CardinalityType

\* flux_add_ip on an entry, and the verdict.
LEMMA flux_add_ipIInv ==
    ASSUME IInv, ~corrupt, NEW t \in Threads, NEW i \in IPs, flux_add_ip(t, i), Observe(FALSE)
    PROVE  IInv'
<1>. USE ListAssumption, FluxAssumption
<1>. DEFINE x  == e[t]
            d  == arg[t]
            g  == Touched(Pruned(entry[x].age), i)
<1>1. /\ pc[t] = "add"
      /\ seen' = [seen EXCEPT ![d][i] = 0]
      /\ pc' = [pc EXCEPT ![t] = "out"] /\ arg' = [arg EXCEPT ![t] = Null] /\ e' = [e EXCEPT ![t] = Null]
      /\ flux_table' = flux_table
      /\ walking' = walking /\ curr' = curr /\ prev' = prev /\ since' = since
    BY DEF flux_add_ip, walk
<1>2. /\ CodeTypes /\ TypeOK /\ Heap /\ Walk /\ Calls /\ Recent /\ Meetings /\ Undisturbed /\ Exact
      /\ ~clash => ~Clash /\ NoDangling
      /\ quiet \in 0..WINDOW
    BY BeforeStep
<1>3. /\ \A u \in Threads : e'[u] = IF u = t THEN Null ELSE e[u]
      /\ \A u \in Threads : pc'[u] = IF u = t THEN "out" ELSE pc[u]
      /\ \A u \in Threads : arg'[u] = IF u = t THEN Null ELSE arg[u]
    BY <1>1, <1>2 DEF CodeTypes
<1>4. d \in Domains /\ x # Null /\ x \in Pointers /\ (x \in Entries => entry[x].domain = d)
    BY <1>1, <1>2 DEF Calls, Call, CodeTypes
<1>5. /\ seen' \in [Domains -> [IPs -> Ages]]
      /\ \A c \in Domains, j \in IPs : seen'[c][j] = IF c = d /\ j = i THEN 0 ELSE seen[c][j]
      /\ \A c \in Domains, j \in IPs : seen[c][j] \in Nat
    <2>1. seen \in [Domains -> [IPs -> Ages]] /\ 0 \in Ages /\ Ages \subseteq Nat
        BY <1>2 DEF CodeTypes, Ages, Gone
    <2>. QED  BY <1>1, <1>4, <2>1
<1>6. /\ t \in Calling /\ Calling' = Calling \ {t} /\ t \in Active /\ Active' \subseteq Active
    BY <1>1, <1>3 DEF Calling, Active
<1>7. Roots' \subseteq Roots \cup {Null}
    BY <1>1, <1>3 DEF Roots
<1>8. ASSUME e[t] = Dangling \/ Shared(t), corrupt' = TRUE, entry' = entry, verdict' = verdict
      PROVE  IInv'
    <2>1. CodeTypes'
        BY <1>1, <1>2, <1>5, <1>8 DEF CodeTypes, Pointers
    <2>2. clash'
        <3>. SUFFICES ASSUME ~clash' PROVE FALSE
            OBVIOUS
        <3>1. ~Clash /\ x # Dangling
            BY <1>2, Observed DEF NoDangling, Roots
        <3>2. PICK u \in Threads \ {t} : pc[u] = "add" /\ e[u] = e[t]
            BY <1>8, <3>1 DEF Shared
        <3>3. arg[u] = arg[t]
            BY <1>2, <1>4, <3>1, <3>2 DEF Calls, Call, Pointers
        <3>4. u \in Calling
            BY <3>2 DEF Calling
        <3>. QED  BY <1>6, <3>1, <3>2, <3>3, <3>4 DEF Clash
    <2>. QED  BY <1>6, <1>8, <2>1, <2>2, StepIInv
<1>9. ASSUME e[t] # Dangling, corrupt' = corrupt,
             verdict' = [domain |-> d, alarm |-> num_ips(g) > g_flux_ip_max],
             Assign([entry EXCEPT ![x].age = g])
      PROVE  IInv'
    <2>1. x \in Entries /\ entry[x].domain = d
        BY <1>4, <1>9 DEF Pointers
    <2>2. entry[x].age \in [IPs -> Ages]
        BY <1>2, <2>1, RecordFacts DEF CodeTypes
    <2>3. /\ g \in [IPs -> Ages]
          /\ \A j \in IPs : g[j] = IF j = i THEN 0 ELSE IF entry[x].age[j] < WINDOW THEN entry[x].age[j] ELSE Gone
        BY <2>2, PrunedFacts
    <2>4. \A p \in Roots' : Alive(entry, p)
        BY <1>2, <1>7 DEF Heap, Alive
    <2>. HIDE DEF g
    <2>5. /\ entry' \in [Entries -> Record] /\ Heap'
          /\ \A y \in Entries :
                \/ /\ entry'[y].domain = entry[y].domain /\ entry'[y].next = entry[y].next
                   /\ entry'[y].age = IF y = x THEN g ELSE entry[y].age
                \/ entry'[y] = Free
          /\ \A p \in Roots' \cap Entries : /\ entry'[p].domain = entry[p].domain
                                            /\ entry'[p].next = entry[p].next
          /\ \A c, p : First(c, p)' <=> First(c, p)
          /\ Listed' = Listed
          /\ \A y \in Listed : entry'[y].age = IF y = x THEN g ELSE entry[y].age
        BY <1>1, <1>2, <1>9, <2>1, <2>3, <2>4, AgesChange
    <2>6. \A y \in Entries, j \in IPs : entry[y].age[j] \in Nat /\ entry[y].domain \in Domains \cup {Null}
        <3>1. Ages \subseteq Nat
            BY DEF Ages, Gone
        <3>2. \A y \in Entries : entry[y].age \in [IPs -> Ages] /\ entry[y].domain \in Domains \cup {Null}
            BY <1>2, RecordFacts DEF CodeTypes
        <3>. QED  BY <3>1, <3>2
    <2>7. CodeTypes'
        <3>1. verdict' \in [domain : Domains \cup {Null}, alarm : BOOLEAN]
            BY <1>4, <1>9
        <3>. QED  BY <1>1, <1>2, <1>5, <1>9, <2>5, <3>1 DEF CodeTypes, Pointers
    <2>8. Walk'
        BY <1>1, <1>2, <2>5 DEF Walk, Roots
    <2>9. Recent'
        <3>. SUFFICES ASSUME NEW y \in Entries, NEW j \in IPs, entry'[y].domain # Null, entry'[y].age[j] < WINDOW
                      PROVE  seen'[entry'[y].domain][j] <= entry'[y].age[j]
            BY DEF Recent
        <3>1. /\ entry'[y].domain = entry[y].domain /\ entry[y].domain \in Domains
              /\ entry'[y].age = IF y = x THEN g ELSE entry[y].age
            BY <2>5, <2>6, FreeFacts
        <3>2. CASE y = x /\ j = i
            BY <1>4, <1>5, <2>1, <2>3, <3>1, <3>2
        <3>3. CASE ~(y = x /\ j = i)
            <4>1. entry'[y].age[j] = entry[y].age[j] /\ entry[y].age[j] < WINDOW
                BY <2>3, <3>1, <3>3 DEF Gone
            <4>2. seen[entry[y].domain][j] <= entry[y].age[j]
                BY <1>2, <3>1, <4>1 DEF Recent
            <4>3. seen'[entry[y].domain][j] <= seen[entry[y].domain][j]
                BY <1>5, <3>1
            <4>. QED  BY <1>5, <2>6, <3>1, <4>1, <4>2, <4>3
        <3>. QED  BY <3>2, <3>3
    <2>10. Calls'
        <3>1. ASSUME NEW u \in Threads PROVE Call(u)'
            <4>1. CASE u = t
                BY <1>3, <4>1 DEF Call
            <4>2. CASE u # t
                <5>1. e[u] \in Entries => entry'[e[u]].domain = entry[e[u]].domain
                    BY <1>3, <2>5, <4>2 DEF Roots
                <5>. QED  BY <1>2, <1>3, <4>2, <5>1 DEF Call, Calls
            <4>. QED  BY <4>1, <4>2
        <3>. QED  BY <3>1 DEF Calls
    <2>11. ~clash' => NoDangling'
        BY <1>2, <1>7, <2>5, Observed, FreeFacts DEF NoDangling
    <2>12. ~(walking' /\ Main \notin entangled')
        <3>. SUFFICES ASSUME walking' PROVE Main \in entangled'
            OBVIOUS
        <3>1. Main \in Active /\ Main \in Active' /\ Main # t
            BY <1>1 DEF Active
        <3>2. Main \in entangled
            BY <1>2, <1>6, <3>1 DEF Meetings
        <3>. QED  BY <3>1, <3>2 DEF Observe
    <2>13. ASSUME entangled = {}, NEW c \in Domains, NEW j \in IPs, seen[c][j] < quiet, ~(c = d /\ j = i)
           PROVE  \E p \in Entries : First(c, p) /\ entry'[p].age[j] = seen[c][j] /\ (p = x <=> c = d)
        <3>1. PICK p \in Entries : First(c, p) /\ entry[p].age[j] = seen[c][j]
            BY <1>2, <2>13 DEF Exact
        <3>2. First(d, x)
            BY <1>1, <1>2, <2>13 DEF Undisturbed
        <3>3. p = x <=> c = d
            BY <1>2, <2>1, <3>1, <3>2, FirstUnique DEF First, FirstIn
        <3>4. p \in Listed
            BY <3>1 DEF First, FirstIn, Listed
        <3>5. seen[c][j] < WINDOW
            BY <1>2, <1>5, <2>13
        <3>. QED  BY <2>3, <2>5, <2>13, <3>1, <3>3, <3>4, <3>5
    <2>14. ASSUME entangled = {}, quiet' = quiet PROVE Undisturbed' /\ Exact'
        <3>1. First(d, x)
            BY <1>1, <1>2, <2>14 DEF Undisturbed
        <3>2. x \in Listed
            BY <3>1 DEF First, FirstIn, Listed
        <3>3. ASSUME NEW c \in Domains, NEW j \in IPs, seen'[c][j] < quiet
              PROVE  \E p \in Entries : First(c, p)' /\ entry'[p].age[j] = seen'[c][j]
            <4>1. CASE c = d /\ j = i
                BY <1>5, <2>1, <2>3, <2>5, <3>1, <3>2, <4>1
            <4>2. CASE ~(c = d /\ j = i)
                <5>1. seen'[c][j] = seen[c][j]
                    BY <1>5, <4>2
                <5>. QED  BY <2>5, <2>13, <2>14, <3>3, <4>2, <5>1
            <4>. QED  BY <4>1, <4>2
        <3>4. Exact'
            BY <2>14, <3>3 DEF Exact
        <3>5. \A u \in Threads : pc'[u] = "out"
            <4>. SUFFICES ASSUME NEW u \in Threads, pc'[u] # "out" PROVE FALSE
                OBVIOUS
            <4>1. u # t /\ u \in Active
                BY <1>3 DEF Active, Calling
            <4>. QED  BY <1>2, <1>6, <2>14, <4>1 DEF Meetings
        <3>. QED  BY <3>4, <3>5 DEF Undisturbed
    <2>15. NoFalseAlarm' /\ HealsInAWindow'
        <3>. DEFINE S == {j \in IPs : g[j] # Gone}
                    T == {j \in IPs : seen'[d][j] < WINDOW}
        <3>1. S \subseteq T
            <4>. SUFFICES ASSUME NEW j \in IPs, g[j] # Gone PROVE seen'[d][j] < WINDOW
                OBVIOUS
            <4>1. CASE j = i
                BY <1>4, <1>5, <4>1
            <4>2. CASE j # i
                <5>1. entry[x].age[j] < WINDOW
                    BY <2>3, <4>2
                <5>2. seen[d][j] <= entry[x].age[j]
                    BY <1>2, <1>4, <2>1, <5>1 DEF Recent
                <5>. QED  BY <1>4, <1>5, <2>1, <2>6, <4>2, <5>1, <5>2
            <4>. QED  BY <4>1, <4>2
        <3>2. quiet' = WINDOW => T \subseteq S
            <4>. SUFFICES ASSUME quiet' = WINDOW, NEW j \in IPs, seen'[d][j] < WINDOW PROVE g[j] # Gone
                OBVIOUS
            <4>1. quiet = WINDOW /\ entangled = {}
                <5>1. quiet' = 0 \/ quiet' = quiet
                    BY DEF Observe
                <5>. QED  BY <1>2, <5>1 DEF Meetings
            <4>2. CASE j = i
                BY <2>3, <4>2 DEF Gone
            <4>3. CASE j # i
                <5>1. seen[d][j] < quiet /\ seen'[d][j] = seen[d][j]
                    BY <1>4, <1>5, <4>1, <4>3
                <5>2. First(d, x) /\ x \in Listed
                    BY <1>1, <1>2, <4>1 DEF Undisturbed, First, FirstIn, Listed
                <5>3. entry'[x].age[j] = seen[d][j]
                    BY <1>4, <2>13, <4>1, <4>3, <5>1
                <5>. QED  BY <1>4, <1>5, <2>5, <5>1, <5>2, <5>3 DEF Gone
            <4>. QED  BY <4>2, <4>3
        <3>3. num_ips(g) = Cardinality(S)
            BY DEF num_ips
        <3>4. verdict'.domain = d /\ verdict'.alarm = (Cardinality(S) > g_flux_ip_max)
            BY <1>9, <3>3
        <3>5. Distinct(verdict.domain)' = Cardinality(T)
            BY <3>4 DEF Distinct
        <3>6. /\ Cardinality(S) \in Nat /\ Cardinality(T) \in Nat /\ Cardinality(S) <= Cardinality(T)
              /\ quiet' = WINDOW => Cardinality(T) <= Cardinality(S)
            BY <3>1, <3>2, CountMonotone
        <3>. DEFINE n == Cardinality(S)
                    m == Distinct(verdict.domain)'
        <3>. HIDE DEF S, T
        <3>7. /\ n \in Nat /\ m \in Nat /\ n <= m /\ (quiet' = WINDOW => m <= n)
              /\ verdict'.alarm <=> n > g_flux_ip_max
            BY <3>4, <3>5, <3>6
        <3>. HIDE DEF n, m
        <3>8. (verdict'.alarm => m > g_flux_ip_max) /\ (quiet' = WINDOW => (verdict'.alarm <=> m > g_flux_ip_max))
            BY <3>7
        <3>. QED  BY <3>8 DEF NoFalseAlarm, HealsInAWindow, m
    <2>. QED  BY <1>6, <1>9, <2>5, <2>7, <2>8, <2>9, <2>10, <2>11, <2>12, <2>14, <2>15, StepIInv
<1>. QED  BY <1>8, <1>9 DEF flux_add_ip

\* While flux_cleanup runs and has met no call, there is none, and no other pointer.
LEMMA CleanupAlone ==
    ASSUME TypeOK, Meetings, Calls, walking, Main \notin entangled
    PROVE  \A t \in Threads : pc[t] = "out" /\ e[t] = Null
<1>. SUFFICES ASSUME NEW t \in Threads, pc[t] # "out" PROVE FALSE
    BY DEF Calls, Call
<1>1. t \in Active /\ Main \in Active /\ t # Main
    BY FluxAssumption DEF Active, Calling
<1>. QED  BY <1>1 DEF Meetings

\* flux_cleanup that met a call stays one that did.
LEMMA MainStays ==
    ASSUME Meetings, walking', Observe(FALSE), Main \notin entangled'
    PROVE  Main \notin entangled
BY DEF Meetings, Observe, Active

\* flux_cleanup begins at the head of the list.
LEMMA cleanup_beginIInv ==
    ASSUME IInv, ~corrupt, cleanup_begin, Observe(FALSE)
    PROVE  IInv'
<1>. USE ListAssumption, FluxAssumption
<1>. DEFINE nx == nexts(entry)
<1>1. /\ ~walking /\ walking' /\ walking' = TRUE /\ curr' = flux_table /\ prev' = Null /\ verdict' = NoVerdict
      /\ flux_table' = flux_table /\ entry' = entry /\ pc' = pc /\ arg' = arg /\ e' = e
      /\ since' = since /\ corrupt' = corrupt /\ seen' = seen
    BY DEF cleanup_begin, calls, results
<1>2. /\ CodeTypes /\ TypeOK /\ Heap /\ Walk /\ Calls /\ Recent /\ Meetings /\ Exact
      /\ ~clash => NoDangling
    BY BeforeStep
<1>3. Active \subseteq Active' /\ Calling' = Calling /\ Main \in Active'
    BY <1>1 DEF Active, Calling
<1>4. Roots' = Roots
    BY <1>1, <1>2 DEF Roots, Walk
<1>5. CodeTypes'
    BY <1>1, <1>2, NoAlarm DEF CodeTypes, Pointers
<1>6. Heap'
    BY <1>1, <1>2, <1>4, HeapGrows
<1>7. Walk' /\ Recent' /\ Calls'
    BY <1>1, <1>2 DEF Walk, Recent, Calls, Call
<1>8. ~clash' => NoDangling'
    BY <1>1, <1>2, <1>4, Observed DEF NoDangling
<1>9. ASSUME Main \notin entangled' PROVE Chain'
    <2>1. Calling = {}
        BY <1>1, <1>2, <1>3, <1>9, Observed
    <2>2. \A t \in Threads : e[t] = Null
        BY <1>2, <2>1 DEF Calling, Calls, Call
    <2>3. {flux_table} \subseteq Roots /\ Roots \cap Entries \subseteq {flux_table}
        BY <1>1, <1>2, <2>2 DEF Roots, Walk
    <2>4. Reached(nx, Roots) \subseteq Reached(nx, {flux_table})
        <3>1. /\ Reached(nx, {flux_table}) \in SUBSET Entries /\ Closed(nx, Reached(nx, {flux_table}))
              /\ Roots \cap Entries \subseteq Reached(nx, {flux_table})
            BY <2>3, ReachedFacts
        <3>. QED  BY <3>1, ReachedFacts
    <2>5. \A x \in Entries : entry[x].next \in Entries => x \in Reached(nx, {flux_table})
        BY <1>2, <2>4 DEF Heap
    <2>6. Acyclic(nx) /\ \A x \in Entries : nx[x] = entry[x].next
        BY <1>2, RecordFacts DEF Heap, CodeTypes
    <2>. HIDE DEF nx
    <2>7. ASSUME NEW x \in Entries, NEW y \in Entries, entry[x].next \in Entries
          PROVE  (entry[x].next = entry[y].next => x = y) /\ entry[x].next # flux_table
        <3>1. x \in Reached(nx, {flux_table}) /\ nx[x] \in Entries
            BY <2>5, <2>6, <2>7
        <3>2. nx[x] # flux_table
            BY <2>6, <3>1, OnePredecessor
        <3>3. ASSUME entry[x].next = entry[y].next PROVE x = y
            <4>1. y \in Reached(nx, {flux_table}) /\ nx[x] = nx[y]
                BY <2>5, <2>6, <2>7, <3>3
            <4>2. Acyclic(nx)
                BY <2>6
            <4>3. nx[x] = nx[y] => x = y
                BY ONLY <3>1, <4>1, <4>2, OnePredecessor, Zenon
            <4>. QED  BY <4>1, <4>3
        <3>. QED  BY <2>6, <3>2, <3>3
    <2>. QED  BY <1>1, <2>7 DEF Chain
<1>10. \A d, p : First(d, p)' <=> First(d, p)
    BY <1>1, SameList
<1>11. quiet' = quiet => Exact'
    BY <1>1, <1>2, <1>10 DEF Exact
<1>12. (\A a, b \in Active' : a = b) => Undisturbed'
    <2>. SUFFICES ASSUME \A a, b \in Active' : a = b PROVE Undisturbed'
        OBVIOUS
    <2>1. \A t \in Threads : pc'[t] = "out"
        BY <1>3 DEF Active, Calling
    <2>. QED  BY <2>1 DEF Undisturbed
<1>. QED  BY <1>1, <1>3, <1>5, <1>6, <1>7, <1>8, <1>9, <1>11, <1>12, NoAlarm, StepIInv

\* flux_cleanup keeps an entry.
LEMMA cleanup_keepIInv ==
    ASSUME IInv, ~corrupt, cleanup_keep, Observe(FALSE)
    PROVE  IInv'
<1>. USE ListAssumption, FluxAssumption
<1>. DEFINE x == curr
            g == Pruned(entry[x].age)
<1>1. /\ walking /\ x \in Entries /\ walking' = walking /\ prev' = x /\ curr' = entry[x].next
      /\ corrupt' \in {FALSE, Adding(x)} /\ verdict' = NoVerdict
      /\ flux_table' = flux_table /\ pc' = pc /\ arg' = arg /\ e' = e /\ since' = since /\ seen' = seen
    BY DEF cleanup_keep, calls
<1>2. /\ CodeTypes /\ TypeOK /\ Heap /\ Walk /\ Calls /\ Recent /\ Meetings /\ Exact
      /\ ~clash => ~Clash /\ NoDangling
      /\ walking /\ Main \notin entangled => Chain
      /\ quiet \in 0..WINDOW
    BY BeforeStep
<1>3. /\ entry[x].age \in [IPs -> Ages] /\ entry[x].next \in Pointers
      /\ g \in [IPs -> Ages]
      /\ \A j \in IPs : g[j] = IF entry[x].age[j] < WINDOW THEN entry[x].age[j] ELSE Gone
    BY <1>1, <1>2, RecordFacts, PrunedFacts DEF CodeTypes
<1>4. Assign([entry EXCEPT ![x].age = g])
    BY DEF cleanup_keep
<1>. HIDE DEF g
<1>5. \A p \in Roots' : p \in Roots \/ p = entry[x].next
    BY <1>1 DEF Roots
<1>6. \A p \in Roots' : Alive(entry, p)
    BY <1>1, <1>2, <1>5 DEF Heap
<1>7. /\ entry' \in [Entries -> Record] /\ Heap'
      /\ \A y \in Entries :
            \/ /\ entry'[y].domain = entry[y].domain /\ entry'[y].next = entry[y].next
               /\ entry'[y].age = IF y = x THEN g ELSE entry[y].age
            \/ entry'[y] = Free
      /\ \A p \in Roots' \cap Entries : /\ entry'[p].domain = entry[p].domain
                                        /\ entry'[p].next = entry[p].next
      /\ \A c, p : First(c, p)' <=> First(c, p)
      /\ Listed' = Listed
      /\ \A y \in Listed : entry'[y].age = IF y = x THEN g ELSE entry[y].age
    BY <1>1, <1>2, <1>3, <1>4, <1>6, AgesChange
<1>8. Active' = Active
    BY <1>1 DEF Active, Calling
<1>9. corrupt' \in BOOLEAN /\ (corrupt' => clash')
    <2>1. Adding(x) => Clash
        BY <1>1 DEF Adding, Clash, Calling
    <2>2. Adding(x) \in BOOLEAN
        BY DEF Adding
    <2>. QED  BY <1>1, <1>2, <2>1, <2>2, Observed
<1>10. CodeTypes'
    BY <1>1, <1>2, <1>3, <1>7, <1>9, NoAlarm DEF CodeTypes
<1>11. Walk'
    BY <1>1, <1>7 DEF Walk, Roots
<1>12. Recent'
    <2>. SUFFICES ASSUME NEW y \in Entries, NEW j \in IPs, entry'[y].domain # Null, entry'[y].age[j] < WINDOW
                  PROVE  seen'[entry'[y].domain][j] <= entry'[y].age[j]
        BY DEF Recent
    <2>1. /\ entry'[y].domain = entry[y].domain
          /\ entry'[y].age = IF y = x THEN g ELSE entry[y].age
        BY <1>7, FreeFacts
    <2>2. entry'[y].age[j] = entry[y].age[j] /\ entry[y].age[j] < WINDOW
        BY <1>3, <2>1 DEF Gone
    <2>. QED  BY <1>1, <1>2, <2>1, <2>2 DEF Recent
<1>13. Calls'
    <2>1. \A t \in Threads : e[t] \in Entries => entry'[e[t]].domain = entry[e[t]].domain
        BY <1>1, <1>7 DEF Roots
    <2>2. ASSUME NEW t \in Threads PROVE Call(t)'
        BY <1>1, <1>2, <2>1 DEF Calls, Call
    <2>. QED  BY <2>2 DEF Calls
<1>14. ~clash' => NoDangling'
    BY <1>1, <1>2, <1>5, <1>7, Observed, FreeFacts DEF NoDangling
<1>15. ASSUME Main \notin entangled' PROVE Chain'
    <2>1. Main \notin entangled
        BY <1>1, <1>2, <1>15, MainStays
    <2>2. Chain
        BY <1>1, <1>2, <2>1
    <2>3. \A y \in Entries : entry'[y].next = entry[y].next \/ entry'[y].next = Null
        BY <1>7, FreeFacts
    <2>4. \A y, z \in Entries : entry'[y].next \in Entries /\ entry'[y].next = entry'[z].next => y = z
        BY <2>2, <2>3 DEF Chain
    <2>5. \A y \in Entries : entry'[y].next = flux_table => flux_table \notin Entries
        BY <2>2, <2>3 DEF Chain
    <2>. QED  BY <1>1, <2>4, <2>5 DEF Chain
<1>16. ASSUME entangled = {}, quiet' = quiet PROVE Undisturbed' /\ Exact'
    <2>1. \A t \in Threads : pc'[t] = "out"
        BY <1>1, <1>2, <1>16, CleanupAlone
    <2>2. ASSUME NEW c \in Domains, NEW j \in IPs, seen[c][j] < quiet
          PROVE  \E p \in Entries : First(c, p)' /\ entry'[p].age[j] = seen[c][j]
        <3>1. PICK p \in Entries : First(c, p) /\ entry[p].age[j] = seen[c][j]
            BY <1>2, <2>2 DEF Exact
        <3>2. p \in Listed
            BY <3>1 DEF First, FirstIn, Listed
        <3>3. seen[c][j] < WINDOW
            <4>1. seen[c][j] \in Nat
                BY <1>2 DEF CodeTypes, Ages, Gone
            <4>. QED  BY <1>2, <2>2, <4>1
        <3>. QED  BY <1>3, <1>7, <3>1, <3>2, <3>3
    <2>3. Exact'
        BY <1>1, <1>16, <2>2 DEF Exact
    <2>. QED  BY <2>1, <2>3 DEF Undisturbed
<1>. QED  BY <1>1, <1>7, <1>8, <1>9, <1>10, <1>11, <1>12, <1>13, <1>14, <1>15, <1>16, NoAlarm, StepIInv

\* flux_cleanup is at the end of the list.
LEMMA cleanup_endIInv ==
    ASSUME IInv, ~corrupt, cleanup_end, Observe(FALSE)
    PROVE  IInv'
<1>. USE ListAssumption, FluxAssumption
<1>1. /\ walking /\ walking' = FALSE /\ curr' = Null /\ prev' = Null /\ since' = 0 /\ verdict' = NoVerdict
      /\ flux_table' = flux_table /\ pc' = pc /\ arg' = arg /\ e' = e /\ corrupt' = corrupt /\ seen' = seen
      /\ Assign(entry)
    BY DEF cleanup_end, calls, results
<1>2. /\ CodeTypes /\ TypeOK /\ Heap /\ Walk /\ Calls /\ Recent /\ Meetings /\ Exact
      /\ ~clash => NoDangling
    BY BeforeStep
<1>3. Roots' \subseteq Roots \cup {Null}
    BY <1>1 DEF Roots
<1>4. /\ entry \in [Entries -> Record] /\ Acyclic(nexts(entry))
      /\ \A p \in Roots' : Alive(entry, p)
      /\ \A y \in Entries : Alive(entry, entry[y].next)
    BY <1>2, <1>3 DEF Heap, CodeTypes, Alive
<1>5. /\ entry' \in [Entries -> Record] /\ Heap'
      /\ \A y \in Entries : entry'[y] = entry[y] \/ entry'[y] = Free
      /\ \A p \in Roots' \cap Entries : entry'[p] = entry[p]
      /\ \A d, p : First(d, p)' <=> FirstIn(entry, flux_table', d, p)
      /\ Listed' = Reached(nexts(entry), {flux_table'})
      /\ \A y \in Listed' : entry'[y] = entry[y]
    BY <1>1, <1>4, AssignFacts
<1>6. Active' \subseteq Active
    BY <1>1 DEF Active, Calling
<1>7. CodeTypes'
    <2>1. 0 \in 0..(PERIOD + 1) /\ FALSE \in BOOLEAN
        OBVIOUS
    <2>. QED  BY <1>1, <1>2, <1>5, <2>1, NoAlarm DEF CodeTypes, Pointers
<1>8. Walk'
    BY <1>1 DEF Walk
<1>9. Recent'
    BY <1>1, <1>2, <1>5, FreeFacts DEF Recent
<1>10. Calls'
    <2>1. \A u \in Threads : e'[u] \in Entries => entry'[e'[u]] = entry[e'[u]]
        BY <1>5 DEF Roots
    <2>2. ASSUME NEW u \in Threads PROVE Call(u)'
        BY <1>1, <1>2, <2>1 DEF Call, Calls
    <2>. QED  BY <2>2 DEF Calls
<1>11. ~clash' => NoDangling'
    BY <1>2, <1>3, <1>5, Observed, FreeFacts DEF NoDangling
<1>12. ASSUME entangled = {}, quiet' = quiet PROVE Undisturbed' /\ Exact'
    <2>1. \A t \in Threads : pc'[t] = "out"
        BY <1>1, <1>2, <1>12, CleanupAlone
    <2>2. \A d, p : First(d, p) => First(d, p)' /\ entry'[p] = entry[p]
        BY <1>1, <1>5 DEF First, FirstIn
    <2>3. Exact'
        BY <1>1, <1>2, <1>12, <2>2 DEF Exact
    <2>. QED  BY <2>1, <2>3 DEF Undisturbed
<1>. QED  BY <1>1, <1>5, <1>6, <1>7, <1>8, <1>9, <1>10, <1>11, <1>12, NoAlarm, StepIInv

\* flux_cleanup runs into a freed entry.
LEMMA cleanup_danglingIInv ==
    ASSUME IInv, ~corrupt, cleanup_dangling, Observe(FALSE)
    PROVE  IInv'
<1>1. /\ curr = Dangling /\ corrupt' = TRUE /\ verdict' = NoVerdict
      /\ flux_table' = flux_table /\ entry' = entry /\ pc' = pc /\ arg' = arg /\ e' = e /\ seen' = seen
      /\ walking' = walking /\ curr' = curr /\ prev' = prev /\ since' = since
    BY DEF cleanup_dangling, calls, walk
<1>2. CodeTypes /\ TypeOK /\ Meetings /\ (~clash => NoDangling)
    BY BeforeStep
<1>3. Active' = Active
    BY <1>1 DEF Active, Calling
<1>4. CodeTypes'
    BY <1>1, <1>2, NoAlarm DEF CodeTypes
<1>5. clash'
    BY <1>1, <1>2, Observed DEF NoDangling, Roots
<1>. QED  BY <1>1, <1>3, <1>4, <1>5, StepIInv

\* An entry with an address that still counts survives.
LEMMA SurvivesFacts ==
    ASSUME CodeTypes, NEW x \in Entries, NEW j \in IPs, entry[x].age[j] < WINDOW
    PROVE  Survives(x)
<1>. DEFINE g == Pruned(entry[x].age)
            S == {i \in IPs : g[i] # Gone}
<1>1. entry[x].age \in [IPs -> Ages] /\ g[j] = entry[x].age[j]
    BY RecordFacts, PrunedFacts DEF CodeTypes
<1>2. g[j] # Gone
    BY <1>1, FluxAssumption DEF Gone, Ages
<1>3. j \in S /\ IsFiniteSet(S)
    BY <1>2, FluxAssumption, FS_Subset
<1>4. Cardinality(S) \in Nat /\ Cardinality(S) # 0
    BY <1>3, FS_CardinalityType, FS_EmptySet
<1>. QED  BY <1>4 DEF Survives, num_ips

\* flux_cleanup that met no call knows the one pointer to the entry where it is.
LEMMA ChainFacts ==
    ASSUME Chain, Walk, CodeTypes, walking, curr \in Entries
    PROVE  /\ \A y \in Entries : entry[y].next = curr => y = prev
           /\ prev = Null => flux_table = curr
           /\ prev # Null => prev \in Entries /\ entry[prev].next = curr /\ flux_table # curr
<1>1. prev # Null => prev \in Entries /\ entry[prev].next = curr
    BY DEF CodeTypes, Walk
<1>2. prev = Null => flux_table = curr
    BY DEF Chain
<1>3. prev # Null => flux_table # curr
    BY <1>1 DEF Chain
<1>4. ASSUME NEW y \in Entries, entry[y].next = curr PROVE y = prev
    <2>1. CASE prev = Null
        BY <1>2, <1>4, <2>1 DEF Chain
    <2>2. CASE prev # Null
        BY <1>1, <1>4, <2>2 DEF Chain
    <2>. QED  BY <2>1, <2>2
<1>. QED  BY <1>1, <1>2, <1>3, <1>4

\* flux_cleanup unlinks an entry and frees it.
LEMMA cleanup_freeIInv ==
    ASSUME IInv, ~corrupt, cleanup_free, Observe(FALSE)
    PROVE  IInv'
<1>. USE ListAssumption, FluxAssumption
<1>. DEFINE x    == curr
            n    == entry[x].next
            nx   == nexts(entry)
            ents == [y \in Entries |-> IF y = prev THEN [entry[y] EXCEPT !.next = n]
                                                   ELSE [entry[y] EXCEPT !.next = Without(x, @)]]
            ny   == nexts(ents)
<1>1. /\ walking /\ x \in Entries /\ ~Survives(x) /\ walking' = walking /\ prev' = prev /\ curr' = n
      /\ flux_table' = NewHead /\ e' = [t \in Threads |-> Without(x, e[t])]
      /\ corrupt' \in {FALSE, Adding(x)} /\ verdict' = NoVerdict
      /\ pc' = pc /\ arg' = arg /\ since' = since /\ seen' = seen
      /\ Assign(ents)
    BY DEF cleanup_free
<1>2. /\ CodeTypes /\ TypeOK /\ Heap /\ Walk /\ Calls /\ Recent /\ Meetings /\ Exact
      /\ ~clash => ~Clash /\ NoDangling
      /\ walking /\ Main \notin entangled => Chain
      /\ quiet \in 0..WINDOW
    BY BeforeStep
<1>3. /\ entry \in [Entries -> Record] /\ n \in Pointers
      /\ \A y \in Entries : nx[y] = entry[y].next /\ entry[y].next \in Pointers
      /\ \A y \in Entries : Alive(entry, entry[y].next)
      /\ Acyclic(nx)
    BY <1>1, <1>2, RecordFacts DEF CodeTypes, Heap
<1>4. prev \in Entries => entry[prev].next = x
    BY <1>1, <1>2 DEF Walk
<1>5. n # x
    <2>1. {x} \in SUBSET Entries /\ {x} # {}
        BY <1>1
    <2>. QED  BY <1>1, <1>3, <2>1 DEF Acyclic
<1>6. \A y \in Entries :
          /\ ents[y] \in Record
          /\ ents[y].domain = entry[y].domain /\ ents[y].age = entry[y].age
          /\ ents[y].next = IF y = prev THEN n ELSE Without(x, entry[y].next)
    BY <1>3 DEF Record, Without, Pointers
<1>7. ents \in [Entries -> Record]
    BY <1>6
<1>. HIDE DEF ents, nx, ny, n
<1>8. \A y \in Entries : /\ ny[y] = ents[y].next
                         /\ ny[y] = IF y = prev THEN n ELSE IF nx[y] = x THEN Dangling ELSE nx[y]
    BY <1>3, <1>6, <1>7, RecordFacts DEF ny, Without
<1>9. Acyclic(ny)
    <2>. SUFFICES ASSUME NEW D \in SUBSET Entries, D # {} PROVE \E y \in D : ny[y] \notin D
        BY DEF Acyclic
    <2>1. CASE prev \in D
        <3>1. D \cup {x} \in SUBSET Entries /\ D \cup {x} # {}
            BY <1>1
        <3>2. PICK y \in D \cup {x} : nx[y] \notin D \cup {x}
            BY <1>3, <3>1 DEF Acyclic
        <3>3. CASE y \in D
            BY <1>3, <1>4, <1>8, <2>1, <3>2, <3>3
        <3>4. CASE y = x
            BY <1>1, <1>3, <1>8, <2>1, <3>2, <3>4 DEF n
        <3>. QED  BY <3>3, <3>4
    <2>2. CASE prev \notin D
        <3>1. PICK y \in D : nx[y] \notin D
            BY <1>3 DEF Acyclic
        <3>. QED  BY <1>8, <2>2, <3>1
    <2>. QED  BY <2>1, <2>2
<1>10. \A p \in Roots' : p \in Roots \cup {n, Dangling} /\ p # x
    <2>1. prev # x
        BY <1>1, <1>4, <1>5 DEF n
    <2>2. flux_table' \in {n, Dangling, flux_table} /\ flux_table' # x
        BY <1>1, <1>5 DEF NewHead, Without, n
    <2>3. \A t \in Threads : e'[t] \in {Dangling, e[t]} /\ e'[t] # x
        BY <1>1 DEF Without
    <2>. QED  BY <1>1, <1>5, <2>1, <2>2, <2>3 DEF Roots
<1>11. Alive(entry, n) /\ Alive(entry, Dangling)
    BY <1>1, <1>3 DEF Alive, n
<1>12. /\ \A p \in Roots' : Alive(ents, p)
       /\ \A y \in Entries : Alive(ents, ents[y].next)
    <2>1. \A p \in Roots' : Alive(entry, p)
        BY <1>2, <1>10, <1>11 DEF Heap
    <2>2. \A y \in Entries : Alive(entry, ents[y].next)
        BY <1>3, <1>6, <1>11 DEF Without
    <2>. QED  BY <1>6, <2>1, <2>2 DEF Alive
<1>13. /\ entry' \in [Entries -> Record] /\ Heap'
       /\ \A y \in Entries : entry'[y] = ents[y] \/ entry'[y] = Free
       /\ \A p \in Roots' \cap Entries : entry'[p] = ents[p]
       /\ \A d, p : First(d, p)' <=> FirstIn(ents, flux_table', d, p)
       /\ Listed' = Reached(ny, {flux_table'})
       /\ \A y \in Listed' : entry'[y] = ents[y]
    BY <1>1, <1>7, <1>9, <1>12, AssignFacts DEF ny
<1>14. corrupt' \in BOOLEAN /\ (corrupt' => clash')
    <2>1. Adding(x) => Clash
        BY <1>1 DEF Adding, Clash, Calling
    <2>2. Adding(x) \in BOOLEAN
        BY DEF Adding
    <2>. QED  BY <1>1, <1>2, <2>1, <2>2, Observed
<1>15. CodeTypes'
    <2>1. e' \in [Threads -> Pointers] /\ flux_table' \in Pointers /\ curr' \in Pointers
        BY <1>1, <1>2, <1>3 DEF CodeTypes, Without, Pointers, NewHead, n
    <2>. QED  BY <1>1, <1>2, <1>13, <1>14, <2>1, NoAlarm DEF CodeTypes
<1>16. Walk'
    BY <1>1, <1>6, <1>13 DEF Walk, Roots
<1>17. Recent'
    BY <1>1, <1>2, <1>6, <1>13, FreeFacts DEF Recent
<1>18. Calls'
    <2>1. ASSUME NEW t \in Threads PROVE Call(t)'
        <3>1. e'[t] = (IF e[t] = x THEN Dangling ELSE e[t]) /\ x # Null
            BY <1>1 DEF Without
        <3>2. e'[t] \in Entries => entry'[e'[t]].domain = entry[e[t]].domain /\ e'[t] = e[t]
            BY <1>6, <1>13, <3>1 DEF Roots
        <3>. QED  BY <1>1, <1>2, <3>1, <3>2 DEF Calls, Call
    <2>. QED  BY <2>1 DEF Calls
<1>19. Active' = Active
    BY <1>1 DEF Active, Calling
<1>20. ASSUME Main \notin entangled
       PROVE  /\ Chain /\ \A t \in Threads : pc[t] = "out" /\ e'[t] = Null
              /\ \A y \in Entries : nx[y] = x => y = prev
              /\ prev = Null => flux_table = x /\ flux_table' = n
              /\ prev # Null => prev \in Entries /\ nx[prev] = x /\ flux_table # x /\ flux_table' = flux_table
              /\ \A y \in Entries : ny[y] = IF nx[y] = x THEN n ELSE nx[y]
    <2>1. Chain
        BY <1>1, <1>2, <1>20
    <2>2. \A t \in Threads : pc[t] = "out" /\ e[t] = Null
        BY <1>1, <1>2, <1>20, CleanupAlone
    <2>3. \A t \in Threads : e'[t] = Null
        BY <1>1, <2>2 DEF Without
    <2>4. /\ \A y \in Entries : entry[y].next = x => y = prev
          /\ prev = Null => flux_table = x
          /\ prev # Null => prev \in Entries /\ entry[prev].next = x /\ flux_table # x
        BY <1>1, <1>2, <2>1, ChainFacts
    <2>5. flux_table' = IF prev = Null THEN n ELSE flux_table
        BY <1>1, <2>4 DEF NewHead, Without, n
    <2>. QED  BY <1>3, <1>8, <2>1, <2>2, <2>3, <2>4, <2>5
<1>21. ~clash' => NoDangling'
    <2>. SUFFICES ASSUME ~clash' PROVE NoDangling'
        OBVIOUS
    <2>1. ~clash /\ NoDangling /\ Main \notin entangled
        BY <1>2, Observed DEF Meetings
    <2>2. n # Dangling /\ flux_table # Dangling /\ prev # Dangling
        BY <1>1, <2>1 DEF NoDangling, Roots, n
    <2>3. flux_table' # Dangling /\ \A t \in Threads : e'[t] # Dangling
        BY <1>20, <2>1, <2>2
    <2>4. Dangling \notin Roots'
        BY <1>1, <2>2, <2>3 DEF Roots
    <2>5. \A y \in Entries : ents[y].next # Dangling
        BY <1>3, <1>8, <1>20, <2>1, <2>2 DEF NoDangling
    <2>. QED  BY <1>13, <2>4, <2>5, FreeFacts DEF NoDangling
<1>22. ASSUME Main \notin entangled' PROVE Chain'
    <2>1. Main \notin entangled
        BY <1>1, <1>2, <1>22, MainStays
    <2>2. \A y \in Entries : entry'[y].next = ny[y] \/ entry'[y].next = Null
        BY <1>8, <1>13, FreeFacts
    <2>3. entry'[x].next = Null
        <3>. DEFINE C == Entries \ {x}
        <3>1. C \in SUBSET Entries /\ Roots' \cap Entries \subseteq C
            BY <1>10
        <3>2. \A y \in Entries : entry'[y].next # x /\ nexts(entry)'[y] = entry'[y].next
            BY <1>1, <1>5, <1>8, <1>13, <2>2, RecordFacts DEF nexts
        <3>3. Closed(nexts(entry)', C)
            BY <3>2 DEF Closed
        <3>4. x \notin Reached(nexts(entry)', Roots')
            BY <3>1, <3>3, ReachedFacts
        <3>. QED  BY <1>1, <1>13, <3>4 DEF Heap
    <2>4. ASSUME NEW y \in Entries, entry'[y].next \in Entries
          PROVE  y # x /\ entry'[y].next = IF nx[y] = x THEN n ELSE nx[y]
        BY <1>20, <2>1, <2>2, <2>3, <2>4
    <2>5. /\ \A y, z \in Entries : nx[y] \in Entries /\ nx[y] = nx[z] => y = z
          /\ \A y \in Entries : nx[y] = flux_table => flux_table \notin Entries
        BY <1>3, <1>20, <2>1 DEF Chain
    <2>6. nx[x] = n
        BY <1>1, <1>3 DEF n
    <2>7. ASSUME NEW y \in Entries, NEW z \in Entries, entry'[y].next \in Entries, entry'[y].next = entry'[z].next
          PROVE  y = z
        <3>1. /\ y # x /\ entry'[y].next = IF nx[y] = x THEN n ELSE nx[y]
              /\ z # x /\ entry'[z].next = IF nx[z] = x THEN n ELSE nx[z]
            BY <2>4, <2>7
        <3>. QED  BY <1>1, <2>5, <2>6, <2>7, <3>1
    <2>8. ASSUME NEW y \in Entries, flux_table' \in Entries, entry'[y].next = flux_table'
          PROVE  FALSE
        <3>1. y # x /\ entry'[y].next = IF nx[y] = x THEN n ELSE nx[y]
            BY <2>4, <2>8
        <3>2. CASE prev = Null
            BY <1>1, <1>20, <2>1, <2>5, <2>6, <2>8, <3>1, <3>2
        <3>3. CASE prev # Null
            BY <1>1, <1>20, <2>1, <2>5, <2>6, <2>8, <3>1, <3>3
        <3>. QED  BY <3>2, <3>3
    <2>9. prev' = Null => curr' = flux_table'
        BY <1>1, <1>20, <2>1
    <2>. QED  BY <2>7, <2>8, <2>9 DEF Chain
<1>23. ASSUME entangled = {}, quiet' = quiet PROVE Undisturbed' /\ Exact'
    <2>1. Main \notin entangled
        BY <1>23
    <2>2. \A t \in Threads : pc'[t] = "out"
        BY <1>1, <1>20, <2>1
    <2>3. nx[x] = n /\ \A y \in Entries : ny[y] = IF nx[y] = x THEN nx[x] ELSE nx[y]
        BY <1>1, <1>3, <1>20, <2>1 DEF n
    <2>4. ASSUME NEW a, a # x PROVE Reached(ny, {a}) = Reached(nx, {a}) \ {x}
        <3>1. Bypassed(nx, ny, x)
            BY <1>5, <2>3 DEF Bypassed
        <3>. QED  BY <1>1, <2>4, <3>1, Unlink
    <2>5. Reached(ny, {flux_table'}) = Listed \ {x}
        <3>1. Listed = Reached(nx, {flux_table})
            BY DEF Listed, nx
        <3>2. CASE prev = Null
            <4>1. Reached(nx, {x}) = {x} \cup Reached(nx, {n})
                BY <1>1, <2>3, TailStep
            <4>. QED  BY <1>5, <1>20, <2>1, <2>4, <3>1, <3>2, <4>1
        <3>3. CASE prev # Null
            BY <1>20, <2>1, <2>4, <3>1, <3>3
        <3>. QED  BY <3>2, <3>3
    <2>6. ASSUME NEW c \in Domains, NEW j \in IPs, seen[c][j] < quiet
          PROVE  \E p \in Entries : First(c, p)' /\ entry'[p].age[j] = seen[c][j]
        <3>1. PICK p \in Entries : First(c, p) /\ entry[p].age[j] = seen[c][j]
            BY <1>2, <2>6 DEF Exact
        <3>2. seen[c][j] < WINDOW
            <4>1. seen[c][j] \in Nat
                BY <1>2 DEF CodeTypes, Ages, Gone
            <4>. QED  BY <1>2, <2>6, <4>1
        <3>3. p # x
            BY <1>1, <1>2, <3>1, <3>2, SurvivesFacts
        <3>4. /\ p \in Listed /\ entry[p].domain = c
              /\ \A w \in Listed : entry[w].domain = c => w \in Reached(nx, {p})
            BY <3>1 DEF First, FirstIn, Listed, nx
        <3>5. Listed \subseteq Entries
            BY ReachedFacts DEF Listed
        <3>6. Reached(ny, {p}) = Reached(nx, {p}) \ {x}
            BY <2>4, <3>3
        <3>7. /\ p \in Reached(ny, {flux_table'}) /\ ents[p].domain = c
              /\ \A w \in Reached(ny, {flux_table'}) : ents[w].domain = c => w \in Reached(ny, {p})
            BY <1>6, <2>5, <3>3, <3>4, <3>5, <3>6
        <3>8. FirstIn(ents, flux_table', c, p)
            BY <3>7 DEF FirstIn, ny
        <3>. QED  BY <1>6, <1>13, <3>1, <3>7, <3>8
    <2>7. Exact'
        BY <1>1, <1>23, <2>6 DEF Exact
    <2>. QED  BY <2>2, <2>7 DEF Undisturbed
<1>. QED  BY <1>1, <1>13, <1>14, <1>15, <1>16, <1>17, <1>18, <1>19, <1>21, <1>22, <1>23, NoAlarm, StepIInv

\* One second passes.
LEMMA TickIInv ==
    ASSUME IInv, ~corrupt, Tick, Observe(TRUE)
    PROVE  IInv'
<1>. USE ListAssumption, FluxAssumption
<1>1. /\ ~walking /\ walking' = walking /\ curr' = curr /\ prev' = prev /\ verdict' = NoVerdict
      /\ since' = (IF since <= PERIOD THEN since + 1 ELSE since)
      /\ seen' = [d \in Domains |-> [i \in IPs |-> Older(seen[d][i])]]
      /\ flux_table' = flux_table /\ pc' = pc /\ arg' = arg /\ e' = e /\ corrupt' = corrupt
      /\ entry' = [x \in Entries |-> [entry[x] EXCEPT !.age = [i \in IPs |-> Older(@[i])]]]
    BY DEF Tick, calls
<1>2. /\ CodeTypes /\ TypeOK /\ Heap /\ Walk /\ Calls /\ Recent /\ Meetings /\ Undisturbed /\ Exact
      /\ ~clash => NoDangling
      /\ quiet \in 0..WINDOW
    BY BeforeStep
<1>3. \A a \in Ages : Older(a) \in Ages /\ Older(a) = IF a < WINDOW THEN a + 1 ELSE a
    BY DEF Ages, Gone, Older
<1>4. Ages \subseteq Nat
    BY DEF Ages, Gone
<1>5. /\ seen' \in [Domains -> [IPs -> Ages]]
      /\ \A d \in Domains, i \in IPs : seen[d][i] \in Ages /\ seen'[d][i] = Older(seen[d][i])
    BY <1>1, <1>2, <1>3 DEF CodeTypes
<1>6. /\ entry \in [Entries -> Record]
      /\ \A x \in Entries : entry[x].age \in [IPs -> Ages]
    BY <1>2, RecordFacts DEF CodeTypes
<1>7. \A x \in Entries :
          /\ entry'[x] \in Record
          /\ entry'[x].domain = entry[x].domain /\ entry'[x].next = entry[x].next
          /\ \A i \in IPs : entry'[x].age[i] = Older(entry[x].age[i])
    BY <1>1, <1>3, <1>6 DEF Record
<1>8. entry' \in [Entries -> Record]
    BY <1>1, <1>7
<1>9. CodeTypes'
    <2>1. since' \in 0..(PERIOD + 1)
        BY <1>1, <1>2 DEF CodeTypes
    <2>. QED  BY <1>1, <1>2, <1>5, <1>8, <2>1, NoAlarm DEF CodeTypes
<1>10. Active' = Active /\ Calling' = Calling /\ Roots' = Roots
    BY <1>1 DEF Active, Calling, Roots
<1>11. /\ entangled' \subseteq Threads \cup {Main} /\ quiet' \in 0..WINDOW /\ clash' \in BOOLEAN
       /\ Meetings' /\ (~clash' => ~clash /\ ~Clash')
    BY <1>2, Observed
<1>12. TypeOK'
    BY <1>9, <1>11 DEF CodeTypes, TypeOK, Record
<1>13. entangled' = entangled
    <2>1. IsFiniteSet(Active')
        <3>1. IsFiniteSet(Threads \cup {Main})
            BY FS_AddElement
        <3>2. Active' \subseteq Threads \cup {Main}
            BY DEF Active, Calling
        <3>. QED  BY <3>1, <3>2, FS_Subset
    <2>2. Cardinality(Active') > 1 <=> \E a, b \in Active' : a # b
        BY <2>1, TwoOrMore
    <2>. QED  BY <1>2, <1>10, <2>2 DEF Observe, Meetings
<1>14. nexts(entry') = nexts(entry)
    BY <1>7 DEF nexts
<1>15. Heap'
    <2>1. nexts(entry)' = nexts(entry)
        BY <1>14 DEF nexts
    <2>. QED  BY <1>2, <1>7, <1>10, <2>1 DEF Heap, Acyclic, Alive
<1>16. Walk'
    BY <1>1, <1>2 DEF Walk
<1>17. Calls'
    <2>1. ASSUME NEW t \in Threads PROVE Call(t)'
        BY <1>1, <1>2, <1>7 DEF Calls, Call
    <2>. QED  BY <2>1 DEF Calls
<1>18. Recent'
    <2>. SUFFICES ASSUME NEW x \in Entries, NEW i \in IPs, entry'[x].domain # Null, entry'[x].age[i] < WINDOW
                  PROVE  seen'[entry'[x].domain][i] <= entry'[x].age[i]
        BY DEF Recent
    <2>. DEFINE a == entry[x].age[i]
                s == seen[entry[x].domain][i]
    <2>1. entry[x].domain \in Domains /\ a \in Ages /\ s \in Ages
        <3>1. entry[x].domain \in Domains \cup {Null} /\ entry[x].domain # Null
            BY <1>6, <1>7, RecordFacts
        <3>2. a \in Ages
            BY <1>6
        <3>. QED  BY <1>5, <3>1, <3>2
    <2>2. entry'[x].age[i] = Older(a) /\ seen'[entry'[x].domain][i] = Older(s)
        BY <1>5, <1>7, <2>1
    <2>3. a < WINDOW
        BY <1>3, <1>4, <2>1, <2>2
    <2>4. s <= a
        BY <1>2, <1>7, <2>3 DEF Recent
    <2>. HIDE DEF a, s
    <2>. QED  BY <1>3, <1>4, <2>1, <2>2, <2>3, <2>4
<1>19. Sound'
    <2>1. ~clash' => NoDangling'
        BY <1>2, <1>7, <1>10, <1>11 DEF NoDangling
    <2>. QED  BY <1>11, <2>1 DEF Sound, NoDangling
<1>20. /\ Listed' = Listed
       /\ \A d, p : First(d, p)' <=> First(d, p)
    <2>1. Listed \subseteq Entries
        BY ReachedFacts DEF Listed
    <2>2. \A y \in Reached(nexts(entry), {flux_table}) :
              entry'[y].next = entry[y].next /\ entry'[y].domain = entry[y].domain
        BY <1>7, <2>1 DEF Listed
    <2>3. /\ Reached(nexts(entry'), {flux_table}) = Reached(nexts(entry), {flux_table})
          /\ \A d, p : FirstIn(entry', flux_table, d, p) <=> FirstIn(entry, flux_table, d, p)
        BY <1>6, <1>8, <2>2, SameFirst
    <2>. QED  BY <1>1, <2>3 DEF Listed, First, FirstIn, nexts
<1>21. Undisturbed'
    <2>. SUFFICES ASSUME entangled' = {}, NEW t \in Threads
                  PROVE  /\ pc'[t] = "add" => First(arg[t], e[t])'
                         /\ pc'[t] = "link" => /\ e'[t] \in Entries /\ entry'[e'[t]].next = flux_table'
                                               /\ e'[t] \notin Listed'
                         /\ pc'[t] \in {"make", "link"} => \A w \in Listed' : entry'[w].domain # arg'[t]
        BY DEF Undisturbed
    <2>1. Listed \subseteq Entries
        BY ReachedFacts DEF Listed
    <2>2. /\ pc[t] = "add" => First(arg[t], e[t])
          /\ pc[t] = "link" => /\ e[t] \in Entries /\ entry[e[t]].next = flux_table
                               /\ e[t] \notin Listed
          /\ pc[t] \in {"make", "link"} => \A w \in Listed : entry[w].domain # arg[t]
        BY <1>2, <1>13 DEF Undisturbed
    <2>. QED  BY <1>1, <1>7, <1>20, <2>1, <2>2
<1>22. Exact'
    <2>. SUFFICES ASSUME NEW d \in Domains, NEW i \in IPs, seen'[d][i] < quiet'
                  PROVE  \E p \in Entries : First(d, p)' /\ entry'[p].age[i] = seen'[d][i]
        BY DEF Exact
    <2>. DEFINE s == seen[d][i]
    <2>1. s \in Ages /\ seen'[d][i] = Older(s)
        BY <1>5
    <2>2. quiet' <= quiet + 1
        BY <1>2, <1>11 DEF Observe
    <2>3. s < quiet
        <3>. HIDE DEF s
        <3>. QED  BY <1>2, <1>3, <1>4, <1>11, <2>1, <2>2
    <2>4. PICK p \in Entries : First(d, p) /\ entry[p].age[i] = s
        BY <1>2, <2>3 DEF Exact
    <2>. QED  BY <1>7, <1>20, <2>1, <2>4
<1>23. ~walking'
    BY <1>1
<1>. QED  BY <1>1, <1>11, <1>12, <1>15, <1>16, <1>17, <1>18, <1>19, <1>21, <1>22, <1>23, NoAlarm
          DEF IInv, Inner, Calls

-----------------------------------------------------------------------------
\* Nothing is known at the start.
LEMMA InitIInv == Init => IInv
<1>. SUFFICES ASSUME Init PROVE IInv
    OBVIOUS
<1>. USE ListAssumption, FluxAssumption
<1>1. /\ flux_table = Null /\ curr = Null /\ prev = Null /\ walking = FALSE /\ since = 0
      /\ entry = [x \in Entries |-> Free] /\ pc = [t \in Threads |-> "out"]
      /\ arg = [t \in Threads |-> Null] /\ e = [t \in Threads |-> Null]
      /\ verdict = NoVerdict /\ corrupt = FALSE /\ clash = FALSE
      /\ seen = [d \in Domains |-> NoIPs] /\ entangled = {} /\ quiet = WINDOW
    BY DEF Init
<1>2. NoIPs \in [IPs -> Ages] /\ \A i \in IPs : NoIPs[i] = Gone
    BY DEF NoIPs, Ages, Gone
<1>3. /\ \A d \in Domains, i \in IPs : seen[d][i] = Gone
      /\ \A x \in Entries : entry[x] = Free
    BY <1>1, <1>2
<1>4. TypeOK
    <2>1. entry \in [Entries -> Record]
        BY <1>1, FreeFacts
    <2>2. verdict \in [domain : Domains \cup {Null}, alarm : BOOLEAN]
        BY <1>1 DEF NoVerdict
    <2>3. seen \in [Domains -> [IPs -> Ages]]
        BY <1>1, <1>2
    <2>4. flux_table \in Pointers /\ curr \in Pointers /\ prev \in Entries \cup {Null}
        BY <1>1 DEF Pointers
    <2>5. /\ pc \in [Threads -> {"out", "make", "link", "add"}] /\ arg \in [Threads -> Domains \cup {Null}]
          /\ e \in [Threads -> Pointers]
        BY <1>1 DEF Pointers
    <2>6. since \in 0..(PERIOD + 1) /\ quiet \in 0..WINDOW
        BY <1>1
    <2>7. /\ walking \in BOOLEAN /\ corrupt \in BOOLEAN /\ clash \in BOOLEAN
          /\ entangled \subseteq Threads \cup {Main}
        BY <1>1
    <2>. QED  BY <2>1, <2>2, <2>3, <2>4, <2>5, <2>6, <2>7 DEF TypeOK, Record
<1>5. Roots \subseteq {Null}
    BY <1>1 DEF Roots
<1>6. Heap
    <2>1. \A x \in Entries : nexts(entry)[x] = Null
        BY <1>3, FreeFacts DEF nexts
    <2>2. Acyclic(nexts(entry))
        BY <2>1 DEF Acyclic
    <2>. QED  BY <1>3, <1>5, <2>2, FreeFacts DEF Heap, Alive
<1>7. Calling = {} /\ Active = {}
    BY <1>1 DEF Calling, Active
<1>8. Walk /\ (\A t \in Threads : Call(t)) /\ Recent /\ Undisturbed
    BY <1>1, <1>3, FreeFacts DEF Walk, Call, Recent, Undisturbed
<1>9. Meetings
    BY <1>1, <1>7 DEF Meetings
<1>10. Sound
    BY <1>1, <1>3, <1>5, <1>7, FreeFacts DEF Sound, Clash
<1>11. Exact
    BY <1>1, <1>3 DEF Exact, Gone
<1>12. NoFalseAlarm /\ HealsInAWindow
    BY <1>1 DEF NoFalseAlarm, HealsInAWindow, NoVerdict
<1>. QED  BY <1>1, <1>4, <1>6, <1>8, <1>9, <1>10, <1>11, <1>12 DEF IInv, Inner

\* Every step keeps the invariant.
LEMMA NextIInv == IInv /\ [Next]_vars => IInv'
<1>. SUFFICES ASSUME IInv, [Next]_vars PROVE IInv'
    OBVIOUS
<1>1. CASE UNCHANGED vars
    <2>1. /\ flux_table' = flux_table /\ entry' = entry /\ pc' = pc /\ arg' = arg /\ e' = e
          /\ walking' = walking /\ curr' = curr /\ prev' = prev /\ since' = since
          /\ verdict' = verdict /\ corrupt' = corrupt /\ seen' = seen
          /\ entangled' = entangled /\ quiet' = quiet /\ clash' = clash
        BY <1>1 DEF vars, calls, walk, results, history
    <2>2. TypeOK' /\ (corrupt' => clash')
        BY <2>1 DEF IInv, TypeOK
    <2>. SUFFICES ASSUME ~corrupt PROVE Inner' /\ NoFalseAlarm' /\ HealsInAWindow'
        BY <2>1, <2>2 DEF IInv
    <2>3. NoFalseAlarm' /\ HealsInAWindow'
        BY <2>1 DEF IInv, NoFalseAlarm, HealsInAWindow, Distinct
    <2>4. Listed' = Listed /\ \A d, p : First(d, p)' <=> First(d, p)
        BY <2>1, SameList
    <2>5. Roots' = Roots /\ Calling' = Calling /\ Active' = Active /\ Clash' = Clash
        BY <2>1 DEF Roots, Calling, Active, Clash
    <2>6. Heap' /\ Walk' /\ (\A t \in Threads : Call(t))' /\ Recent'
        BY <2>1, <2>5 DEF IInv, Inner, Heap, Walk, Call, Recent, nexts, Acyclic, Alive
    <2>7. Meetings' /\ Sound' /\ (walking /\ Main \notin entangled => Chain)'
        BY <2>1, <2>5 DEF IInv, Inner, Meetings, Sound, Chain
    <2>8. Undisturbed' /\ Exact'
        BY <2>1, <2>4 DEF IInv, Inner, Undisturbed, Exact
    <2>. QED  BY <2>3, <2>6, <2>7, <2>8 DEF Inner
<1>2. ASSUME NEW t \in Threads, flux_detect(t), ~corrupt, Observe(FALSE) PROVE IInv'
    BY <1>2, findIInv, find_danglingIInv, missIInv, createIInv, linkIInv, flux_add_ipIInv DEF flux_detect
<1>3. ASSUME cleanup_begin \/ flux_cleanup, ~corrupt, Observe(FALSE) PROVE IInv'
    BY <1>3, cleanup_beginIInv, cleanup_keepIInv, cleanup_freeIInv, cleanup_endIInv, cleanup_danglingIInv
       DEF flux_cleanup
<1>. QED  BY <1>1, <1>2, <1>3, TickIInv DEF Next

\* The inductive invariant holds.
THEOREM Invariance == Spec => []IInv
BY InitIInv, NextIInv, PTL DEF Spec

\* Whatever the interleaving of threads that call flux_detect and of flux_cleanup, short of
\* undefined behaviour, an alarm means that the domain really showed more than
\* g_flux_ip_max addresses within the window.
THEOREM NoFalseAlarmHolds == Spec => []NoFalseAlarm
<1>1. IInv => NoFalseAlarm
    BY DEF IInv, NoFalseAlarm
<1>. QED  BY <1>1, Invariance, PTL

\* A window after the last calls that met have ended, every verdict of flux_detect is that
\* of the reference, whatever was lost from the list or doubled in it before.
THEOREM HealsInAWindowHolds == Spec => []HealsInAWindow
<1>1. IInv => HealsInAWindow
    BY DEF IInv, HealsInAWindow
<1>. QED  BY <1>1, Invariance, PTL

\* An entry of the list is used after its end, or by two threads at once, only after two
\* calls for one domain, or a call and flux_cleanup, have overlapped.
THEOREM CorruptOnlyByClashHolds == Spec => []CorruptOnlyByClash
<1>1. IInv => CorruptOnlyByClash
    BY DEF IInv, CorruptOnlyByClash
<1>. QED  BY <1>1, Invariance, PTL
=============================================================================
