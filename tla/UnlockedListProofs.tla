------------------------- MODULE UnlockedListProofs -------------------------
(***************************************************************************)
(* TLAPS proofs about the lists of UnlockedList: what a pointer leads to,  *)
(* where a search ends, and what is left when an entry is unlinked.        *)
(***************************************************************************)
EXTENDS UnlockedList, FiniteSetTheorems, TLAPS

\* No pointer leads back to where it came from: every set of entries has one whose
\* next is outside the set.
Acyclic(nx) == \A C \in SUBSET Entries : C # {} => \E x \in C : nx[x] \notin C

\* What roots lead to is closed, has the roots, and is least.
LEMMA ReachedFacts ==
    ASSUME NEW nx, NEW roots
    PROVE  /\ Reached(nx, roots) \subseteq Entries /\ roots \cap Entries \subseteq Reached(nx, roots)
           /\ Closed(nx, Reached(nx, roots))
           /\ \A C \in SUBSET Entries :
                 roots \cap Entries \subseteq C /\ Closed(nx, C) => Reached(nx, roots) \subseteq C
<1>1. \A C \in SUBSET Entries :
          roots \cap Entries \subseteq C /\ Closed(nx, C) => Reached(nx, roots) \subseteq C
    BY DEF Reached
<1>2. ASSUME NEW x \in Reached(nx, roots), nx[x] \in Entries PROVE nx[x] \in Reached(nx, roots)
    BY <1>2 DEF Reached, Closed
<1>3. Closed(nx, Reached(nx, roots))
    BY <1>2 DEF Closed
<1>4. Reached(nx, roots) \subseteq Entries /\ roots \cap Entries \subseteq Reached(nx, roots)
    BY DEF Reached
<1>. QED  BY <1>1, <1>3, <1>4

\* One pointer leads to its entry and to what that entry's next leads to.
LEMMA TailStep ==
    ASSUME NEW nx, NEW a
    PROVE  /\ a \in Entries => Reached(nx, {a}) = {a} \cup Reached(nx, {nx[a]})
           /\ a \notin Entries => Reached(nx, {a}) = {}
           /\ \A b \in Reached(nx, {a}) : Reached(nx, {b}) \subseteq Reached(nx, {a})
<1>1. ASSUME a \in Entries PROVE Reached(nx, {a}) \subseteq {a} \cup Reached(nx, {nx[a]})
    <2>. DEFINE C == {a} \cup Reached(nx, {nx[a]})
    <2>1. C \in SUBSET Entries /\ {a} \cap Entries \subseteq C
        BY <1>1, ReachedFacts
    <2>2. Closed(nx, C)
        BY <1>1, ReachedFacts DEF Closed
    <2>. QED  BY <2>1, <2>2, ReachedFacts
<1>2. ASSUME a \in Entries PROVE {a} \cup Reached(nx, {nx[a]}) \subseteq Reached(nx, {a})
    <2>1. a \in Reached(nx, {a})
        BY <1>2, ReachedFacts
    <2>2. nx[a] \in Entries => nx[a] \in Reached(nx, {a})
        BY <2>1, ReachedFacts DEF Closed
    <2>3. {nx[a]} \cap Entries \subseteq Reached(nx, {a})
        BY <2>2
    <2>4. Reached(nx, {nx[a]}) \subseteq Reached(nx, {a})
        BY <2>3, ReachedFacts
    <2>. QED  BY <2>1, <2>4
<1>3. ASSUME a \notin Entries PROVE Reached(nx, {a}) = {}
    <2>1. Closed(nx, {}) /\ {a} \cap Entries \subseteq {}
        BY <1>3 DEF Closed
    <2>. QED  BY <2>1, ReachedFacts
<1>4. ASSUME NEW b \in Reached(nx, {a}) PROVE Reached(nx, {b}) \subseteq Reached(nx, {a})
    <2>1. {b} \cap Entries \subseteq Reached(nx, {a})
        OBVIOUS
    <2>. QED  BY <2>1, ReachedFacts
<1>. QED  BY <1>1, <1>2, <1>3, <1>4

\* A list that ends does not come back.
LEMMA NoLoop ==
    ASSUME NEW nx, Acyclic(nx), NEW z \in Entries, NEW y \in Reached(nx, {z})
    PROVE  nx[y] # z
<1>. SUFFICES ASSUME nx[y] = z PROVE FALSE
    OBVIOUS
<1>. DEFINE C == {w \in Reached(nx, {z}) : y \in Reached(nx, {w})}
<1>1. z \in C /\ C \in SUBSET Entries
    BY ReachedFacts
<1>2. ASSUME NEW w \in C PROVE nx[w] \in C
    <2>1. w \in Entries /\ y \in {w} \cup Reached(nx, {nx[w]})
        BY <1>1, TailStep
    <2>2. CASE w = y
        BY <1>1, <2>2
    <2>3. CASE w # y
        <3>1. y \in Reached(nx, {nx[w]})
            BY <2>1, <2>3
        <3>2. nx[w] \in Entries
            BY <3>1, TailStep
        <3>3. nx[w] \in Reached(nx, {z})
            BY <3>2, ReachedFacts DEF Closed
        <3>. QED  BY <3>1, <3>3
    <2>. QED  BY <2>2, <2>3
<1>. QED  BY <1>1, <1>2 DEF Acyclic

\* Two entries that lead to each other are the same.
LEMMA Antisymmetric ==
    ASSUME NEW nx, Acyclic(nx), NEW a \in Entries, NEW b \in Entries,
           a \in Reached(nx, {b}), b \in Reached(nx, {a})
    PROVE  a = b
<1>. SUFFICES ASSUME a # b PROVE FALSE
    OBVIOUS
<1>. DEFINE C == {w \in Reached(nx, {a}) : a \in Reached(nx, {w})}
<1>1. a \in C /\ b \in C /\ C \in SUBSET Entries
    BY ReachedFacts
<1>2. ASSUME NEW w \in C PROVE nx[w] \in C
    <2>1. w \in Entries /\ a \in {w} \cup Reached(nx, {nx[w]}) /\ b \in {a} \cup Reached(nx, {nx[a]})
        BY <1>1, TailStep
    <2>2. CASE w = a
        <3>1. b \in Reached(nx, {nx[a]}) /\ nx[a] \in Entries
            BY <2>1, TailStep
        <3>2. a \in Reached(nx, {nx[a]})
            BY <3>1, TailStep
        <3>3. nx[a] \in Reached(nx, {a})
            BY <1>1, <3>1, ReachedFacts DEF Closed
        <3>. QED  BY <2>2, <3>2, <3>3
    <2>3. CASE w # a
        <3>1. a \in Reached(nx, {nx[w]}) /\ nx[w] \in Entries
            BY <2>1, <2>3, TailStep
        <3>2. nx[w] \in Reached(nx, {a})
            BY <3>1, ReachedFacts DEF Closed
        <3>. QED  BY <3>1, <3>2
    <2>. QED  BY <2>2, <2>3
<1>. QED  BY <1>1, <1>2 DEF Acyclic

\* One of two entries of a list is behind the other.
LEMMA Linear ==
    ASSUME NEW nx, NEW h, NEW a \in Reached(nx, {h}), NEW b \in Reached(nx, {h})
    PROVE  a \in Reached(nx, {b}) \/ b \in Reached(nx, {a})
<1>. DEFINE C == {w \in Entries : w \in Reached(nx, {a}) \/ a \in Reached(nx, {w})}
<1>1. {h} \cap Entries \subseteq C /\ a \in Entries /\ C \in SUBSET Entries
    BY ReachedFacts
<1>2. ASSUME NEW w \in C, nx[w] \in Entries PROVE nx[w] \in C
    <2>1. CASE w \in Reached(nx, {a})
        BY <1>2, <2>1, ReachedFacts DEF Closed
    <2>2. CASE a \in Reached(nx, {w})
        <3>1. a = w \/ a \in Reached(nx, {nx[w]})
            BY <2>2, TailStep
        <3>2. w \in Reached(nx, {w})
            BY ReachedFacts
        <3>. QED  BY <1>2, <3>1, <3>2, ReachedFacts DEF Closed
    <2>. QED  BY <2>1, <2>2
<1>3. Closed(nx, C)
    BY <1>2 DEF Closed
<1>4. Reached(nx, {h}) \subseteq C
    BY <1>1, <1>3, ReachedFacts
<1>. QED  BY <1>4

\* In a list that ends, an entry has one pointer to it: its predecessor's or the head.
LEMMA OnePredecessor ==
    ASSUME NEW nx, Acyclic(nx), NEW h, NEW x \in Reached(nx, {h}), NEW y \in Reached(nx, {h}),
           nx[x] \in Entries
    PROVE  /\ nx[x] = nx[y] => x = y
           /\ nx[x] # h
<1>0. x \in Entries /\ y \in Entries
    BY ReachedFacts
<1>1. nx[x] # h
    BY NoLoop
<1>2. ASSUME NEW a \in Entries, NEW b \in Entries, nx[a] = nx[b], nx[a] \in Entries,
             b \in Reached(nx, {a})
      PROVE  a = b
    <2>. SUFFICES ASSUME a # b PROVE FALSE
        OBVIOUS
    <2>1. b \in Reached(nx, {nx[a]})
        BY <1>2, TailStep
    <2>. QED  BY <1>2, <2>1, NoLoop
<1>3. ASSUME nx[x] = nx[y] PROVE x = y
    BY <1>0, <1>2, <1>3, Linear
<1>. QED  BY <1>1, <1>3

\* A search ends, at the first entry that is wanted: the others are behind it.  It ends
\* elsewhere only if none is.
LEMMA SearchFacts ==
    ASSUME NEW nx \in [Entries -> Pointers], Acyclic(nx), NEW h \in Pointers, NEW W \in SUBSET Entries,
           NEW p, p = Search(h, nx, W)
    PROVE  /\ p \in {h} \cup {nx[x] : x \in Entries}
           /\ p \in Entries => /\ p \in W /\ p \in Reached(nx, {h})
                               /\ \A w \in W \cap Reached(nx, {h}) : w \in Reached(nx, {p})
           /\ p \notin Entries => W \cap Reached(nx, {h}) = {}
<1>. DEFINE cut    == [x \in Entries |-> IF x \in W THEN Null ELSE nx[x]]
            all    == Reached(cut, {h})
            passed == all \ W
            Stop(q) == q \in {h} \cup {nx[x] : x \in passed} /\ q \notin passed
<1>. USE ListAssumption
<1>1. /\ \A x \in W : cut[x] = Null
      /\ \A x \in Entries \ W : cut[x] = nx[x]
      /\ DOMAIN cut = Entries
    OBVIOUS
<1>. HIDE DEF cut
<1>2. all \subseteq Entries /\ {h} \cap Entries \subseteq all /\ Closed(cut, all)
    BY ReachedFacts
<1>3. \A x \in passed : /\ x \in Entries \ W /\ cut[x] = nx[x]
                        /\ nx[x] \in Entries => nx[x] \in all
    BY <1>1, <1>2 DEF Closed
<1>4. h \notin passed => passed = {}
    <2>1. CASE h \notin Entries
        BY <2>1, TailStep
    <2>2. CASE h \in Entries
        <3>. SUFFICES ASSUME h \notin passed PROVE passed = {}
            OBVIOUS
        <3>1. h \in W
            BY <1>2, <2>2
        <3>2. all = {h} \cup Reached(cut, {Null})
            <4>1. cut[h] = Null
                BY <1>1, <3>1
            <4>2. Reached(cut, {h}) = {h} \cup Reached(cut, {cut[h]})
                BY <2>2, TailStep
            <4>. QED  BY <4>1, <4>2
        <3>3. Reached(cut, {Null}) = {}
            BY TailStep
        <3>. QED  BY <3>1, <3>2, <3>3
    <2>. QED  BY <2>1, <2>2
<1>5. \E q : Stop(q)
    <2>1. CASE h \notin passed
        BY <2>1
    <2>2. CASE h \in passed
        <3>1. passed \in SUBSET Entries /\ passed # {}
            BY <1>3, <2>2
        <3>2. PICK x \in passed : nx[x] \notin passed
            BY <3>1 DEF Acyclic
        <3>. QED  BY <3>2
    <2>. QED  BY <2>1, <2>2
<1>6. ASSUME NEW x \in passed, NEW y \in passed, nx[x] \notin passed, y \in Reached(cut, {x})
      PROVE  x = y
    <2>. SUFFICES ASSUME x # y PROVE FALSE
        OBVIOUS
    <2>1. y \in Reached(cut, {nx[x]})
        <3>1. x \in Entries /\ cut[x] = nx[x]
            BY <1>3
        <3>2. Reached(cut, {x}) = {x} \cup Reached(cut, {cut[x]})
            BY <3>1, TailStep
        <3>. QED  BY <1>6, <3>1, <3>2
    <2>2. nx[x] \in Entries
        BY <2>1, TailStep
    <2>3. nx[x] \in W
        BY <1>3, <1>6, <2>2
    <2>4. Reached(cut, {nx[x]}) = {nx[x]} \cup Reached(cut, {Null})
        BY <1>1, <2>2, <2>3, TailStep
    <2>5. Reached(cut, {Null}) = {}
        BY TailStep
    <2>. QED  BY <2>1, <2>3, <2>4, <2>5
<1>7. \A x, y \in passed : nx[x] \notin passed /\ nx[y] \notin passed => x = y
    <2>1. \A x, y \in passed : y \in Reached(cut, {x}) \/ x \in Reached(cut, {y})
        BY Linear
    <2>. QED  BY <1>6, <2>1
<1>8. Stop(p)
    <2>1. p = CHOOSE q \in {h} \cup {nx[x] : x \in passed} : q \notin passed
        BY DEF Search, cut
    <2>. QED  BY <1>5, <2>1
<1>9. \A x \in passed : nx[x] \in passed \/ nx[x] = p
    <2>. SUFFICES ASSUME NEW x \in passed, nx[x] \notin passed PROVE nx[x] = p
        OBVIOUS
    <2>1. PICK y \in passed : nx[y] = p /\ nx[y] \notin passed
        BY <1>4, <1>8
    <2>. QED  BY <1>7, <2>1
<1>10. p \in Entries => p \in W
    BY <1>2, <1>3, <1>8
<1>11. passed \subseteq Reached(nx, {h})
    <2>. DEFINE R == Reached(nx, {h})
    <2>1. R \subseteq Entries /\ {h} \cap Entries \subseteq R /\ Closed(nx, R)
        BY ReachedFacts
    <2>. HIDE DEF R
    <2>2. Closed(cut, R)
        BY <1>1, <2>1 DEF Closed
    <2>3. all \subseteq R
        BY <2>1, <2>2, ReachedFacts
    <2>. QED  BY <2>3 DEF R
<1>12. p \in Entries => p \in Reached(nx, {h})
    <2>1. CASE p = h
        BY <2>1, ReachedFacts
    <2>2. CASE p # h
        BY <1>8, <1>11, <2>2, ReachedFacts DEF Closed
    <2>. QED  BY <2>1, <2>2
<1>13. Reached(nx, {h}) \subseteq passed \cup Reached(nx, {p})
    <2>. DEFINE C == passed \cup Reached(nx, {p})
    <2>1. C \in SUBSET Entries /\ (p \in Entries => p \in C)
        BY <1>3, ReachedFacts
    <2>2. {h} \cap Entries \subseteq C
        BY <1>4, <1>8, <2>1
    <2>3. Closed(nx, C)
        BY <1>9, <2>1, ReachedFacts DEF Closed
    <2>. QED  BY <2>1, <2>2, <2>3, ReachedFacts
<1>14. p \notin Entries => Reached(nx, {p}) = {}
    BY TailStep
<1>15. p \in {h} \cup {nx[x] : x \in Entries}
    BY <1>3, <1>8
<1>. HIDE DEF passed
<1>16. passed \cap W = {}
    BY DEF passed
<1>. QED  BY <1>10, <1>12, <1>13, <1>14, <1>15, <1>16

\* What a set of entries leads to depends only on the nexts of a closed set around it.
LEMMA SameReach ==
    ASSUME NEW nx, NEW ny, NEW K \in SUBSET Entries, Closed(nx, K), \A x \in K : nx[x] = ny[x],
           NEW roots, roots \cap Entries \subseteq K
    PROVE  Reached(nx, roots) = Reached(ny, roots) /\ Reached(nx, roots) \subseteq K
<1>. DEFINE R == Reached(nx, roots)
            S == Reached(ny, roots)
<1>1. R \subseteq K /\ R \in SUBSET Entries /\ S \in SUBSET Entries
    BY ReachedFacts
<1>2. /\ roots \cap Entries \subseteq R /\ Closed(nx, R)
      /\ roots \cap Entries \subseteq S /\ Closed(ny, S)
    BY ReachedFacts
<1>3. S \subseteq R
    <2>1. Closed(ny, R)
        BY <1>1, <1>2 DEF Closed
    <2>. QED  BY <1>1, <1>2, <2>1, ReachedFacts
<1>4. R \subseteq S
    <2>1. Closed(nx, S)
        BY <1>1, <1>2, <1>3 DEF Closed
    <2>. QED  BY <1>1, <1>2, <2>1, ReachedFacts
<1>. QED  BY <1>1, <1>3, <1>4

\* The pointers to x lead to where x led.
Bypassed(nx, ny, x) ==
    nx[x] # x /\ \A y \in Entries : ny[y] = IF nx[y] = x THEN nx[x] ELSE nx[y]

\* A list from which one entry is unlinked has the others, in their order.
LEMMA Unlink ==
    ASSUME NEW nx, NEW ny, NEW x \in Entries, Bypassed(nx, ny, x)
    PROVE  \A a : a # x => Reached(ny, {a}) = Reached(nx, {a}) \ {x}
<1>. SUFFICES ASSUME NEW a, a # x PROVE Reached(ny, {a}) = Reached(nx, {a}) \ {x}
    OBVIOUS
<1>. USE DEF Bypassed
<1>. DEFINE R == Reached(nx, {a})
            Q == Reached(ny, {a})
<1>1. /\ R \in SUBSET Entries /\ {a} \cap Entries \subseteq R /\ Closed(nx, R)
      /\ Q \in SUBSET Entries /\ {a} \cap Entries \subseteq Q /\ Closed(ny, Q)
    BY ReachedFacts
<1>2. Q \subseteq R \ {x}
    <2>1. {a} \cap Entries \subseteq R \ {x} /\ R \ {x} \in SUBSET Entries
        BY <1>1
    <2>2. Closed(ny, R \ {x})
        <3>. HIDE DEF R
        <3>. QED  BY <1>1 DEF Closed
    <2>. QED  BY <2>1, <2>2, ReachedFacts
<1>3. CASE \E y \in Q : nx[y] = x
    <2>1. nx[x] \in Entries => nx[x] \in Q
        <3>. HIDE DEF Q
        <3>. QED  BY <1>1, <1>3 DEF Closed
    <2>2. Q \cup {x} \in SUBSET Entries /\ {a} \cap Entries \subseteq Q \cup {x}
        BY <1>1
    <2>3. Closed(nx, Q \cup {x})
        <3>. HIDE DEF Q
        <3>. QED  BY <1>1, <2>1 DEF Closed
    <2>4. R \subseteq Q \cup {x}
        BY <2>2, <2>3, ReachedFacts
    <2>. QED  BY <1>2, <2>4
<1>4. CASE ~\E y \in Q : nx[y] = x
    <2>1. Closed(nx, Q)
        <3>. HIDE DEF Q
        <3>. QED  BY <1>1, <1>4 DEF Closed
    <2>2. R \subseteq Q
        BY <1>1, <2>1, ReachedFacts
    <2>. QED  BY <1>2, <2>2
<1>. QED  BY <1>3, <1>4

-----------------------------------------------------------------------------
\* A finite set has more than one element when it has two.
LEMMA TwoOrMore ==
    ASSUME NEW S, IsFiniteSet(S)
    PROVE  Cardinality(S) > 1 <=> \E a, b \in S : a # b
<1>1. Cardinality(S) \in Nat
    BY FS_CardinalityType
<1>2. ASSUME \A a, b \in S : a = b PROVE Cardinality(S) <= 1
    <2>1. CASE S = {}
        BY <2>1, FS_EmptySet
    <2>2. CASE S # {}
        <3>1. PICK a \in S : TRUE
            BY <2>2
        <3>2. S = {a}
            BY <1>2, <3>1
        <3>. QED  BY <3>2, FS_Singleton
    <2>. QED  BY <2>1, <2>2
<1>3. ASSUME NEW a \in S, NEW b \in S, a # b PROVE Cardinality(S) > 1
    <2>1. IsFiniteSet({a}) /\ Cardinality({a}) = 1
        BY FS_Singleton
    <2>2. IsFiniteSet({a} \cup {b}) /\ Cardinality({a} \cup {b}) = 2
        <3>1. b \notin {a}
            BY <1>3
        <3>2. IsFiniteSet({a} \cup {b}) /\ Cardinality({a} \cup {b}) = Cardinality({a}) + 1
            BY <2>1, <3>1, FS_AddElement
        <3>. QED  BY <2>1, <3>2
    <2>3. Cardinality({a} \cup {b}) <= Cardinality(S)
        BY FS_Subset
    <2>. QED  BY <1>1, <2>2, <2>3
<1>. QED  BY <1>1, <1>2, <1>3
=============================================================================
