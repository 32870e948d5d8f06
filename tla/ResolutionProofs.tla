-------------------------- MODULE ResolutionProofs --------------------------
(***************************************************************************)
(* TLAPS proofs about where an answer comes from: Cache, for tables of any *)
(* capacity, any keys and any hash function; Resolver, for any names,      *)
(* servers and ports and every limit on the depth of the recursion; and    *)
(* ForwarderPool, for every number of threads, slots and queries.          *)
(***************************************************************************)
EXTENDS Cache, Resolver, ForwarderPool, FiniteSetTheorems, SequenceTheorems, TLAPS

\* A set of numbers has a smallest one: the first slot where a walk can stop, the
\* number of a fresh message and, for the least counterexample, induction.
LEMMA SmallestNumber ==
    ASSUME NEW S, S \subseteq Nat, S # {}
    PROVE  \E x \in S : \A y \in S : x <= y
<1>1. PICK x \in S : \A y \in S : ~(<<y, x>> \in OpToRel(<, Nat))
    BY NatLessThanWellFounded, WFMin
<1>2. \A y \in S : ~(y < x)
    BY <1>1 DEF OpToRel
<1>. QED  BY <1>2

-----------------------------------------------------------------------------
(* Cache: the walk of CacheOps.                                            *)

\* The index wraps around at the end of the table.
LEMMA Wraps ==
    ASSUME NEW c \in Nat \ {0}, NEW a \in (-c)..(2 * c - 1)
    PROVE  a % c = IF a < 0 THEN a + c ELSE IF a < c THEN a ELSE a - c
OBVIOUS

\* How far slot s is from the home of k, in the direction of the walk.
Dist(k, s) == (s - Home[k]) % Capacity

\* The probe sequence goes through every slot exactly once.
LEMMA ProbeFacts ==
    ASSUME NEW k \in Keys
    PROVE  /\ \A i \in Slots : Probe(k, i) \in Slots
           /\ \A i, j \in Slots : Probe(k, i) = Probe(k, j) => i = j
           /\ \A s \in Slots : Dist(k, s) \in Slots /\ Probe(k, Dist(k, s)) = s
<1>. USE CacheAssumption
<1>1. Home[k] \in 0..(Capacity - 1) /\ Capacity \in Nat \ {0}
    BY DEF Slots
<1>2. ASSUME NEW i \in Slots
      PROVE  Probe(k, i) = IF Home[k] + i < Capacity THEN Home[k] + i ELSE Home[k] + i - Capacity
    <2>1. Home[k] + i \in (-Capacity)..(2 * Capacity - 1) /\ Home[k] + i >= 0
        BY <1>1 DEF Slots
    <2>. DEFINE a == Home[k] + i
    <2>2. a % Capacity = IF a < 0 THEN a + Capacity ELSE IF a < Capacity THEN a ELSE a - Capacity
        <3>. HIDE DEF a
        <3>. QED  BY <1>1, <2>1, Wraps DEF a
    <2>3. Probe(k, i) = a % Capacity
        BY DEF Probe
    <2>4. Probe(k, i) = IF a < 0 THEN a + Capacity ELSE IF a < Capacity THEN a ELSE a - Capacity
        <3>. HIDE DEF a
        <3>. QED  BY <2>2, <2>3
    <2>. QED  BY <1>1, <2>1, <2>4 DEF Slots
<1>3. ASSUME NEW s \in Slots
      PROVE  Dist(k, s) = IF s < Home[k] THEN s - Home[k] + Capacity ELSE s - Home[k]
    <2>1. s - Home[k] \in (-Capacity)..(2 * Capacity - 1) /\ s - Home[k] < Capacity
        BY <1>1 DEF Slots
    <2>. QED  BY <1>1, <2>1, Wraps DEF Dist, Slots
<1>. QED  BY <1>1, <1>2, <1>3 DEF Slots

\* Where the walk stops: at the first slot that is not used or holds k.
LEMMA StopFacts ==
    ASSUME NEW tab, NEW k \in Keys, Stops(tab, k) # {}
    PROVE  \E i \in Slots :
              /\ StopSlot(tab, k) = Probe(k, i) /\ Probe(k, i) \in Slots
              /\ tab[Probe(k, i)] = Unused \/ tab[Probe(k, i)].key = k
              /\ \A j \in Slots : j < i => tab[Probe(k, j)] # Unused /\ tab[Probe(k, j)].key # k
<1>. DEFINE i == CHOOSE i \in Stops(tab, k) : \A j \in Stops(tab, k) : i <= j
<1>1. Stops(tab, k) \subseteq Nat
    BY CacheAssumption DEF Stops, Slots
<1>2. i \in Stops(tab, k) /\ \A j \in Stops(tab, k) : i <= j
    BY <1>1, SmallestNumber
<1>3. StopSlot(tab, k) = Probe(k, i)
    BY DEF StopSlot
<1>. HIDE DEF i
<1>4. i \in Slots /\ (tab[Probe(k, i)] = Unused \/ tab[Probe(k, i)].key = k)
    BY <1>2 DEF Stops
<1>5. \A j \in Slots : j < i => j \notin Stops(tab, k)
    BY <1>2, <1>4, CacheAssumption DEF Slots
<1>. QED  BY <1>3, <1>4, <1>5, ProbeFacts DEF Stops

\* The converse: a slot where the walk can stop, and before which it cannot, is where
\* it stops.
LEMMA StopsThere ==
    ASSUME NEW tab, NEW k \in Keys, NEW i \in Slots,
           tab[Probe(k, i)] = Unused \/ tab[Probe(k, i)].key = k,
           \A j \in Slots : j < i => tab[Probe(k, j)] # Unused /\ tab[Probe(k, j)].key # k
    PROVE  Stops(tab, k) # {} /\ StopSlot(tab, k) = Probe(k, i)
<1>1. Stops(tab, k) # {}
    BY DEF Stops
<1>2. PICK n \in Slots :
          /\ StopSlot(tab, k) = Probe(k, n)
          /\ tab[Probe(k, n)] = Unused \/ tab[Probe(k, n)].key = k
          /\ \A j \in Slots : j < n => tab[Probe(k, j)] # Unused /\ tab[Probe(k, j)].key # k
    BY <1>1, StopFacts
<1>3. n = i
    BY <1>2, CacheAssumption DEF Slots
<1>. QED  BY <1>1, <1>2, <1>3

\* A walk that does not stop has seen every slot, each in use for another key.
LEMMA NoStop ==
    ASSUME NEW tab, NEW k \in Keys, Stops(tab, k) = {}
    PROVE  \A s \in Slots : tab[s] # Unused /\ tab[s].key # k
<1>. SUFFICES ASSUME NEW s \in Slots PROVE tab[s] # Unused /\ tab[s].key # k
    OBVIOUS
<1>1. Dist(k, s) \in Slots /\ Probe(k, Dist(k, s)) = s
    BY ProbeFacts
<1>2. Dist(k, s) \notin Stops(tab, k)
    OBVIOUS
<1>. QED  BY <1>1, <1>2 DEF Stops

\* The slots before s on the walk for k, by their places on it.
LEMMA BeforeFacts ==
    ASSUME NEW k \in Keys, NEW s \in Slots
    PROVE  Before(k, s) = {Probe(k, j) : j \in {i \in Slots : i < Dist(k, s)}}
BY DEF Before, Dist

\* An entry is found by the walk for its key exactly if every slot before it is in use
\* for another key.
LEMMA FoundIff ==
    ASSUME NEW tab, NEW s \in Slots, tab[s] # Unused, NEW k \in Keys, tab[s].key = k
    PROVE  StopSlot(tab, k) = s <=>
              \A r \in Before(k, s) : tab[r] # Unused /\ tab[r].key # k
<1>. DEFINE i == Dist(k, s)
<1>1. i \in Slots /\ Probe(k, i) = s
    BY ProbeFacts
<1>. HIDE DEF i
<1>2. (\A r \in Before(k, s) : tab[r] # Unused /\ tab[r].key # k) <=>
      (\A j \in Slots : j < i => tab[Probe(k, j)] # Unused /\ tab[Probe(k, j)].key # k)
    BY BeforeFacts DEF i
<1>3. Stops(tab, k) # {}
    BY <1>1 DEF Stops
<1>4. PICK n \in Slots :
          /\ StopSlot(tab, k) = Probe(k, n)
          /\ \A j \in Slots : j < n => tab[Probe(k, j)] # Unused /\ tab[Probe(k, j)].key # k
    BY <1>3, StopFacts
<1>5. \A j, m \in Slots : Probe(k, j) = Probe(k, m) => j = m
    BY ProbeFacts
<1>6. StopSlot(tab, k) = s => n = i
    BY <1>1, <1>4, <1>5
<1>. QED  BY <1>1, <1>2, <1>4, <1>6, StopsThere

-----------------------------------------------------------------------------
(* The invariant.                                                          *)

\* Answers are numbered as they come, so that no number is used again.
Numbered ==
    /\ IsFiniteSet(stores)
    /\ \A r \in stores : r.data <= Cardinality(stores)

\* What the table holds was given to cache_store, with the expiry it has there.
EntriesStored ==
    \A s \in Used(table) :
        \E r \in stores : /\ r.key = table[s].key
                          /\ r.data = table[s].data
                          /\ r.until = table[s].expiry

\* The inductive invariant.
CacheInv == CacheTypeOK /\ CountExact /\ HiddenOnlyByHole /\ Numbered /\ EntriesStored

\* The table has finitely many slots, and no more than Capacity of them are used.
LEMMA UsedFacts ==
    ASSUME NEW tab
    PROVE  IsFiniteSet(Used(tab)) /\ Cardinality(Used(tab)) \in 0..Capacity
<1>1. IsFiniteSet(Slots) /\ Cardinality(Slots) = Capacity
    BY CacheAssumption, FS_Interval DEF Slots
<1>2. Used(tab) \in SUBSET Slots
    BY DEF Used
<1>3. IsFiniteSet(Used(tab)) /\ Cardinality(Used(tab)) <= Capacity
    BY <1>1, <1>2, FS_Subset
<1>. QED  BY <1>3, FS_CardinalityType, CacheAssumption

\* calloc: nothing is stored, nothing is used.
LEMMA CacheInitInv == CacheInit => CacheInv
<1>. SUFFICES ASSUME CacheInit PROVE CacheInv
    OBVIOUS
<1>. USE CacheAssumption, CacheBounds
<1>1. Used(table) = {}
    BY DEF CacheInit, EmptyTable, Used
<1>2. CacheTypeOK
    BY DEF CacheInit, CacheTypeOK, EmptyTable
<1>. QED  BY <1>1, <1>2, FS_EmptySet
          DEF CacheInv, CacheInit, CountExact, HiddenOnlyByHole, Numbered, EntriesStored

\* Slots are freed, by a lookup or by a sweep: they become holes, which is all that
\* the walks to the other entries can notice.
LEMMA FreeingPreserves ==
    ASSUME CacheInv, NEW R \in SUBSET Used(table),
           table' = [s \in Slots |-> IF s \in R THEN Unused ELSE table[s]],
           count' = count - Cardinality(R),
           holes' = holes \cup R,
           now' = now, stores' = stores
    PROVE  CacheInv'
<1>. USE CacheAssumption, CacheBounds
<1>1. CacheTypeOK /\ R \subseteq Slots
    BY DEF CacheInv, Used
<1>2. Used(table') = Used(table) \ R /\ Used(table) \cap R = R
    BY DEF Used
<1>3. CountExact'
    <2>1. Cardinality(Used(table) \ R) = Cardinality(Used(table)) - Cardinality(R)
        BY <1>2, UsedFacts, FS_Difference
    <2>. QED  BY <1>2, <2>1 DEF CacheInv, CountExact
<1>4. count' \in 0..Capacity
    BY <1>3, UsedFacts DEF CountExact
<1>5. CacheTypeOK'
    BY <1>1, <1>4 DEF CacheTypeOK
<1>6. EntriesStored'
    BY <1>2 DEF CacheInv, EntriesStored, Used
<1>7. HiddenOnlyByHole'
    <2>. SUFFICES ASSUME NEW s \in Used(table'), Before(table[s].key, s) \cap (holes \cup R) = {}
                  PROVE  StopSlot(table', table[s].key) = s
        BY DEF HiddenOnlyByHole, Used
    <2>. DEFINE k == table[s].key
    <2>1. /\ s \in Used(table) /\ s \in Slots /\ table[s] # Unused
          /\ table'[s] = table[s] /\ k \in Keys
        BY <1>1, <1>2 DEF Used, CacheTypeOK, Entry
    <2>. HIDE DEF k
    <2>2. StopSlot(table, k) = s
        BY <2>1 DEF CacheInv, HiddenOnlyByHole, k
    <2>3. \A r \in Before(k, s) : table[r] # Unused /\ table[r].key # k
        BY <2>1, <2>2, FoundIff DEF k
    <2>4. \A r \in Before(k, s) : r \in Slots /\ table'[r] = table[r]
        BY ProbeFacts, <2>1 DEF Before, k
    <2>5. StopSlot(table', k) = s
        BY <2>1, <2>3, <2>4, FoundIff DEF k
    <2>. QED  BY <2>5 DEF k
<1>. QED  BY <1>3, <1>5, <1>6, <1>7 DEF CacheInv, Numbered

\* cache_lookup frees the slot where it stops, or nothing.
LEMMA LookupPreserves ==
    ASSUME CacheInv, NEW k \in Keys, cache_lookup(k)
    PROVE  CacheInv'
<1>1. table \in [Slots -> Entry \cup {Unused}] /\ count \in Int
    BY CacheAssumption DEF CacheInv, CacheTypeOK
<1>2. CASE Removes(table, k, now)
    <2>. DEFINE t == StopSlot(table, k)
    <2>1. t \in Slots /\ table[t] # Unused
        BY <1>2, StopFacts DEF Removes, Holds
    <2>2. /\ table' = [table EXCEPT ![t] = Unused]
          /\ count' = count - 1 /\ holes' = holes \cup {t} /\ now' = now /\ stores' = stores
        BY <1>2 DEF cache_lookup, AfterLookup
    <2>. HIDE DEF t
    <2>3. {t} \in SUBSET Used(table) /\ Cardinality({t}) = 1
        BY <2>1, FS_Singleton DEF Used
    <2>4. table' = [s \in Slots |-> IF s \in {t} THEN Unused ELSE table[s]]
        BY <1>1, <2>2
    <2>. QED  BY <2>2, <2>3, <2>4, FreeingPreserves
<1>3. CASE ~Removes(table, k, now)
    <2>1. UNCHANGED cacheVars
        BY <1>3 DEF cache_lookup, AfterLookup, cacheVars
    <2>2. {} \in SUBSET Used(table) /\ Cardinality({}) = 0
        BY FS_EmptySet
    <2>3. /\ table' = [s \in Slots |-> IF s \in {} THEN Unused ELSE table[s]]
          /\ count' = count - 0 /\ holes' = holes \cup {} /\ now' = now /\ stores' = stores
        BY <1>1, <2>1 DEF cacheVars
    <2>. QED  BY <2>2, <2>3, FreeingPreserves
<1>. QED  BY <1>2, <1>3

\* A sweep frees the entries that had expired when the clock was read.
LEMMA SweepPreserves ==
    ASSUME CacheInv, NEW t \in 0..now, cache_clean_expired(t)
    PROVE  CacheInv'
<1>1. ExpiredSlots(t) \in SUBSET Used(table)
    BY DEF ExpiredSlots
<1>. QED  BY <1>1, FreeingPreserves DEF cache_clean_expired

\* cache_store writes where its walk stops: a slot that was not used, or held the same
\* key, so that no walk that found an entry behind that slot stops there now.
LEMMA StorePreserves ==
    ASSUME CacheInv, NEW k \in Keys, NEW ttl \in TTLs, cache_store(k, ttl)
    PROVE  CacheInv'
<1>. USE CacheAssumption, CacheBounds
<1>. DEFINE n   == Cardinality(stores) + 1
            new == [key |-> k, data |-> n, until |-> now + ttl]
            e   == [key |-> k, data |-> n, expiry |-> now + ttl]
            t   == StopSlot(table, k)
<1>1. /\ CacheTypeOK /\ Numbered /\ Cardinality(stores) \in Nat
      /\ ttl \in Nat /\ now \in 0..MaxTime /\ now + ttl \in Int /\ n \in 1..MaxStores
    <2>1. Cardinality(stores) \in Nat
        BY FS_CardinalityType DEF CacheInv, Numbered
    <2>. QED  BY <2>1 DEF CacheInv, CacheTypeOK, cache_store
<1>2. /\ stores' = stores \cup {new} /\ now' = now /\ holes' = holes
      /\ table' = AfterStore(table, k, n, now + ttl)
      /\ count' = IF Stops(table, k) # {} /\ ~Holds(table, k) THEN count + 1 ELSE count
    BY DEF cache_store
<1>3. /\ e \in Entry /\ e # Unused /\ e.key = k /\ e.data = n /\ e.expiry = now + ttl
      /\ new \in [key : Keys, data : 1..MaxStores, until : Int]
      /\ new.key = k /\ new.data = n /\ new.until = now + ttl
    BY <1>1 DEF Entry
<1>. HIDE DEF new, e
<1>4. Numbered'
    <2>1. new \notin stores
        BY <1>1, <1>3 DEF Numbered
    <2>2. IsFiniteSet(stores') /\ Cardinality(stores') = n
        BY <1>1, <1>2, <2>1, FS_AddElement DEF Numbered
    <2>3. \A r \in stores : r.data \in Int /\ r.data <= Cardinality(stores)
        BY <1>1 DEF Numbered, CacheTypeOK
    <2>4. \A r \in stores \cup {new} : r.data <= n
        BY <1>1, <1>3, <2>3
    <2>. QED  BY <1>2, <2>2, <2>4 DEF Numbered
<1>5. CASE Stops(table, k) = {}
    <2>1. table' = table /\ count' = count
        BY <1>2, <1>5 DEF AfterStore
    <2>. QED  BY <1>1, <1>2, <1>3, <1>4, <2>1
              DEF CacheInv, CacheTypeOK, CountExact, HiddenOnlyByHole, EntriesStored
<1>6. CASE Stops(table, k) # {}
    <2>1. /\ t \in Slots /\ (table[t] = Unused \/ table[t].key = k)
          /\ Holds(table, k) <=> table[t] # Unused
        BY <1>6, StopFacts DEF Holds
    <2>2. table' = [table EXCEPT ![t] = e]
        BY <1>2, <1>6 DEF AfterStore, e
    <2>3. table'[t] = e /\ \A s \in Slots : s # t => table'[s] = table[s]
        BY <1>1, <2>2, <2>1 DEF CacheTypeOK
    <2>4. Used(table') = Used(table) \cup {t}
        BY <1>3, <2>1, <2>3 DEF Used
    <2>5. CountExact'
        <3>1. Cardinality(Used(table')) =
                  IF t \in Used(table) THEN Cardinality(Used(table)) ELSE Cardinality(Used(table)) + 1
            BY <2>4, UsedFacts, FS_AddElement
        <3>2. t \in Used(table) <=> Holds(table, k)
            BY <2>1 DEF Used
        <3>. QED  BY <1>2, <1>6, <3>1, <3>2 DEF CacheInv, CountExact
    <2>6. CacheTypeOK'
        <3>1. count' \in 0..Capacity
            BY <2>5, UsedFacts DEF CountExact
        <3>. QED  BY <1>1, <1>2, <1>3, <2>1, <2>2, <3>1 DEF CacheTypeOK
    <2>7. EntriesStored'
        <3>. SUFFICES ASSUME NEW s \in Used(table')
                      PROVE  \E r \in stores' : /\ r.key = table'[s].key
                                                /\ r.data = table'[s].data
                                                /\ r.until = table'[s].expiry
            BY DEF EntriesStored
        <3>1. CASE s = t
            BY <1>2, <1>3, <2>3, <3>1
        <3>2. CASE s # t
            BY <1>2, <2>3, <2>4, <3>2 DEF CacheInv, EntriesStored, Used
        <3>. QED  BY <3>1, <3>2
    <2>8. HiddenOnlyByHole'
        <3>. SUFFICES ASSUME NEW s \in Used(table'), Before(table'[s].key, s) \cap holes = {}
                      PROVE  StopSlot(table', table'[s].key) = s
            BY <1>2 DEF HiddenOnlyByHole
        <3>. DEFINE m == table'[s].key
        <3>1. s \in Slots /\ table'[s] # Unused /\ m \in Keys
            BY <2>6 DEF Used, CacheTypeOK, Entry
        <3>. HIDE DEF m
        <3>2. \A r \in Before(m, s) : r \in Slots
            BY ProbeFacts, <3>1 DEF Before
        <3>3. ASSUME NEW r \in Before(m, s) PROVE table'[r] # Unused /\ table'[r].key # m
            <4>1. CASE s = t
                <5>1. m = k
                    BY <1>3, <2>3, <4>1 DEF m
                <5>2. PICK i \in Slots :
                          /\ t = Probe(k, i)
                          /\ \A j \in Slots :
                                j < i => table[Probe(k, j)] # Unused /\ table[Probe(k, j)].key # k
                    BY <1>6, StopFacts
                <5>3. Dist(k, t) \in Slots /\ Probe(k, Dist(k, t)) = t
                    BY <2>1, ProbeFacts
                <5>4. \A a, b \in Slots : Probe(k, a) = Probe(k, b) => a = b
                    BY ProbeFacts
                <5>5. Dist(k, t) = i
                    BY <5>2, <5>3, <5>4
                <5>6. PICK j \in Slots : j < i /\ r = Probe(k, j)
                    BY <2>1, <4>1, <5>1, <5>5, BeforeFacts
                <5>7. r # t
                    BY <5>2, <5>4, <5>6 DEF Slots
                <5>. QED  BY <2>3, <3>2, <5>1, <5>2, <5>6, <5>7
            <4>2. CASE s # t
                <5>1. s \in Used(table) /\ table'[s] = table[s]
                    BY <2>3, <2>4, <3>1, <4>2
                <5>2. StopSlot(table, m) = s /\ table[s].key = m /\ table[s] # Unused
                    BY <5>1 DEF CacheInv, HiddenOnlyByHole, m, Used
                <5>3. table[r] # Unused /\ table[r].key # m
                    BY <3>1, <5>2, FoundIff
                <5>4. r = t => table'[r].key = table[r].key
                    BY <1>3, <2>1, <2>3, <5>3
                <5>. QED  BY <1>3, <2>3, <3>2, <5>3, <5>4
            <4>. QED  BY <4>1, <4>2
        <3>4. StopSlot(table', m) = s
            BY <3>1, <3>3, FoundIff DEF m
        <3>. QED  BY <3>4 DEF m
    <2>. QED  BY <1>4, <2>5, <2>6, <2>7, <2>8 DEF CacheInv
<1>. QED  BY <1>5, <1>6

\* Every step keeps the invariant.
LEMMA CacheNextInv == CacheInv /\ [CacheNext]_cacheVars => CacheInv'
<1>. SUFFICES ASSUME CacheInv, [CacheNext]_cacheVars PROVE CacheInv'
    OBVIOUS
<1>1. ASSUME NEW k \in Keys, cache_lookup(k) PROVE CacheInv'
    BY <1>1, LookupPreserves
<1>2. ASSUME NEW k \in Keys, NEW ttl \in TTLs, cache_store(k, ttl) PROVE CacheInv'
    BY <1>2, StorePreserves
<1>3. ASSUME NEW t \in 0..now, cache_clean_expired(t) PROVE CacheInv'
    BY <1>3, SweepPreserves
<1>4. CASE Tick
    BY <1>4, CacheBounds
       DEF Tick, CacheInv, CacheTypeOK, CountExact, HiddenOnlyByHole, Numbered, EntriesStored
<1>5. CASE UNCHANGED cacheVars
    BY <1>5 DEF cacheVars, CacheInv, CacheTypeOK, CountExact, HiddenOnlyByHole, Numbered, EntriesStored
<1>. QED  BY <1>1, <1>2, <1>3, <1>4, <1>5 DEF CacheNext

-----------------------------------------------------------------------------
(* The theorems.                                                           *)

\* The invariant holds in every state of the cache.
THEOREM CacheInvariance == CacheSpec => []CacheInv
<1>. QED  BY CacheInitInv, CacheNextInv, PTL DEF CacheSpec

\* The table, its count and the history of stores keep their types and bounds, whatever
\* cache_store, cache_lookup and cache_clean_expired do.
THEOREM CacheTypeOKHolds == CacheSpec => []CacheTypeOK
<1>1. CacheInv => CacheTypeOK
    BY DEF CacheInv
<1>. QED  BY <1>1, CacheInvariance, PTL

\* c->count is the number of used slots.
THEOREM CountExactHolds == CacheSpec => []CountExact
<1>1. CacheInv => CountExact
    BY DEF CacheInv
<1>. QED  BY <1>1, CacheInvariance, PTL

\* What cache_lookup returns was stored for that key and has not expired.
THEOREM HitIsHonestHolds == CacheSpec => []HitIsHonest
<1>1. CacheInv => HitIsHonest
    <2>. SUFFICES ASSUME CacheInv, NEW k \in Keys, Hit(table, k, now)
                  PROVE  \E s \in stores : /\ s.key = k
                                           /\ s.data = table[StopSlot(table, k)].data
                                           /\ now <= s.until
        BY DEF HitIsHonest
    <2>. DEFINE t == StopSlot(table, k)
    <2>1. t \in Slots /\ table[t] # Unused /\ table[t].key = k /\ ~(now > table[t].expiry)
        BY StopFacts DEF Hit, Holds, Expired
    <2>2. table[t].expiry \in Int /\ now \in Int
        BY <2>1, CacheBounds DEF CacheInv, CacheTypeOK, Entry
    <2>3. t \in Used(table)
        BY <2>1 DEF Used
    <2>. HIDE DEF t
    <2>4. PICK r \in stores : /\ r.key = table[t].key /\ r.data = table[t].data
                              /\ r.until = table[t].expiry
        BY <2>3 DEF CacheInv, EntriesStored
    <2>. QED  BY <2>1, <2>2, <2>4 DEF t
<1>. QED  BY <1>1, CacheInvariance, PTL

\* An entry that no lookup reaches lies behind a slot that was freed without a
\* tombstone.
THEOREM HiddenOnlyByHoleHolds == CacheSpec => []HiddenOnlyByHole
<1>1. CacheInv => HiddenOnlyByHole
    BY DEF CacheInv
<1>. QED  BY <1>1, CacheInvariance, PTL

\* An answer that cache_store was given is found by the next lookup, unless the table is
\* full of other keys.
THEOREM StoreIsKeptHolds == CacheSpec => StoreIsKept
<1>1. ASSUME CacheInv, CacheInv', NEW k \in Keys, NEW ttl \in TTLs \ {0}, cache_store(k, ttl)
      PROVE  \/ /\ Hit(table', k, now)
                /\ table'[StopSlot(table', k)].data = Cardinality(stores')
             \/ \A s \in Slots : table[s] # Unused /\ table[s].key # k
    <2>. USE CacheAssumption, CacheBounds
    <2>. DEFINE n == Cardinality(stores) + 1
                t == StopSlot(table, k)
                e == [key |-> k, data |-> n, expiry |-> now + ttl]
    <2>1. CASE Stops(table, k) = {}
        BY <2>1, NoStop
    <2>2. CASE Stops(table, k) # {}
        <3>1. PICK i \in Slots :
                  /\ t = Probe(k, i) /\ t \in Slots
                  /\ \A j \in Slots :
                        j < i => table[Probe(k, j)] # Unused /\ table[Probe(k, j)].key # k
            BY <2>2, StopFacts
        <3>2. table' = [table EXCEPT ![t] = e]
            BY <1>1, <2>2 DEF cache_store, AfterStore
        <3>3. \A a, b \in Slots : Probe(k, a) = Probe(k, b) => a = b
            BY ProbeFacts
        <3>4. \A j \in Slots : Probe(k, j) \in Slots
            BY ProbeFacts
        <3>5. table'[t] = e /\ \A s \in Slots : s # t => table'[s] = table[s]
            BY <1>1, <3>1, <3>2 DEF CacheInv, CacheTypeOK
        <3>6. e.key = k /\ e.data = n /\ e.expiry = now + ttl
            OBVIOUS
        <3>. HIDE DEF e
        <3>7. \A j \in Slots :
                 j < i => table'[Probe(k, j)] # Unused /\ table'[Probe(k, j)].key # k
            BY <3>1, <3>3, <3>4, <3>5 DEF Slots
        <3>8. StopSlot(table', k) = t /\ Stops(table', k) # {}
            BY <3>1, <3>5, <3>6, <3>7, StopsThere
        <3>9. Cardinality(stores') = n /\ table'[t] # Unused
            <4>1. [key |-> k, data |-> n, until |-> now + ttl] \notin stores
                BY <1>1, FS_CardinalityType DEF CacheInv, Numbered, CacheTypeOK
            <4>2. stores' = stores \cup {[key |-> k, data |-> n, until |-> now + ttl]}
                BY <1>1 DEF cache_store
            <4>3. Cardinality(stores') = n
                BY <1>1, <4>1, <4>2, FS_AddElement DEF CacheInv, Numbered
            <4>4. e \in Entry
                <5>1. Cardinality(stores) \in Nat
                    BY <1>1, FS_CardinalityType DEF CacheInv, Numbered
                <5>. QED  BY <1>1, <5>1 DEF CacheInv, CacheTypeOK, Entry, e, cache_store
            <4>. QED  BY <3>5, <4>3, <4>4
        <3>10. now + ttl >= now /\ now \in Int /\ ttl \in Int
            BY <1>1 DEF CacheInv, CacheTypeOK
        <3>. QED  BY <3>5, <3>6, <3>8, <3>9, <3>10 DEF Hit, Holds, Expired
    <2>. QED  BY <2>1, <2>2
<1>2. CacheInv /\ CacheInv' /\ [CacheNext]_cacheVars =>
      [\A k \in Keys, ttl \in TTLs \ {0} : cache_store(k, ttl) =>
          \/ /\ Hit(table', k, now)
             /\ table'[StopSlot(table', k)].data = Cardinality(stores')
          \/ \A s \in Slots : table[s] # Unused /\ table[s].key # k]_cacheVars
    BY <1>1
<1>. QED  BY <1>2, CacheInvariance, PTL DEF CacheSpec, StoreIsKept

-----------------------------------------------------------------------------
(* Resolver.                                                               *)

(* The inductive invariant.                                                *)

Calling == {"alias", "referral"}  \* frames that wait for a callee

\* The i-th call of the stack: it is one level deeper than its caller, it holds a message
\* exactly if it waits for a callee, and it has a server left to wait for.
FrameOK(f, i, alone, calling) ==
    /\ f.depth = i - 1
    /\ IF f.at = "enter" THEN f.i = 1 ELSE f.depth <= MAX_RECURSION_DEPTH
    /\ f.at \in Calling <=> calling
    /\ f.at \in Calling <=> f.resp # NoMsg
    /\ f.at \in Calling => ~alone
    /\ f.at \in Calling \cup {"wait"} => alone \/ f.i <= f.count

\* Only the last call can be at work, and it is unless a callee has just returned to it.
Frames ==
    \A i \in 1..Len(stack) :
        FrameOK(stack[i], i, Forwards(stack[i]), i < Len(stack) \/ ret.rc # 1)

\* Return values: success comes with a message, failure without one, and NXDOMAIN with a
\* negative one or, from below a referral or an alias, without.
Returns ==
    /\ ret.rc \in {1, -1, -2} => ret.msg = NoMsg
    /\ ret.rc = 0 => ret.msg # NoMsg
    /\ ret.rc = -3 => ret.msg = NoMsg \/ heap[ret.msg].what = "negative"

\* Before any alias, every call is for the name of the query.
Asked ==
    /\ stack = << >> /\ ret.rc = 1 => sent = 0
    /\ "alias" \notin excuse => \A i \in 1..Len(stack) : stack[i].name = query

\* What AnswersQuestion and StoredForSender say, on the way back up the stack too.
Returning ==
    /\ ret.rc = 0 /\ query \notin mixed /\ "alias" \notin excuse => heap[ret.msg].q = query
    /\ \A n \in Names \ mixed : cached[n] \in {n, NoName}
    /\ ret.rc \in {0, -3} => kept \/ excuse # {}

\* The questions call f may still send, those of the callee it waits for left out; alone
\* says that it asks one server only.
Remaining(f, alone) ==
    LET each == 1 + Worst[f.depth + 1]
    IN  CASE f.at = "enter"   -> Worst[f.depth]
          [] f.at = "ask"     -> IF alone THEN 1 ELSE (f.count - f.i + 1) * each
          [] f.at = "wait"    -> IF alone THEN 0 ELSE (f.count - f.i) * each + each - 1
          [] f.at \in Calling -> (f.count - f.i) * each

Costs == [i \in 1..Len(stack) |-> Remaining(stack[i], Forwards(stack[i]))]

\* total[i]: what was sent, s, and what the first i of n calls may still send; never more
\* than the whole query may.
Totals(total, n, s, costs) ==
    /\ total \in [0..n -> 0..Worst[0]]
    /\ total[0] = s
    /\ \A i \in 1..n : costs[i] \in Nat /\ total[i] = total[i - 1] + costs[i]
    /\ \A i, j \in 0..n : i <= j => total[i] <= total[j]

Budget == \E total : Totals(total, Len(stack), sent, Costs)

\* A call that waits has a socket.
Waiting == Waits => port \in Ports

IInv ==
    /\ NoDangling /\ LeakOnlyNegative
    /\ Frames /\ Waiting /\ Returns /\ Asked /\ Returning /\ Budget

-----------------------------------------------------------------------------
(* The bound on the work.                                                  *)

\* The recursive function Worst exists and satisfies its equation: the deepest call
\* sends nothing, and a call at depth d has MaxServers servers to ask, each with a callee
\* below.
LEMMA WorstFacts ==
    /\ Worst \in [0..(MAX_RECURSION_DEPTH + 1) -> Nat]
    /\ Worst[MAX_RECURSION_DEPTH + 1] = 0
    /\ \A d \in 0..MAX_RECURSION_DEPTH : Worst[d] = MaxServers * (1 + Worst[d + 1])
<1>. USE ResolverAssumption
<1>. DEFINE M        == MAX_RECURSION_DEPTH
            Eq(f, d) == f[d] = IF d > M THEN 0 ELSE MaxServers * (1 + f[d + 1])
            From(n)  == \E f \in [n..(M + 1) -> Nat] : \A d \in n..(M + 1) : Eq(f, d)
            Bad      == {k \in 0..(M + 1) : ~From(M + 1 - k)}
<1>1. Bad = {}
    <2>. SUFFICES ASSUME Bad # {} PROVE FALSE
        OBVIOUS
    <2>1. PICK k \in Bad : \A j \in Bad : k <= j
        <3>1. Bad \subseteq Nat
            OBVIOUS
        <3>. HIDE DEF Bad
        <3>. QED  BY <3>1, SmallestNumber
    <2>2. k \in 0..(M + 1) /\ ~From(M + 1 - k)
        OBVIOUS
    <2>3. CASE k = 0
        <3>1. [d \in (M + 1)..(M + 1) |-> 0] \in [(M + 1)..(M + 1) -> Nat]
            OBVIOUS
        <3>2. \A d \in (M + 1)..(M + 1) : Eq([e \in (M + 1)..(M + 1) |-> 0], d)
            OBVIOUS
        <3>3. From(M + 1)
            BY <3>1, <3>2
        <3>. QED  BY <2>2, <2>3, <3>3
    <2>4. CASE k > 0
        <3>. DEFINE n == M + 1 - k
        <3>1. k - 1 \in 0..(M + 1) /\ k - 1 \notin Bad /\ n \in 0..M /\ M + 1 - (k - 1) = n + 1
            <4>. HIDE DEF Bad, From
            <4>. QED  BY <2>1, <2>2, <2>4
        <3>2. From(n + 1)
            BY <3>1
        <3>3. PICK f \in [(n + 1)..(M + 1) -> Nat] : \A d \in (n + 1)..(M + 1) : Eq(f, d)
            BY <3>2
        <3>. DEFINE g == [d \in n..(M + 1) |-> IF d = n THEN MaxServers * (1 + f[n + 1]) ELSE f[d]]
        <3>4. MaxServers * (1 + f[n + 1]) \in Nat
            BY <3>1
        <3>5. g \in [n..(M + 1) -> Nat]
            BY <3>1, <3>4
        <3>6. ASSUME NEW d \in n..(M + 1) PROVE Eq(g, d)
            <4>1. CASE d = n
                BY <3>1, <4>1
            <4>2. CASE d # n
                <5>1. d \in (n + 1)..(M + 1) /\ Eq(f, d) /\ (d <= M => d + 1 \in (n + 1)..(M + 1))
                    BY <3>1, <3>3, <4>2
                <5>2. g[d] = f[d] /\ (d <= M => g[d + 1] = f[d + 1])
                    BY <3>1, <4>2, <5>1
                <5>. QED  BY <5>1, <5>2
            <4>. QED  BY <4>1, <4>2
        <3>7. From(n)
            <4>. HIDE DEF g, n
            <4>. QED  BY <3>5, <3>6
        <3>. QED  BY <2>2, <3>7
    <2>. QED  BY <2>2, <2>3, <2>4
<1>2. From(0)
    <2>1. M + 1 \in 0..(M + 1) /\ M + 1 \notin Bad /\ M + 1 - (M + 1) = 0
        <3>. HIDE DEF Bad, From
        <3>. QED  BY <1>1
    <2>. QED  BY <2>1
<1>3. PICK f \in [0..(M + 1) -> Nat] : \A d \in 0..(M + 1) : Eq(f, d)
    BY <1>2
<1>4. f = [d \in 0..(M + 1) |-> IF d > M THEN 0 ELSE MaxServers * (1 + f[d + 1])]
    BY <1>3
<1>5. Worst = [d \in 0..(M + 1) |-> IF d > M THEN 0 ELSE MaxServers * (1 + Worst[d + 1])]
    BY <1>4 DEF Worst
<1>. DEFINE Diff == {k \in 0..(M + 1) : Worst[M + 1 - k] # f[M + 1 - k]}
<1>6. Diff = {}
    <2>. SUFFICES ASSUME Diff # {} PROVE FALSE
        OBVIOUS
    <2>1. PICK k \in Diff : \A j \in Diff : k <= j
        <3>1. Diff \subseteq Nat
            OBVIOUS
        <3>. HIDE DEF Diff
        <3>. QED  BY <3>1, SmallestNumber
    <2>. DEFINE d == M + 1 - k
    <2>2. k \in 0..(M + 1) /\ d \in 0..(M + 1) /\ Worst[d] # f[d]
        OBVIOUS
    <2>3. d <= M => Worst[d + 1] = f[d + 1]
        <3>1. d <= M => k - 1 \in 0..(M + 1) /\ k - 1 \notin Diff /\ M + 1 - (k - 1) = d + 1
            <4>. HIDE DEF Diff
            <4>. QED  BY <2>1, <2>2
        <3>. QED  BY <3>1
    <2>4. Worst[d] = IF d > M THEN 0 ELSE MaxServers * (1 + Worst[d + 1])
        BY <1>5, <2>2
    <2>5. Eq(f, d)
        BY <1>3, <2>2
    <2>. QED  BY <2>2, <2>3, <2>4, <2>5
<1>7. ASSUME NEW d \in 0..(M + 1) PROVE Worst[d] = f[d]
    <2>1. M + 1 - d \in 0..(M + 1) /\ M + 1 - (M + 1 - d) = d
        OBVIOUS
    <2>2. M + 1 - d \notin Diff
        <3>. HIDE DEF Diff
        <3>. QED  BY <1>6
    <2>. QED  BY <2>1, <2>2
<1>8. Worst = f
    BY <1>3, <1>5, <1>7
<1>. QED  BY <1>3, <1>8

-----------------------------------------------------------------------------
(* The stack.                                                              *)

\* The innermost call and the calls below it.
LEMMA StackFacts ==
    ASSUME TypeOK, stack # << >>
    PROVE  /\ Len(stack) \in Nat \ {0} /\ Top \in Frame /\ stack[Len(stack)] = Top
           /\ Below \in Seq(Frame) /\ Len(Below) = Len(stack) - 1
           /\ \A i \in 1..(Len(stack) - 1) : Below[i] = stack[i] /\ stack[i] \in Frame
<1>1. stack \in Seq(Frame) /\ Len(stack) \in Nat \ {0}
    BY EmptySeq DEF TypeOK
<1>2. \A i \in 1..Len(stack) : stack[i] \in Frame
    BY <1>1, ElementOfSeq
<1>. DEFINE n == Len(stack) - 1
<1>3. Below \in Seq(Frame) /\ Len(Below) = n /\ \A i \in 1..n : Below[i] = stack[i]
    <2>1. n \in Nat /\ 1 \in Int /\ \A i \in 1..n : stack[i] \in Frame
        BY <1>1, <1>2
    <2>2. Below = SubSeq(stack, 1, n)
        BY DEF Below
    <2>. HIDE DEF n
    <2>3. /\ SubSeq(stack, 1, n) \in Seq(Frame)
          /\ Len(SubSeq(stack, 1, n)) = IF 1 <= n THEN n - 1 + 1 ELSE 0
          /\ \A i \in 1..(n - 1 + 1) : SubSeq(stack, 1, n)[i] = stack[1 + i - 1]
        BY <2>1, SubSeqProperties
    <2>. QED  BY <2>1, <2>2, <2>3
<1>. QED  BY <1>1, <1>2, <1>3 DEF Top

\* The innermost call goes on.
LEMMA SetTopFacts ==
    ASSUME TypeOK, stack # << >>, NEW f \in Frame, SetTop(f)
    PROVE  /\ stack' \in Seq(Frame) /\ Len(stack') = Len(stack) /\ stack'[Len(stack)] = f
           /\ \A i \in 1..(Len(stack) - 1) : stack'[i] = stack[i]
BY StackFacts DEF SetTop

\* The innermost call calls another.
LEMMA CallFacts ==
    ASSUME TypeOK, stack # << >>, NEW f \in Frame, NEW g \in Frame, Call(f, g)
    PROVE  /\ stack' \in Seq(Frame) /\ Len(stack') = Len(stack) + 1
           /\ stack'[Len(stack)] = f /\ stack'[Len(stack) + 1] = g
           /\ \A i \in 1..(Len(stack) - 1) : stack'[i] = stack[i]
<1>1. /\ Append(Below, f) \in Seq(Frame) /\ Len(Append(Below, f)) = Len(stack)
      /\ Append(Below, f)[Len(stack)] = f
      /\ \A i \in 1..(Len(stack) - 1) : Append(Below, f)[i] = stack[i]
    BY StackFacts
<1>2. stack' = Append(Append(Below, f), g) /\ Len(stack) \in Nat \ {0}
    BY StackFacts DEF Call
<1>. QED  BY <1>1, <1>2

\* The innermost call returns.
LEMMA ReturnFacts ==
    ASSUME TypeOK, stack # << >>, NEW rc, NEW msg, Return(rc, msg)
    PROVE  /\ stack' \in Seq(Frame) /\ Len(stack') = Len(stack) - 1
           /\ \A i \in 1..(Len(stack) - 1) : stack'[i] = stack[i]
           /\ ret' = [rc |-> rc, msg |-> msg]
BY StackFacts DEF Return

\* What the innermost call is like while it is at work, and the others always.
LEMMA ActiveFacts ==
    ASSUME TypeOK, Frames, Returns, Active
    PROVE  /\ stack # << >> /\ ret.rc = 1 /\ ret.msg = NoMsg
           /\ Top \in Frame /\ Top.resp = NoMsg /\ Top.at \in {"enter", "ask", "wait"}
           /\ Top.depth = Len(stack) - 1 /\ (Top.at = "enter" => Top.i = 1)
           /\ Top.at # "enter" => Top.depth <= MAX_RECURSION_DEPTH
           /\ Top.at = "wait" => Forwards(Top) \/ Top.i <= Top.count
<1>1. stack # << >> /\ ret.rc = 1 /\ ret.msg = NoMsg
    BY DEF Active, NoReturn
<1>2. Len(stack) \in 1..Len(stack) /\ Top \in Frame /\ stack[Len(stack)] = Top
    BY <1>1, StackFacts
<1>. QED  BY <1>1, <1>2 DEF Frames, FrameOK, Calling, Frame

\* What the caller is like when its callee has returned.
LEMMA ReturnedFacts ==
    ASSUME TypeOK, Frames, Returns, Returned
    PROVE  /\ stack # << >> /\ ret.rc \in {0, -1, -2, -3}
           /\ Top \in Frame /\ Top.resp \in Messages /\ Top.at \in Calling
           /\ Top.depth = Len(stack) - 1 /\ Top.depth <= MAX_RECURSION_DEPTH
           /\ ~Forwards(Top) /\ Top.i <= Top.count
<1>1. stack # << >> /\ ret.rc # 1
    <2>1. ret \in [rc : {1, 0, -1, -2, -3}, msg : Messages \cup {NoMsg}]
        BY DEF TypeOK
    <2>2. ret = [rc |-> ret.rc, msg |-> ret.msg]
        BY <2>1
    <2>. QED  BY <2>2 DEF Returned, NoReturn, Returns
<1>2. Len(stack) \in 1..Len(stack) /\ Top \in Frame /\ stack[Len(stack)] = Top
    BY <1>1, StackFacts
<1>. QED  BY <1>1, <1>2 DEF Frames, FrameOK, Calling, Frame, TypeOK

-----------------------------------------------------------------------------
(* Messages.                                                               *)

\* Who refers to a message.
LEMMA HeldFacts ==
    ASSUME TypeOK
    PROVE  \A m : m \in Held <=> /\ m # NoMsg
                                 /\ m = ret.msg \/ \E i \in 1..Len(stack) : stack[i].resp = m
<1>1. DOMAIN stack = 1..Len(stack)
    BY DEF TypeOK
<1>. QED  BY <1>1 DEF Held

\* There is a message left for a call at work to parse a response into: the calls below
\* it hold one each.
LEMMA FreshFacts ==
    ASSUME TypeOK, Frames, Returns, Active
    PROVE  Fresh \in Messages \ Held
<1>. USE ResolverAssumption
<1>. DEFINE n == Len(stack)
            M == MAX_RECURSION_DEPTH
<1>1. stack # << >> /\ n \in 1..(M + 2) /\ ret.msg = NoMsg
    <2>1. Top.depth = n - 1 /\ Top \in Frame /\ stack # << >> /\ ret.msg = NoMsg
        BY ActiveFacts
    <2>2. Top.depth \in 0..(M + 1) /\ n \in Nat \ {0}
        BY <2>1, StackFacts DEF Frame
    <2>. QED  BY <2>1, <2>2
<1>2. Messages \ Held # {}
    <2>. SUFFICES ASSUME Messages \subseteq Held PROVE FALSE
        OBVIOUS
    <2>. DEFINE g == [m \in Messages |-> CHOOSE i \in 1..n : stack[i].resp = m]
    <2>1. \A m \in Messages : m # NoMsg /\ \E i \in 1..n : stack[i].resp = m
        BY <1>1, HeldFacts
    <2>2. g \in [Messages -> 1..n] /\ \A m \in Messages : stack[g[m]].resp = m
        BY <2>1
    <2>3. /\ IsFiniteSet(Messages) /\ Cardinality(Messages) = M + 4
          /\ IsFiniteSet(1..n) /\ Cardinality(1..n) = n
        <3>1. M + 4 \in Nat /\ n \in Nat
            BY <1>1
        <3>2. \A k \in Nat : IsFiniteSet(1..k) /\ Cardinality(1..k) = k
            BY FS_Interval
        <3>. QED  BY <3>1, <3>2 DEF Messages
    <2>. HIDE DEF g
    <2>4. \E x, y \in Messages : x # y /\ g[x] = g[y]
        <3>. HIDE DEF n
        <3>. QED  BY <1>1, <2>2, <2>3, FS_PigeonHole
    <2>. QED  BY <2>2, <2>4
<1>3. Messages \ Held \subseteq Nat
    BY DEF Messages
<1>4. \E m \in Messages \ Held : \A k \in Messages \ Held : m <= k
    BY <1>2, <1>3, SmallestNumber
<1>. QED  BY <1>4 DEF Fresh

\* Two references to one message.
Distinct ==
    /\ \A i, j \in DOMAIN stack : stack[i].resp = stack[j].resp /\ i # j => stack[i].resp = NoMsg
    /\ \A i \in DOMAIN stack : stack[i].resp = ret.msg => ret.msg = NoMsg

\* Messages that are referred to are not free, and the others were freed or leaked in one
\* of two ways.
HeapOK(h, held) ==
    /\ \A m \in held : h[m] # Free
    /\ \A m \in Messages \ held : h[m].what \in {"free", "negative", "garbled"}

\* The parts of NoDangling and LeakOnlyNegative.
LEMMA MemoryParts ==
    NoDangling /\ LeakOnlyNegative <=> TypeOK /\ Distinct /\ HeapOK(heap, Held)
BY DEF NoDangling, LeakOnlyNegative, Distinct, HeapOK

-----------------------------------------------------------------------------
(* The three ways a step changes the stack.                                *)

\* The innermost call goes on, and holds no message.
LEMMA GoStep ==
    ASSUME TypeOK, Frames, Returns, Distinct, Active \/ Returned,
           NEW f \in Frame, SetTop(f), ret' = NoReturn, mode' = mode,
           f.depth = Top.depth, f.depth <= MAX_RECURSION_DEPTH,
           f.resp = NoMsg, f.at \in {"ask", "wait"},
           f.at = "wait" => Forwards(f) \/ f.i <= f.count
    PROVE  /\ stack' \in Seq(Frame) /\ stack' # << >> /\ Frames' /\ Distinct'
           /\ Held' = Held \ {Top.resp, ret.msg}
<1>. DEFINE n == Len(stack)
<1>1. stack # << >>
    BY DEF Active, Returned
<1>2. /\ stack' \in Seq(Frame) /\ Len(stack') = n /\ stack'[n] = f /\ n \in Nat \ {0}
      /\ \A i \in 1..(n - 1) : stack'[i] = stack[i]
      /\ Top \in Frame /\ stack[n] = Top /\ Top.depth = n - 1
    <2>1. Top.depth = n - 1
        BY ActiveFacts, ReturnedFacts
    <2>. QED  BY <1>1, <2>1, SetTopFacts, StackFacts
<1>3. DOMAIN stack = 1..n /\ DOMAIN stack' = 1..n
    BY <1>2 DEF TypeOK
<1>4. ret'.rc = 1 /\ ret'.msg = NoMsg
    BY DEF NoReturn
<1>. HIDE DEF n
<1>5. Frames'
    <2>. SUFFICES ASSUME NEW i \in 1..n
                  PROVE  FrameOK(stack'[i], i, Forwards(stack'[i]), i < n)
        BY <1>2, <1>4 DEF Frames, Forwards
    <2>1. CASE i = n
        BY <1>2, <2>1 DEF FrameOK, Calling
    <2>2. CASE i # n
        <3>1. i \in 1..(n - 1) /\ i < n
            BY <1>2, <2>2
        <3>. QED  BY <1>2, <3>1 DEF Frames, n
    <2>. QED  BY <2>1, <2>2
<1>6. Distinct'
    BY <1>2, <1>3, <1>4 DEF Distinct
<1>7. Held' = Held \ {Top.resp, ret.msg}
    <2>1. \A m : m \in Held <=> m # NoMsg /\ (m = ret.msg \/ \E i \in 1..n : stack[i].resp = m)
        BY HeldFacts DEF n
    <2>2. \A m : m \in Held' <=> m # NoMsg /\ \E i \in 1..n : stack'[i].resp = m
        BY <1>3, <1>4 DEF Held
    <2>3. \A i \in 1..(n - 1) : stack[i].resp \in {Top.resp, ret.msg} => stack[i].resp = NoMsg
        BY <1>2, <1>3 DEF Distinct
    <2>4. \A i \in 1..n : i = n \/ i \in 1..(n - 1)
        BY <1>2
    <2>. QED  BY <1>2, <2>1, <2>2, <2>3, <2>4
<1>. QED  BY <1>2, <1>5, <1>6, <1>7, EmptySeq

\* The innermost call calls another, and keeps a new message.
LEMMA CallStep ==
    ASSUME TypeOK, Frames, Returns, Distinct, Active,
           NEW f \in Frame, NEW g \in Frame, Call(f, g), ret' = ret, mode' = mode,
           f.depth = Top.depth, f.depth <= MAX_RECURSION_DEPTH,
           f.at \in Calling, ~Forwards(f), f.i <= f.count,
           f.resp \in Messages \ Held,
           g.depth = f.depth + 1, g.at = "enter", g.i = 1, g.resp = NoMsg
    PROVE  /\ stack' \in Seq(Frame) /\ stack' # << >> /\ Frames' /\ Distinct'
           /\ Held' = Held \cup {f.resp}
<1>. DEFINE n == Len(stack)
<1>1. stack # << >> /\ ret.msg = NoMsg /\ ret.rc = 1 /\ Top.resp = NoMsg
    BY ActiveFacts
<1>2. /\ stack' \in Seq(Frame) /\ Len(stack') = n + 1 /\ n \in Nat \ {0}
      /\ stack'[n] = f /\ stack'[n + 1] = g
      /\ \A i \in 1..(n - 1) : stack'[i] = stack[i]
      /\ Top \in Frame /\ stack[n] = Top /\ Top.depth = n - 1
    <2>1. Top.depth = n - 1
        BY ActiveFacts
    <2>. QED  BY <1>1, <2>1, CallFacts, StackFacts
<1>3. DOMAIN stack = 1..n /\ DOMAIN stack' = 1..(n + 1)
    BY <1>2 DEF TypeOK
<1>4. f.resp # NoMsg
    BY ResolverAssumption DEF Messages
<1>5. \A m : m \in Held <=> m # NoMsg /\ \E i \in 1..n : stack[i].resp = m
    BY <1>1, HeldFacts DEF n
<1>. HIDE DEF n
<1>6. \A i \in 1..(n + 1) : i = n \/ i = n + 1 \/ i \in 1..(n - 1)
    BY <1>2
<1>7. Frames'
    <2>. SUFFICES ASSUME NEW i \in 1..(n + 1)
                  PROVE  FrameOK(stack'[i], i, Forwards(stack'[i]), i < n + 1)
        BY <1>1, <1>2 DEF Frames, Forwards
    <2>1. CASE i = n
        BY <1>2, <1>4, <2>1 DEF FrameOK, Calling
    <2>2. CASE i = n + 1
        BY <1>2, <2>2 DEF FrameOK, Calling
    <2>3. CASE i \in 1..(n - 1)
        <3>1. i < n /\ i < n + 1 /\ i \in 1..n
            BY <1>2, <2>3
        <3>2. FrameOK(stack[i], i, Forwards(stack[i]), i < n)
            BY <1>1, <3>1 DEF Frames, n
        <3>. QED  BY <1>2, <2>3, <3>1, <3>2 DEF FrameOK
    <2>. QED  BY <1>6, <2>1, <2>2, <2>3
<1>8. \A i \in 1..n : stack[i].resp # f.resp
    BY <1>4, <1>5
<1>9. Distinct'
    BY <1>1, <1>2, <1>3, <1>4, <1>6, <1>8 DEF Distinct
<1>10. Held' = Held \cup {f.resp}
    <2>1. \A m : m \in Held' <=> m # NoMsg /\ \E i \in 1..(n + 1) : stack'[i].resp = m
        BY <1>1, <1>3 DEF Held
    <2>2. \A i \in 1..n : i = n \/ i \in 1..(n - 1)
        BY <1>2
    <2>3. n \in 1..(n + 1) /\ \A i \in 1..(n - 1) : i \in 1..(n + 1) /\ i \in 1..n
        BY <1>2
    <2>. QED  BY <1>1, <1>2, <1>4, <1>5, <1>6, <2>1, <2>2, <2>3, SMTT(30)
<1>. QED  BY <1>2, <1>7, <1>9, <1>10, EmptySeq

\* The innermost call returns, with no message, a new one, or the one it was returned.
LEMMA ReturnStep ==
    ASSUME TypeOK, Frames, Returns, Distinct, Active \/ Returned,
           NEW rc \in {0, -1, -2, -3}, NEW msg, Return(rc, msg), mode' = mode,
           msg \in {NoMsg, ret.msg} \/ msg \in Messages \ Held
    PROVE  /\ stack' \in Seq(Frame) /\ Frames' /\ Distinct'
           /\ ret'.rc = rc /\ ret'.msg = msg
           /\ Held' = (Held \ {Top.resp, ret.msg}) \cup ({msg} \ {NoMsg})
<1>. DEFINE n == Len(stack)
<1>1. stack # << >>
    BY DEF Active, Returned
<1>2. /\ stack' \in Seq(Frame) /\ Len(stack') = n - 1 /\ n \in Nat \ {0}
      /\ \A i \in 1..(n - 1) : stack'[i] = stack[i]
      /\ Top \in Frame /\ stack[n] = Top
      /\ ret'.rc = rc /\ ret'.msg = msg /\ rc # 1
    BY <1>1, ReturnFacts, StackFacts
<1>3. DOMAIN stack = 1..n /\ DOMAIN stack' = 1..(n - 1)
    BY <1>2 DEF TypeOK
<1>4. \A m : m \in Held <=> m # NoMsg /\ (m = ret.msg \/ \E i \in 1..n : stack[i].resp = m)
    BY HeldFacts DEF n
<1>. HIDE DEF n
<1>5. \A i \in 1..n : i = n \/ i \in 1..(n - 1)
    BY <1>2
<1>6. \A i \in 1..(n - 1) : i \in 1..n /\ i < n /\ i # n
    BY <1>2
<1>7. Frames'
    <2>. SUFFICES ASSUME NEW i \in 1..(n - 1)
                  PROVE  FrameOK(stack'[i], i, Forwards(stack'[i]), TRUE)
        BY <1>2 DEF Frames, Forwards
    <2>1. FrameOK(stack[i], i, Forwards(stack[i]), i < n \/ ret.rc # 1)
        BY <1>6 DEF Frames, n
    <2>. QED  BY <1>2, <1>6, <2>1 DEF FrameOK
<1>8. \A i \in 1..(n - 1) : stack[i].resp = msg => msg = NoMsg
    <2>1. CASE msg \in {NoMsg, ret.msg}
        BY <1>3, <1>6, <2>1 DEF Distinct
    <2>2. CASE msg \in Messages \ Held
        BY <1>4, <1>6, <2>2
    <2>. QED  BY <2>1, <2>2
<1>9. Distinct'
    BY <1>2, <1>3, <1>6, <1>8 DEF Distinct
<1>10. Held' = (Held \ {Top.resp, ret.msg}) \cup ({msg} \ {NoMsg})
    <2>1. \A m : m \in Held' <=>
                 m # NoMsg /\ (m = msg \/ \E i \in 1..(n - 1) : stack'[i].resp = m)
        BY <1>2, <1>3 DEF Held
    <2>2. \A i \in 1..(n - 1) : stack[i].resp \in {Top.resp, ret.msg} => stack[i].resp = NoMsg
        BY <1>2, <1>3, <1>6 DEF Distinct
    <2>. QED  BY <1>2, <1>4, <1>5, <1>6, <2>1, <2>2
<1>. QED  BY <1>2, <1>7, <1>9, <1>10

-----------------------------------------------------------------------------
(* What each change of the stack does to the bound on the work.            *)

\* A product grows with its first factor.
LEMMA Products ==
    ASSUME NEW a \in Int, NEW b \in Nat
    PROVE  /\ a * b \in Int
           /\ a >= 0 => a * b \in Nat
           /\ (a + 1) * b = a * b + b
           /\ \A c \in Int : a <= c => a * b <= c * b
<1>1. \A c \in Int : a <= c => a * b <= c * b
    <2>. SUFFICES ASSUME NEW c \in Int, a <= c PROVE a * b <= c * b
        OBVIOUS
    <2>1. c - a \in Nat /\ (c - a) * b \in Nat
        OBVIOUS
    <2>2. c * b = a * b + (c - a) * b
        OBVIOUS
    <2>. QED  BY <2>1, <2>2
<1>. QED  BY <1>1

\* The numbers that Remaining is made of.
LEMMA RemainingFacts ==
    ASSUME NEW f \in Frame, NEW alone \in BOOLEAN,
           f.at # "enter" => f.depth <= MAX_RECURSION_DEPTH
    PROVE  LET each == 1 + Worst[f.depth + 1]
           IN  /\ f.at = "enter" => Remaining(f, alone) = Worst[f.depth] /\ Worst[f.depth] \in Nat
               /\ f.at # "enter" => /\ each \in Nat \ {0}
                                    /\ Worst[f.depth] = MaxServers * each
                                    /\ (f.count - f.i) * each \in Int
                                    /\ (f.count - f.i + 1) * each = (f.count - f.i) * each + each
                                    /\ (f.count - f.i + 1) * each <= MaxServers * each
                                    /\ f.i <= f.count => (f.count - f.i) * each >= 0
               /\ Remaining(f, alone) \in Int
<1>. USE ResolverAssumption
<1>. DEFINE d    == f.depth
            each == 1 + Worst[d + 1]
            a    == f.count - f.i
<1>1. /\ d \in 0..(MAX_RECURSION_DEPTH + 1) /\ f.count \in 0..MaxServers
      /\ f.i \in 1..(MaxServers + 1) /\ f.at \in {"enter", "ask", "wait", "alias", "referral"}
    BY DEF Frame
<1>2. CASE f.at = "enter"
    <2>1. Remaining(f, alone) = Worst[d]
        BY <1>2 DEF Remaining, Calling
    <2>2. Worst[d] \in Nat
        <3>. HIDE DEF d
        <3>. QED  BY <1>1, WorstFacts
    <2>. QED  BY <1>2, <2>1, <2>2
<1>3. CASE f.at # "enter"
    <2>1. each \in Nat \ {0} /\ Worst[d] = MaxServers * each
        <3>1. d \in 0..MAX_RECURSION_DEPTH /\ d + 1 \in 0..(MAX_RECURSION_DEPTH + 1)
            BY <1>1, <1>3
        <3>. HIDE DEF d
        <3>. QED  BY <3>1, WorstFacts
    <2>2. a \in Int /\ a + 1 <= MaxServers /\ (f.i <= f.count => a >= 0) /\ MaxServers \in Int
        BY <1>1
    <2>3. Remaining(f, alone) \in {1, 0, (a + 1) * each, a * each + each - 1, a * each}
        BY <1>1, <1>3 DEF Remaining, Calling
    <2>. HIDE DEF each, a, d
    <2>4. /\ a * each \in Int /\ (a >= 0 => a * each \in Nat)
          /\ (a + 1) * each = a * each + each
        BY <2>1, <2>2, Products
    <2>5. (a + 1) * each <= MaxServers * each
        BY <2>1, <2>2, Products
    <2>6. Remaining(f, alone) \in Int
        BY <2>1, <2>3, <2>4
    <2>. QED  BY <1>3, <2>1, <2>2, <2>4, <2>5, <2>6 DEF a, each, d
<1>. QED  BY <1>2, <1>3

\* The last of n calls goes on, perhaps with a question of its own (k = 1).
LEMMA TotalsGo ==
    ASSUME NEW n \in Nat \ {0}, NEW s \in Nat, NEW k \in {0, 1}, NEW c, NEW d, NEW total,
           Totals(total, n, s, c), d[n] \in Nat, d[n] + k <= c[n],
           \A i \in 1..(n - 1) : d[i] = c[i]
    PROVE  \E new : Totals(new, n, s + k, d)
<1>. DEFINE W   == Worst[0]
            new == [i \in 0..n |-> IF i < n THEN total[i] + k ELSE total[n - 1] + k + d[n]]
<1>1. W \in Nat
    BY WorstFacts, ResolverAssumption
<1>2. /\ total \in [0..n -> 0..W] /\ total[0] = s
      /\ \A i \in 1..n : c[i] \in Nat /\ total[i] = total[i - 1] + c[i]
      /\ \A i, j \in 0..n : i <= j => total[i] <= total[j]
    BY DEF Totals
<1>. HIDE DEF W
<1>3. n - 1 \in 0..n /\ n \in 0..n /\ \A i \in 0..(n - 1) : i \in 0..n /\ i <= n - 1
    OBVIOUS
<1>4. /\ c[n] \in Nat /\ total[n] = total[n - 1] + c[n]
      /\ total[n] \in 0..W /\ total[n - 1] \in 0..W
    BY <1>2, <1>3
<1>5. \A i \in 0..(n - 1) : total[i] \in Nat /\ total[i] <= total[n - 1]
    BY <1>1, <1>2, <1>3
<1>6. \A i \in 0..(n - 1) : total[i] + k \in 0..W
    BY <1>1, <1>4, <1>5
<1>7. total[n - 1] + k + d[n] \in 0..W
    BY <1>1, <1>4
<1>8. new \in [0..n -> 0..W]
    <2>1. \A i \in 0..n : i < n => i \in 0..(n - 1)
        OBVIOUS
    <2>. QED  BY <1>6, <1>7, <2>1
<1>9. new[0] = s + k
    BY <1>2
<1>10. new[n] = total[n - 1] + k + d[n] /\ \A i \in 0..(n - 1) : new[i] = total[i] + k
    BY <1>3
<1>. HIDE DEF new
<1>11. ASSUME NEW i \in 1..n PROVE d[i] \in Nat /\ new[i] = new[i - 1] + d[i]
    <2>1. CASE i = n
        BY <1>4, <1>10, <2>1
    <2>2. CASE i # n
        <3>1. i \in 1..(n - 1) /\ i \in 0..(n - 1) /\ i - 1 \in 0..(n - 1) /\ i \in 1..n
            BY <2>2
        <3>2. d[i] \in Nat /\ total[i] = total[i - 1] + d[i] /\ total[i] \in Nat /\ total[i - 1] \in Nat
            BY <1>2, <1>5, <3>1
        <3>3. new[i] = total[i] + k /\ new[i - 1] = total[i - 1] + k
            BY <1>10, <3>1
        <3>. QED  BY <3>2, <3>3
    <2>. QED  BY <2>1, <2>2
<1>12. ASSUME NEW i \in 0..n, NEW j \in 0..n, i <= j PROVE new[i] <= new[j]
    <2>1. CASE j < n
        <3>1. i \in 0..(n - 1) /\ j \in 0..(n - 1)
            BY <1>12, <2>1
        <3>. QED  BY <1>2, <1>5, <1>10, <1>12, <3>1
    <2>2. CASE j = n /\ i < n
        <3>1. i \in 0..(n - 1)
            BY <2>2
        <3>. QED  BY <1>4, <1>5, <1>10, <2>2, <3>1
    <2>3. CASE j = n /\ i = n
        BY <1>1, <1>8, <2>3
    <2>. QED  BY <1>12, <2>1, <2>2, <2>3
<1>13. Totals(new, n, s + k, d)
    BY <1>8, <1>9, <1>11, <1>12 DEF Totals, W
<1>. QED  BY <1>13

\* The last of n calls calls another, which takes its share from what was left.
LEMMA TotalsCall ==
    ASSUME NEW n \in Nat \ {0}, NEW s \in Nat, NEW c, NEW d, NEW total,
           Totals(total, n, s, c), d[n] \in Nat, d[n + 1] \in Nat,
           d[n] + d[n + 1] <= c[n],
           \A i \in 1..(n - 1) : d[i] = c[i]
    PROVE  \E new : Totals(new, n + 1, s, d)
<1>. DEFINE W   == Worst[0]
            x   == total[n - 1] + d[n]
            y   == total[n - 1] + d[n] + d[n + 1]
            new == [i \in 0..(n + 1) |-> IF i < n THEN total[i] ELSE IF i = n THEN x ELSE y]
<1>1. W \in Nat
    BY WorstFacts, ResolverAssumption
<1>2. /\ total \in [0..n -> 0..W] /\ total[0] = s
      /\ \A i \in 1..n : c[i] \in Nat /\ total[i] = total[i - 1] + c[i]
      /\ \A i, j \in 0..n : i <= j => total[i] <= total[j]
    BY DEF Totals
<1>. HIDE DEF W
<1>3. n - 1 \in 0..n /\ n \in 0..n /\ \A i \in 0..(n - 1) : i \in 0..n /\ i <= n - 1
    OBVIOUS
<1>4. /\ c[n] \in Nat /\ total[n] = total[n - 1] + c[n]
      /\ total[n] \in 0..W /\ total[n - 1] \in 0..W
    BY <1>2, <1>3
<1>5. \A i \in 0..(n - 1) : total[i] \in 0..W /\ total[i] <= total[n - 1]
    BY <1>1, <1>2, <1>3
<1>6. x \in 0..W /\ y \in 0..W /\ x = total[n - 1] + d[n] /\ y = x + d[n + 1] /\ x <= y
    BY <1>1, <1>4
<1>. HIDE DEF x, y
<1>7. \A i \in 0..(n + 1) : i \in 0..(n - 1) \/ i = n \/ i = n + 1
    OBVIOUS
<1>8. new \in [0..(n + 1) -> 0..W]
    <2>1. \A i \in 0..(n + 1) : i < n => i \in 0..(n - 1)
        OBVIOUS
    <2>. QED  BY <1>5, <1>6, <2>1
<1>9. new[n] = x /\ new[n + 1] = y /\ \A i \in 0..(n - 1) : new[i] = total[i]
    OBVIOUS
<1>. HIDE DEF new
<1>10. ASSUME NEW i \in 1..(n + 1) PROVE d[i] \in Nat /\ new[i] = new[i - 1] + d[i]
    <2>1. CASE i = n
        BY <1>6, <1>9, <2>1
    <2>2. CASE i = n + 1
        BY <1>6, <1>9, <2>2
    <2>3. CASE i \in 1..(n - 1)
        <3>1. i \in 0..(n - 1) /\ i - 1 \in 0..(n - 1) /\ i \in 1..n
            BY <2>3
        <3>2. d[i] \in Nat /\ total[i] = total[i - 1] + d[i]
            BY <1>2, <2>3, <3>1
        <3>. QED  BY <1>9, <3>1, <3>2
    <2>. QED  BY <2>1, <2>2, <2>3
<1>11. ASSUME NEW i \in 0..(n + 1), NEW j \in 0..(n + 1), i <= j PROVE new[i] <= new[j]
    <2>1. CASE j \in 0..(n - 1)
        <3>1. i \in 0..(n - 1) /\ i \in 0..n /\ j \in 0..n
            BY <1>11, <2>1
        <3>. QED  BY <1>2, <1>9, <1>11, <2>1, <3>1
    <2>2. CASE j \in {n, n + 1} /\ i \in 0..(n - 1)
        BY <1>4, <1>5, <1>6, <1>9, <2>2
    <2>3. CASE j \in {n, n + 1} /\ i \in {n, n + 1}
        BY <1>6, <1>9, <1>11, <2>3
    <2>. QED  BY <1>7, <2>1, <2>2, <2>3
<1>12. Totals(new, n + 1, s, d)
    BY <1>2, <1>8, <1>9, <1>10, <1>11 DEF Totals, W
<1>. QED  BY <1>12

\* The last of n calls returns.
LEMMA TotalsReturn ==
    ASSUME NEW n \in Nat \ {0}, NEW s \in Nat, NEW c, NEW d, NEW total,
           Totals(total, n, s, c), \A i \in 1..(n - 1) : d[i] = c[i]
    PROVE  \E new : Totals(new, n - 1, s, d)
<1>. DEFINE new == [i \in 0..(n - 1) |-> total[i]]
<1>1. \A i \in 0..(n - 1) : i \in 0..n
    OBVIOUS
<1>2. \A i \in 1..(n - 1) : i \in 1..n /\ i \in 0..(n - 1) /\ i - 1 \in 0..(n - 1)
    OBVIOUS
<1>3. \A i \in 1..(n - 1) : d[i] \in Nat /\ new[i] = new[i - 1] + d[i]
    BY <1>2 DEF Totals
<1>4. new \in [0..(n - 1) -> 0..Worst[0]] /\ new[0] = s
    BY <1>1 DEF Totals
<1>5. \A i, j \in 0..(n - 1) : i <= j => new[i] <= new[j]
    BY <1>1 DEF Totals
<1>6. Totals(new, n - 1, s, d)
    <2>. HIDE DEF new
    <2>. QED  BY <1>3, <1>4, <1>5 DEF Totals
<1>. QED  BY <1>6

\* The totals of the stack: what the innermost call sends comes out of its share.
LEMMA BudgetGo ==
    ASSUME TypeOK, Budget, stack # << >>,
           NEW f \in Frame, SetTop(f), mode' = mode,
           NEW k \in {0, 1}, sent' = sent + k,
           Remaining(f, Forwards(f)) \in Nat,
           Remaining(f, Forwards(f)) + k <= Remaining(Top, Forwards(Top))
    PROVE  Budget'
<1>. DEFINE n == Len(stack)
<1>1. /\ Len(stack') = n /\ stack'[n] = f /\ n \in Nat \ {0} /\ stack[n] = Top
      /\ \A i \in 1..(n - 1) : stack'[i] = stack[i]
    BY SetTopFacts, StackFacts
<1>2. PICK total : Totals(total, n, sent, Costs)
    BY DEF Budget
<1>3. Costs' = [i \in 1..n |-> Remaining(stack'[i], Forwards(stack'[i]))]
    BY <1>1 DEF Costs, Forwards
<1>4. Costs = [i \in 1..n |-> Remaining(stack[i], Forwards(stack[i]))]
    BY DEF Costs
<1>. HIDE DEF n
<1>5. /\ Costs[n] = Remaining(Top, Forwards(Top)) /\ Costs'[n] = Remaining(f, Forwards(f))
      /\ \A i \in 1..(n - 1) : Costs'[i] = Costs[i]
    BY <1>1, <1>3, <1>4
<1>6. sent \in Nat
    BY DEF TypeOK
<1>7. \E new : Totals(new, n, sent + k, Costs')
    BY <1>1, <1>2, <1>5, <1>6, TotalsGo
<1>. QED  BY <1>1, <1>7 DEF Budget

\* A callee's share is taken from its caller's.
LEMMA BudgetCall ==
    ASSUME TypeOK, Budget, stack # << >>,
           NEW f \in Frame, NEW g \in Frame, Call(f, g), mode' = mode, sent' = sent,
           Remaining(f, Forwards(f)) \in Nat, Remaining(g, Forwards(g)) \in Nat,
           Remaining(f, Forwards(f)) + Remaining(g, Forwards(g)) <= Remaining(Top, Forwards(Top))
    PROVE  Budget'
<1>. DEFINE n == Len(stack)
<1>1. /\ Len(stack') = n + 1 /\ stack'[n] = f /\ stack'[n + 1] = g
      /\ n \in Nat \ {0} /\ stack[n] = Top
      /\ \A i \in 1..(n - 1) : stack'[i] = stack[i]
    BY CallFacts, StackFacts
<1>2. PICK total : Totals(total, n, sent, Costs)
    BY DEF Budget
<1>3. Costs' = [i \in 1..(n + 1) |-> Remaining(stack'[i], Forwards(stack'[i]))]
    BY <1>1 DEF Costs, Forwards
<1>4. Costs = [i \in 1..n |-> Remaining(stack[i], Forwards(stack[i]))]
    BY DEF Costs
<1>. HIDE DEF n
<1>5. /\ Costs[n] = Remaining(Top, Forwards(Top))
      /\ Costs'[n] = Remaining(f, Forwards(f)) /\ Costs'[n + 1] = Remaining(g, Forwards(g))
      /\ \A i \in 1..(n - 1) : Costs'[i] = Costs[i]
    BY <1>1, <1>3, <1>4
<1>6. sent \in Nat
    BY DEF TypeOK
<1>7. \E new : Totals(new, n + 1, sent, Costs')
    BY <1>1, <1>2, <1>5, <1>6, TotalsCall
<1>. QED  BY <1>1, <1>7 DEF Budget

\* A call that returns leaves its share unused.
LEMMA BudgetReturn ==
    ASSUME TypeOK, Budget, stack # << >>,
           NEW rc, NEW msg, Return(rc, msg), mode' = mode, sent' = sent
    PROVE  Budget'
<1>. DEFINE n == Len(stack)
<1>1. /\ Len(stack') = n - 1 /\ n \in Nat \ {0}
      /\ \A i \in 1..(n - 1) : stack'[i] = stack[i]
    BY ReturnFacts, StackFacts
<1>2. PICK total : Totals(total, n, sent, Costs)
    BY DEF Budget
<1>3. Costs' = [i \in 1..(n - 1) |-> Remaining(stack'[i], Forwards(stack'[i]))]
    BY <1>1 DEF Costs, Forwards
<1>4. Costs = [i \in 1..n |-> Remaining(stack[i], Forwards(stack[i]))]
    BY DEF Costs
<1>. HIDE DEF n
<1>5. \A i \in 1..(n - 1) : Costs'[i] = Costs[i]
    BY <1>1, <1>3, <1>4
<1>6. sent \in Nat
    BY DEF TypeOK
<1>7. \E new : Totals(new, n - 1, sent, Costs')
    BY <1>1, <1>2, <1>5, <1>6, TotalsReturn
<1>. QED  BY <1>1, <1>7 DEF Budget

-----------------------------------------------------------------------------
(* What is left to show of a step, for each of the three ways.             *)

\* Types of what is not on the stack.
RestOK ==
    /\ mode \in Modes /\ heap \in [Messages -> Message \cup {Free}]
    /\ cached \in [Names -> Names \cup {NoName}]
    /\ port \in Ports \cup {0} /\ late \subseteq [port : Ports, q : Names]
    /\ query \in Names \cup {NoName} /\ sent \in Nat /\ kept \in BOOLEAN
    /\ excuse \subseteq Excuses /\ mixed \subseteq Names

\* The innermost call goes on with no message of its own.
LEMMA GoPreserves ==
    ASSUME IInv, Active \/ Returned,
           NEW f \in Frame, SetTop(f), ret' = NoReturn,
           f.name = Top.name, f.depth = Top.depth, f.depth <= MAX_RECURSION_DEPTH,
           f.resp = NoMsg, f.at \in {"ask", "wait"},
           f.at = "wait" => port' \in Ports /\ (Forwards(f) \/ f.i <= f.count),
           RestOK', HeapOK(heap', Held \ {Top.resp, ret.msg}),
           mode' = mode, query' = query, excuse' = excuse, cached' = cached, mixed \subseteq mixed',
           NEW k \in {0, 1}, sent' = sent + k,
           Remaining(f, Forwards(f)) \in Nat,
           Remaining(f, Forwards(f)) + k <= Remaining(Top, Forwards(Top))
    PROVE  IInv'
<1>1. TypeOK /\ Distinct /\ Frames /\ Returns /\ stack # << >>
    BY MemoryParts DEF IInv, Active, Returned
<1>2. /\ stack' \in Seq(Frame) /\ stack' # << >> /\ Frames' /\ Distinct'
      /\ Held' = Held \ {Top.resp, ret.msg}
    BY <1>1, GoStep
<1>3. /\ Len(stack') = Len(stack) /\ stack'[Len(stack)] = f
      /\ \A i \in 1..(Len(stack) - 1) : stack'[i] = stack[i]
      /\ Len(stack) \in Nat \ {0} /\ stack[Len(stack)] = Top
    BY <1>1, SetTopFacts, StackFacts
<1>4. ret'.rc = 1 /\ ret'.msg = NoMsg /\ ret' \in [rc : {1, 0, -1, -2, -3}, msg : Messages \cup {NoMsg}]
    BY DEF NoReturn
<1>5. NoDangling' /\ LeakOnlyNegative'
    <2>1. TypeOK'
        BY <1>2, <1>4 DEF TypeOK, RestOK
    <2>. QED  BY <1>2, <2>1 DEF NoDangling, LeakOnlyNegative, Distinct, HeapOK
<1>6. Waiting'
    BY <1>3 DEF Waiting, Waits, Top
<1>7. Returns' /\ Returning'
    BY <1>4 DEF Returns, Returning, IInv
<1>8. Asked'
    <2>1. \A i \in 1..Len(stack) : stack'[i].name = stack[i].name
        BY <1>3
    <2>. QED  BY <1>2, <1>3, <2>1 DEF Asked, IInv
<1>9. Budget'
    BY <1>1, BudgetGo DEF IInv
<1>. QED  BY <1>2, <1>5, <1>6, <1>7, <1>8, <1>9 DEF IInv

\* The innermost call calls another and keeps a new message.
LEMMA CallPreserves ==
    ASSUME IInv, Active,
           NEW f \in Frame, NEW g \in Frame, Call(f, g), ret' = ret,
           f.name = Top.name, f.depth = Top.depth, f.depth <= MAX_RECURSION_DEPTH,
           f.at \in Calling, ~Forwards(f), f.i <= f.count, f.resp \in Messages \ Held,
           g.depth = f.depth + 1, g.at = "enter", g.i = 1, g.resp = NoMsg,
           "alias" \notin excuse' => g.name = Top.name,
           RestOK', HeapOK(heap', Held \cup {f.resp}),
           mode' = mode, query' = query, excuse \subseteq excuse', cached' = cached,
           mixed \subseteq mixed', sent' = sent,
           Remaining(f, Forwards(f)) \in Nat, Remaining(g, Forwards(g)) \in Nat,
           Remaining(f, Forwards(f)) + Remaining(g, Forwards(g)) <= Remaining(Top, Forwards(Top))
    PROVE  IInv'
<1>1. TypeOK /\ Distinct /\ Frames /\ Returns /\ stack # << >>
    BY MemoryParts DEF IInv, Active
<1>2. /\ stack' \in Seq(Frame) /\ stack' # << >> /\ Frames' /\ Distinct'
      /\ Held' = Held \cup {f.resp}
    BY <1>1, CallStep
<1>3. /\ Len(stack') = Len(stack) + 1 /\ stack'[Len(stack)] = f /\ stack'[Len(stack) + 1] = g
      /\ \A i \in 1..(Len(stack) - 1) : stack'[i] = stack[i]
      /\ Len(stack) \in Nat \ {0} /\ stack[Len(stack)] = Top
    BY <1>1, CallFacts, StackFacts
<1>4. ret.rc = 1 /\ ret.msg = NoMsg /\ ret \in [rc : {1, 0, -1, -2, -3}, msg : Messages \cup {NoMsg}]
    BY <1>1, ActiveFacts DEF TypeOK
<1>5. NoDangling' /\ LeakOnlyNegative'
    <2>1. TypeOK'
        BY <1>2, <1>4 DEF TypeOK, RestOK
    <2>. QED  BY <1>2, <2>1 DEF NoDangling, LeakOnlyNegative, Distinct, HeapOK
<1>6. Waiting'
    BY <1>3 DEF Waiting, Waits, Top
<1>7. Returns' /\ Returning'
    BY <1>4 DEF Returns, Returning, IInv
<1>8. Asked'
    <2>. SUFFICES ASSUME "alias" \notin excuse', NEW i \in 1..(Len(stack) + 1)
                  PROVE  stack'[i].name = query
        BY <1>2, <1>3 DEF Asked
    <2>1. \A j \in 1..Len(stack) : stack[j].name = query
        BY DEF Asked, IInv
    <2>2. Top.name = query
        BY <1>3, <2>1
    <2>. QED  BY <1>3, <2>1, <2>2
<1>9. Budget'
    BY <1>1, BudgetCall DEF IInv
<1>. QED  BY <1>2, <1>5, <1>6, <1>7, <1>8, <1>9 DEF IInv

\* The innermost call returns.
LEMMA ReturnPreserves ==
    ASSUME IInv, Active \/ Returned,
           NEW rc \in {0, -1, -2, -3}, NEW msg \in Messages \cup {NoMsg}, Return(rc, msg),
           msg \in {NoMsg, ret.msg} \/ msg \in Messages \ Held,
           rc \in {-1, -2} => msg = NoMsg,
           rc = 0 => msg # NoMsg,
           rc = -3 => msg = NoMsg \/ heap'[msg].what = "negative",
           RestOK', HeapOK(heap', (Held \ {Top.resp, ret.msg}) \cup ({msg} \ {NoMsg})),
           mode' = mode, query' = query, excuse \subseteq excuse', sent' = sent,
           rc = 0 /\ query \notin mixed' /\ "alias" \notin excuse' => heap'[msg].q = query,
           \A n \in Names \ mixed' : cached'[n] \in {n, NoName},
           rc \in {0, -3} => kept' \/ excuse' # {}
    PROVE  IInv'
<1>1. TypeOK /\ Distinct /\ Frames /\ Returns /\ stack # << >>
    BY MemoryParts DEF IInv, Active, Returned
<1>2. /\ stack' \in Seq(Frame) /\ Frames' /\ Distinct' /\ ret'.rc = rc /\ ret'.msg = msg
      /\ Held' = (Held \ {Top.resp, ret.msg}) \cup ({msg} \ {NoMsg})
    BY <1>1, ReturnStep
<1>3. /\ Len(stack') = Len(stack) - 1
      /\ \A i \in 1..(Len(stack) - 1) : stack'[i] = stack[i]
      /\ Len(stack) \in Nat \ {0} /\ ret' = [rc |-> rc, msg |-> msg]
    BY <1>1, ReturnFacts, StackFacts
<1>4. NoDangling' /\ LeakOnlyNegative'
    <2>1. TypeOK'
        BY <1>2, <1>3 DEF TypeOK, RestOK
    <2>. QED  BY <1>2, <2>1 DEF NoDangling, LeakOnlyNegative, Distinct, HeapOK
<1>5. Waiting' /\ Returns' /\ Returning'
    BY <1>2 DEF Waiting, Waits, Active, NoReturn, Returns, Returning
<1>6. Asked'
    BY <1>2, <1>3 DEF Asked, IInv
<1>7. Budget'
    BY <1>1, BudgetReturn DEF IInv
<1>. QED  BY <1>2, <1>4, <1>5, <1>6, <1>7 DEF IInv

-----------------------------------------------------------------------------
(* The steps.                                                              *)

\* What every step of a call at work starts from.
LEMMA AtWork ==
    ASSUME IInv, Active
    PROVE  /\ TypeOK /\ RestOK /\ Frames /\ Returns /\ Distinct /\ HeapOK(heap, Held)
           /\ stack # << >> /\ ret = NoReturn /\ ret.rc = 1 /\ ret.msg = NoMsg
           /\ Top \in Frame /\ Top.resp = NoMsg /\ Top.at \in {"enter", "ask", "wait"}
           /\ Top.name \in Names /\ Top.depth \in 0..(MAX_RECURSION_DEPTH + 1)
           /\ Top.count \in 0..MaxServers /\ Top.i \in 1..(MaxServers + 1)
           /\ Top.at = "enter" => Top.i = 1
           /\ Top.at # "enter" => Top.depth <= MAX_RECURSION_DEPTH
           /\ Top.at = "wait" => port \in Ports /\ (Forwards(Top) \/ Top.i <= Top.count)
           /\ "alias" \notin excuse => Top.name = query
           /\ Held \ {Top.resp, ret.msg} = Held
           /\ Fresh \in Messages \ Held /\ Fresh # NoMsg
<1>1. TypeOK /\ RestOK /\ Frames /\ Returns /\ Distinct /\ HeapOK(heap, Held)
    BY MemoryParts DEF IInv, TypeOK, RestOK
<1>2. /\ stack # << >> /\ ret = NoReturn /\ ret.rc = 1 /\ ret.msg = NoMsg
      /\ Top \in Frame /\ Top.resp = NoMsg /\ Top.at \in {"enter", "ask", "wait"}
      /\ Top.at = "enter" => Top.i = 1
      /\ Top.at # "enter" => Top.depth <= MAX_RECURSION_DEPTH
      /\ Top.at = "wait" => Forwards(Top) \/ Top.i <= Top.count
    BY <1>1, ActiveFacts DEF Active
<1>3. /\ Top.name \in Names /\ Top.depth \in 0..(MAX_RECURSION_DEPTH + 1)
      /\ Top.count \in 0..MaxServers /\ Top.i \in 1..(MaxServers + 1)
    BY <1>2 DEF Frame
<1>4. Top.at = "wait" => port \in Ports
    BY DEF IInv, Waiting, Waits
<1>5. "alias" \notin excuse => Top.name = query
    BY <1>1, <1>2, StackFacts DEF IInv, Asked
<1>6. NoMsg \notin Held
    BY DEF Held
<1>7. Fresh \in Messages \ Held /\ Fresh # NoMsg
    BY <1>1, FreshFacts, ResolverAssumption DEF Messages
<1>. QED  BY <1>1, <1>2, <1>3, <1>4, <1>5, <1>6, <1>7

\* A message is parsed into a place nobody refers to.
LEMMA ParseFacts ==
    ASSUME RestOK, HeapOK(heap, Held), NEW m \in Messages \ Held, NEW v \in Message,
           heap' = [heap EXCEPT ![m] = v]
    PROVE  /\ heap' \in [Messages -> Message \cup {Free}]
           /\ heap'[m] = v
           /\ HeapOK(heap', Held \cup {m})
           /\ v.what \in {"negative", "garbled"} => HeapOK(heap', Held)
<1>1. heap \in [Messages -> Message \cup {Free}] /\ v # Free
    BY DEF RestOK, Message, Free
<1>. QED  BY <1>1 DEF HeapOK

\* recvfrom: the answer belongs to the question, or mixed says that it may not.
LEMMA ReceivedFacts ==
    ASSUME RestOK, port \in Ports, Top.name \in Names, NEW q \in Names, Received(q)
    PROVE  /\ late' \subseteq [port : Ports, q : Names]
           /\ mixed' \subseteq Names /\ (mixed \subseteq mixed') /\ (Top.name \notin mixed' => q = Top.name)
<1>1. mixed \subseteq Names /\ late \subseteq [port : Ports, q : Names]
    BY DEF RestOK
<1>2. CASE q = Top.name /\ UNCHANGED <<late, mixed>>
    BY <1>1, <1>2
<1>3. CASE /\ \E early \in {{}, {[port |-> port, q |-> q]} \cap late},
                  own \in {{}, {[port |-> port, q |-> Top.name]}} :
                  late' = (late \ early) \cup own
           /\ mixed' = mixed \cup {Top.name}
    <2>1. [port |-> port, q |-> Top.name] \in [port : Ports, q : Names]
        OBVIOUS
    <2>2. late' \subseteq late \cup {[port |-> port, q |-> Top.name]}
        BY <1>3
    <2>. QED  BY <1>1, <1>3, <2>1, <2>2
<1>. QED  BY <1>2, <1>3 DEF Received

\* cache_store.
LEMMA StoreFacts ==
    ASSUME RestOK, NEW n \in Names, NEW q \in Names, NEW zero \in BOOLEAN, Store(n, q, zero)
    PROVE  /\ cached' \in [Names -> Names \cup {NoName}] /\ kept' \in BOOLEAN
           /\ excuse' \subseteq Excuses /\ excuse \subseteq excuse'
           /\ n = query => kept' \/ excuse' # {}
           /\ \A m \in Names : cached'[m] = cached[m] \/ (m = n /\ cached'[m] = q)
<1>1. CASE Unstored(n, zero)
    BY <1>1 DEF Unstored, RestOK, Excuses
<1>2. CASE ~Unstored(n, zero)
    BY <1>2 DEF Store, RestOK
<1>. QED  BY <1>1, <1>2

\* Returns without a message: too deep, no server left, a forwarder that fails.
LEMMA FailPreserves ==
    ASSUME IInv, Active, NEW rc \in {-1, -2}, Return(rc, NoMsg),
           RestOK', HeapOK(heap', Held),
           mode' = mode, query' = query, excuse' = excuse, sent' = sent, cached' = cached,
           mixed \subseteq mixed'
    PROVE  IInv'
<1>1. /\ (Held \ {Top.resp, ret.msg}) \cup ({NoMsg} \ {NoMsg}) = Held
      /\ \A n \in Names \ mixed' : cached'[n] \in {n, NoName}
    BY AtWork DEF IInv, Returning
<1>. QED  BY <1>1, ReturnPreserves

\* A new message is returned, with what it needs to be an answer to the query.
LEMMA AnswerPreserves ==
    ASSUME IInv, Active, NEW rc \in {0, -3}, Return(rc, Fresh), NEW v \in Message,
           heap' = [heap EXCEPT ![Fresh] = v],
           rc = -3 => v.what = "negative",
           RestOK', mode' = mode, query' = query, excuse \subseteq excuse', sent' = sent,
           Top.name \notin mixed' => v.q = Top.name,
           \A n \in Names \ mixed' : cached'[n] \in {n, NoName},
           Top.name = query => kept' \/ excuse' # {}
    PROVE  IInv'
<1>1. /\ (Held \ {Top.resp, ret.msg}) \cup ({Fresh} \ {NoMsg}) = Held \cup {Fresh}
      /\ RestOK /\ HeapOK(heap, Held) /\ Fresh \in Messages \ Held /\ Fresh # NoMsg
      /\ "alias" \notin excuse => Top.name = query
    BY AtWork
<1>2. heap'[Fresh] = v /\ HeapOK(heap', Held \cup {Fresh})
    BY <1>1, ParseFacts
<1>3. kept' \/ excuse' # {}
    BY <1>1
<1>4. query \notin mixed' /\ "alias" \notin excuse' => heap'[Fresh].q = query
    BY <1>1, <1>2
<1>5. /\ rc \in {0, -1, -2, -3} /\ Fresh \in Messages \cup {NoMsg}
      /\ rc \in {-1, -2} => Fresh = NoMsg
      /\ rc = -3 => Fresh = NoMsg \/ heap'[Fresh].what = "negative"
      /\ HeapOK(heap', (Held \ {Top.resp, ret.msg}) \cup ({Fresh} \ {NoMsg}))
    BY <1>1, <1>2
<1>. QED  BY <1>1, <1>3, <1>4, <1>5, ReturnPreserves

\* The for loop goes on: one server less to ask.
LEMMA ContinueFacts ==
    ASSUME NEW g \in Frame, g.at \in Calling \cup {"wait"}, g.depth <= MAX_RECURSION_DEPTH,
           ~Forwards(g), g.i <= g.count,
           NEW f, f = Continue(Freed(g))
    PROVE  /\ f \in Frame /\ f.name = g.name /\ f.depth = g.depth /\ f.resp = NoMsg /\ f.at = "ask"
           /\ Remaining(f, Forwards(f)) \in Nat
           /\ Remaining(f, Forwards(f)) + 0 <= Remaining(g, Forwards(g))
<1>. DEFINE each == 1 + Worst[g.depth + 1]
            a    == (g.count - g.i) * each
<1>1. /\ g.i \in 1..(MaxServers + 1) /\ g.count \in 0..MaxServers /\ g.i + 1 \in 1..(MaxServers + 1)
      /\ g.name \in Names /\ g.depth \in 0..(MAX_RECURSION_DEPTH + 1)
    BY ResolverAssumption DEF Frame
<1>2. f = [name |-> g.name, depth |-> g.depth, count |-> g.count, i |-> g.i + 1,
           resp |-> NoMsg, at |-> "ask"]
    BY DEF Continue, Freed, Frame
<1>3. f \in Frame /\ f.name = g.name /\ f.depth = g.depth /\ f.resp = NoMsg /\ f.at = "ask"
    BY <1>1, <1>2 DEF Frame
<1>4. ~Forwards(f)
    BY <1>2 DEF Forwards
<1>5. f.count - f.i + 1 = g.count - g.i
    BY <1>1, <1>2
<1>6. Remaining(f, Forwards(f)) = a
    BY <1>2, <1>4, <1>5 DEF Remaining, Calling
<1>7. Remaining(g, Forwards(g)) \in {a, a + each - 1}
    BY DEF Remaining, Calling
<1>8. a \in Int /\ a >= 0 /\ each \in Nat \ {0}
    BY RemainingFacts DEF Calling
<1>. QED
    <2>. HIDE DEF a, each
    <2>. QED  BY <1>3, <1>6, <1>7, <1>8

\* A call of resolver_resolve: a query begins, with all its work before it.
LEMMA ResolvePreserves ==
    ASSUME IInv, NEW n \in Names, resolver_resolve(n)
    PROVE  IInv'
<1>. USE ResolverAssumption
<1>. DEFINE f == Entered(n, 0, MaxServers)
<1>1. TypeOK /\ Distinct /\ HeapOK(heap, Held) /\ Returns /\ Asked /\ Returning
    BY MemoryParts DEF IInv
<1>2. /\ stack = << >> /\ ret = NoReturn /\ query' = n /\ stack' = <<f>>
      /\ UNCHANGED <<mode, ret, heap, cached, port, late, sent, kept, excuse, mixed>>
    BY DEF resolver_resolve, history
<1>3. ret.rc = 1 /\ ret.msg = NoMsg /\ sent = 0
    BY <1>1, <1>2 DEF NoReturn, Asked
<1>4. /\ f \in Frame /\ f.name = n /\ f.depth = 0
      /\ f.at = "enter" /\ f.i = 1 /\ f.resp = NoMsg
    BY DEF Entered, Frame
<1>. HIDE DEF f
<1>5. /\ stack' \in Seq(Frame) /\ Len(stack') = 1 /\ stack'[1] = f /\ DOMAIN stack' = 1..1
      /\ Len(stack) = 0 /\ DOMAIN stack = {}
    BY <1>2, <1>4
<1>6. Held' = {} /\ Held = {}
    BY <1>2, <1>3, <1>4, <1>5 DEF Held
<1>7. TypeOK'
    BY <1>1, <1>2, <1>5 DEF TypeOK
<1>8. NoDangling' /\ LeakOnlyNegative'
    BY <1>1, <1>2, <1>3, <1>4, <1>5, <1>6, <1>7 DEF NoDangling, LeakOnlyNegative, HeapOK
<1>9. Frames'
    BY <1>2, <1>3, <1>4, <1>5 DEF Frames, FrameOK, Calling
<1>10. Waiting' /\ Returns'
    BY <1>1, <1>2, <1>4, <1>5 DEF Waiting, Waits, Top, Returns
<1>11. Asked' /\ Returning'
    BY <1>1, <1>2, <1>3, <1>4, <1>5 DEF Asked, Returning
<1>12. Budget'
    <2>. DEFINE W == Worst[0]
                total == [i \in 0..1 |-> IF i = 0 THEN 0 ELSE W]
    <2>1. W \in Nat
        BY WorstFacts
    <2>2. Costs' = [i \in 1..1 |-> W]
        <3>1. Costs' = [i \in 1..1 |-> Remaining(stack'[i], stack'[i].name \in StaticNames \/ mode' = "forwarder")]
            BY <1>5 DEF Costs, Forwards
        <3>2. ASSUME NEW b PROVE Remaining(f, b) = W
            BY <1>4 DEF Remaining, Calling
        <3>. QED  BY <1>5, <3>1, <3>2
    <2>. HIDE DEF W
    <2>3. Totals(total, 1, 0, Costs')
        <3>1. total \in [0..1 -> 0..W] /\ total[0] = 0 /\ total[1] = W
            BY <2>1
        <3>2. Costs'[1] = W /\ \A i \in 1..1 : i = 1
            BY <2>2
        <3>3. \A i, j \in 0..1 : i <= j => total[i] <= total[j]
            BY <2>1
        <3>. HIDE DEF total
        <3>. QED  BY <2>1, <3>1, <3>2, <3>3 DEF Totals, W
    <2>. HIDE DEF total
    <2>. QED  BY <1>2, <1>3, <1>5, <2>3 DEF Budget
<1>. QED  BY <1>8, <1>9, <1>10, <1>11, <1>12 DEF IInv

\* Entering a call, and the end of its list.
LEMMA EnterPreserves ==
    ASSUME IInv, too_deep \/ cache_hit \/ cache_miss \/ give_up
    PROVE  IInv'
<1>. USE ResolverAssumption
<1>1. CASE too_deep
    <2>1. /\ Active /\ Return(-2, NoMsg)
          /\ UNCHANGED <<mode, heap, cached, port, late, query, sent, kept, excuse, mixed>>
        BY <1>1 DEF too_deep, history
    <2>2. RestOK /\ HeapOK(heap, Held)
        BY <2>1, AtWork
    <2>3. RestOK' /\ HeapOK(heap', Held)
        BY <2>1, <2>2 DEF RestOK
    <2>. QED  BY <2>1, <2>3, FailPreserves
<1>2. CASE give_up
    <2>1. /\ Active /\ Return(-1, NoMsg)
          /\ UNCHANGED <<mode, heap, cached, port, late, query, sent, kept, excuse, mixed>>
        BY <1>2 DEF give_up, history
    <2>2. RestOK /\ HeapOK(heap, Held)
        BY <2>1, AtWork
    <2>3. RestOK' /\ HeapOK(heap', Held)
        BY <2>1, <2>2 DEF RestOK
    <2>. QED  BY <2>1, <2>3, FailPreserves
<1>3. CASE cache_hit
    <2>. DEFINE v == [what |-> "answer", q |-> cached[Top.name]]
    <2>1. /\ Active /\ Return(0, Fresh) /\ heap' = [heap EXCEPT ![Fresh] = v]
          /\ cached[Top.name] # NoName /\ kept' = (kept \/ Top.name = query)
          /\ UNCHANGED <<mode, cached, port, late, query, sent, excuse, mixed>>
        BY <1>3 DEF cache_hit
    <2>2. RestOK /\ HeapOK(heap, Held) /\ Top.name \in Names /\ Fresh \in Messages \ Held
        BY <2>1, AtWork
    <2>3. v \in Message
        BY <2>1, <2>2 DEF Message, RestOK
    <2>4. \A n \in Names \ mixed : cached[n] \in {n, NoName}
        BY DEF IInv, Returning
    <2>5. Top.name \notin mixed' => v.q = Top.name
        BY <2>1, <2>2, <2>4
    <2>. HIDE DEF v
    <2>6. heap' \in [Messages -> Message \cup {Free}]
        BY <2>1, <2>2, <2>3, ParseFacts
    <2>7. kept' \in BOOLEAN /\ (Top.name = query => kept')
        BY <2>1, <2>2 DEF RestOK
    <2>8. RestOK'
        BY <2>1, <2>2, <2>6, <2>7 DEF RestOK
    <2>9. /\ \A n \in Names \ mixed' : cached'[n] \in {n, NoName}
          /\ Top.name = query => kept' \/ excuse' # {}
          /\ excuse \subseteq excuse'
        BY <2>1, <2>4, <2>7
    <2>10. mode' = mode /\ query' = query /\ sent' = sent /\ 0 \in {0, -3} /\ 0 # -3
        BY <2>1
    <2>. QED  BY <2>1, <2>3, <2>5, <2>8, <2>9, <2>10, AnswerPreserves
<1>4. CASE cache_miss
    <2>. DEFINE f == [Top EXCEPT !.at = "ask"]
    <2>1. /\ Active /\ Top.at = "enter" /\ ~TooDeep(Top) /\ SetTop(f)
          /\ UNCHANGED <<mode, ret, heap, cached, port, late, query, sent, kept, excuse, mixed>>
        BY <1>4 DEF cache_miss, history
    <2>2. /\ RestOK /\ HeapOK(heap, Held) /\ ret = NoReturn /\ Held \ {Top.resp, ret.msg} = Held
          /\ Top \in Frame /\ Top.resp = NoMsg /\ Top.depth \in 0..(MAX_RECURSION_DEPTH + 1)
        BY <2>1, AtWork
    <2>3. /\ f \in Frame /\ f.name = Top.name /\ f.depth = Top.depth /\ f.at = "ask"
          /\ f.resp = NoMsg /\ f.depth <= MAX_RECURSION_DEPTH
        BY <2>1, <2>2 DEF Frame, TooDeep
    <2>. HIDE DEF f
    <2>4. /\ Remaining(f, Forwards(f)) \in Nat
          /\ Remaining(f, Forwards(f)) + 0 <= Remaining(Top, Forwards(Top))
        <3>. DEFINE each == 1 + Worst[f.depth + 1]
        <3>1. /\ each \in Nat \ {0} /\ Worst[f.depth] = MaxServers * each
              /\ (f.count - f.i) * each \in Int
              /\ (f.count - f.i + 1) * each = (f.count - f.i) * each + each
              /\ (f.count - f.i + 1) * each <= MaxServers * each
            BY <2>3, RemainingFacts
        <3>2. f.count - f.i + 1 = f.count /\ f.count \in Nat
            BY <2>1, <2>2, AtWork DEF f
        <3>3. Remaining(f, Forwards(f)) \in {1, f.count * each}
            BY <2>3, <3>2 DEF Remaining, Calling
        <3>4. Remaining(Top, Forwards(Top)) = MaxServers * each
            BY <2>1, <2>3, <3>1 DEF Remaining, Calling
        <3>. HIDE DEF each
        <3>5. 1 <= MaxServers * each /\ MaxServers * each \in Nat /\ f.count * each \in Nat
            <4>1. each \in Nat /\ each >= 1 /\ MaxServers \in Nat /\ 1 <= MaxServers
                BY <3>1, ResolverAssumption
            <4>2. \A c \in Int : 1 <= c => 1 * each <= c * each
                BY <4>1, Products
            <4>3. 1 * each <= MaxServers * each
                BY <4>1, <4>2
            <4>4. MaxServers * each \in Nat /\ f.count * each \in Nat
                BY <3>2, <4>1, Products
            <4>. QED  BY <4>1, <4>3, <4>4
        <3>. QED  BY <3>1, <3>2, <3>3, <3>4, <3>5
    <2>5. RestOK' /\ sent' = sent + 0
        BY <2>1, <2>2 DEF RestOK
    <2>. QED  BY <2>1, <2>2, <2>3, <2>4, <2>5, GoPreserves
<1>. QED  BY <1>1, <1>2, <1>3, <1>4

\* A question is sent: it was paid for.
LEMMA SendPreserves ==
    ASSUME IInv, NEW p \in Ports, send_query(p)
    PROVE  IInv'
<1>. DEFINE f == [Top EXCEPT !.at = "wait"]
<1>1. /\ Active /\ Top.at = "ask" /\ (Forwards(Top) \/ Top.i <= Top.count) /\ SetTop(f)
      /\ port' = p /\ sent' = IF sent > Worst[0] THEN sent ELSE sent + 1
      /\ UNCHANGED <<mode, ret, heap, cached, late, query, kept, excuse, mixed>>
    BY DEF send_query
<1>2. /\ TypeOK /\ RestOK /\ HeapOK(heap, Held) /\ ret = NoReturn /\ Held \ {Top.resp, ret.msg} = Held
      /\ stack # << >> /\ Top \in Frame /\ Top.resp = NoMsg /\ Top.depth <= MAX_RECURSION_DEPTH
    BY <1>1, AtWork
<1>3. /\ f \in Frame /\ f.name = Top.name /\ f.depth = Top.depth /\ f.at = "wait"
      /\ f.resp = NoMsg /\ f.i = Top.i /\ f.count = Top.count
    BY <1>1, <1>2 DEF Frame
<1>. HIDE DEF f
<1>4. Forwards(f) = Forwards(Top)
    BY <1>3 DEF Forwards
<1>5. Remaining(f, Forwards(f)) \in Nat /\ Remaining(f, Forwards(f)) + 1 <= Remaining(Top, Forwards(Top))
    <2>. DEFINE each == 1 + Worst[f.depth + 1]
                a    == (f.count - f.i) * each
    <2>1. /\ each \in Nat \ {0} /\ a \in Int /\ (f.i <= f.count => a >= 0)
          /\ (f.count - f.i + 1) * each = a + each
        BY <1>2, <1>3, RemainingFacts
    <2>2. Remaining(f, Forwards(f)) = IF Forwards(f) THEN 0 ELSE a + each - 1
        BY <1>3 DEF Remaining, Calling
    <2>3. Remaining(Top, Forwards(Top)) = IF Forwards(f) THEN 1 ELSE (f.count - f.i + 1) * each
        BY <1>1, <1>3, <1>4 DEF Remaining, Calling
    <2>. HIDE DEF each, a
    <2>. QED  BY <1>1, <1>3, <1>4, <2>1, <2>2, <2>3
<1>6. sent' = sent + 1 /\ sent' \in Nat
    <2>1. PICK total : Totals(total, Len(stack), sent, Costs)
        BY DEF IInv, Budget
    <2>2. total[0] = sent /\ total[0] \in 0..Worst[0] /\ Worst[0] \in Nat /\ sent \in Nat
        BY <1>2, <2>1, StackFacts, WorstFacts, ResolverAssumption DEF Totals, TypeOK
    <2>. QED  BY <1>1, <2>2
<1>7. RestOK'
    BY <1>1, <1>2, <1>6 DEF RestOK
<1>. QED  BY <1>1, <1>2, <1>3, <1>4, <1>5, <1>6, <1>7, GoPreserves

\* The next server, from a wait.
LEMMA NextServerPreserves ==
    ASSUME IInv, Waits, ~Forwards(Top), SetTop(Continue(Top)), ret' = ret,
           RestOK', HeapOK(heap', Held),
           mode' = mode, query' = query, excuse' = excuse, cached' = cached, mixed \subseteq mixed',
           sent' = sent
    PROVE  IInv'
<1>. DEFINE f == Continue(Freed(Top))
<1>1. /\ Active /\ Top.at = "wait" /\ ret = NoReturn /\ Held \ {Top.resp, ret.msg} = Held
      /\ Top \in Frame /\ Top.resp = NoMsg /\ Top.depth <= MAX_RECURSION_DEPTH
      /\ Top.i <= Top.count /\ RestOK
    BY AtWork DEF Waits
<1>2. Freed(Top) = Top
    BY <1>1 DEF Freed, Frame
<1>3. SetTop(f)
    BY <1>2
<1>4. /\ f \in Frame /\ f.name = Top.name /\ f.depth = Top.depth /\ f.resp = NoMsg /\ f.at = "ask"
      /\ Remaining(f, Forwards(f)) \in Nat
      /\ Remaining(f, Forwards(f)) + 0 <= Remaining(Top, Forwards(Top))
    BY <1>1, ContinueFacts DEF Calling
<1>. HIDE DEF f
<1>5. sent' = sent + 0
    BY <1>1 DEF RestOK
<1>. QED  BY <1>1, <1>3, <1>4, <1>5, GoPreserves

\* Nothing to go on: no reply, one that does not parse, or a useless one.
LEMMA UnansweredPreserves ==
    ASSUME IInv,
           \/ no_reply
           \/ garbled_reply
           \/ \E q \in Names, r \in Replies : useless_reply(q, r)
    PROVE  IInv'
<1>1. Waits
    BY DEF no_reply, garbled_reply, useless_reply
<1>2. /\ Active /\ RestOK /\ HeapOK(heap, Held) /\ Fresh \in Messages \ Held
      /\ port \in Ports /\ Top.name \in Names
    BY <1>1, AtWork DEF Waits
<1>3. CASE no_reply \/ garbled_reply
    <2>1. RestOK' /\ HeapOK(heap', Held) /\ (mixed \subseteq mixed') /\ Unanswered(Top)
          /\ mode' = mode /\ query' = query /\ excuse' = excuse /\ cached' = cached /\ sent' = sent
        <3>1. CASE no_reply
            <4>1. late' \subseteq [port : Ports, q : Names]
                <5>1. [port |-> port, q |-> Top.name] \in [port : Ports, q : Names]
                    BY <1>2
                <5>. QED  BY <1>2, <3>1, <5>1 DEF no_reply, RestOK
            <4>. QED  BY <1>2, <3>1, <4>1 DEF no_reply, RestOK, history
        <3>2. CASE garbled_reply
            <4>1. PICK q \in Names :
                      Received(q) /\ heap' = [heap EXCEPT ![Fresh] = [what |-> "garbled", q |-> q]]
                BY <3>2 DEF garbled_reply
            <4>2. /\ late' \subseteq [port : Ports, q : Names]
                  /\ mixed' \subseteq Names /\ (mixed \subseteq mixed')
                BY <1>2, <4>1, ReceivedFacts
            <4>. DEFINE v == [what |-> "garbled", q |-> q]
            <4>3. v \in Message /\ v.what = "garbled"
                BY DEF Message
            <4>. HIDE DEF v
            <4>4. heap' \in [Messages -> Message \cup {Free}] /\ HeapOK(heap', Held)
                BY <1>2, <4>1, <4>3, ParseFacts DEF v
            <4>5. /\ Unanswered(Top) /\ port' = 0
                  /\ UNCHANGED <<mode, cached, query, sent, kept, excuse>>
                BY <3>2 DEF garbled_reply
            <4>. QED  BY <1>2, <4>2, <4>4, <4>5 DEF RestOK
        <3>. QED  BY <1>3, <3>1, <3>2
    <2>2. CASE Forwards(Top)
        BY <1>2, <2>1, <2>2, FailPreserves DEF Unanswered
    <2>3. CASE ~Forwards(Top)
        BY <1>1, <2>1, <2>3, NextServerPreserves DEF Unanswered
    <2>. QED  BY <2>2, <2>3
<1>4. ASSUME NEW q \in Names, NEW r \in Replies, useless_reply(q, r) PROVE IInv'
    <2>1. /\ ~Forwards(Top) /\ Received(q) /\ port' = 0 /\ SetTop(Continue(Top))
          /\ UNCHANGED <<mode, ret, heap, cached, query, sent, kept, excuse>>
        BY <1>4 DEF useless_reply
    <2>2. late' \subseteq [port : Ports, q : Names] /\ mixed' \subseteq Names /\ (mixed \subseteq mixed')
        BY <1>2, <2>1, ReceivedFacts
    <2>3. RestOK' /\ HeapOK(heap', Held)
        BY <1>2, <2>1, <2>2 DEF RestOK
    <2>. QED  BY <1>1, <2>1, <2>2, <2>3, NextServerPreserves
<1>. QED  BY <1>3, <1>4

\* A response that ends the call: it is stored and returned.
LEMMA StoredReplyPreserves ==
    ASSUME IInv, Waits, NEW q \in Names, NEW what \in {"answer", "negative"},
           NEW zero \in BOOLEAN, NEW rc \in {0, -3},
           Parsed(q, what), Store(Top.name, q, zero), Return(rc, Fresh),
           rc = -3 => what = "negative"
    PROVE  IInv'
<1>. DEFINE v == [what |-> what, q |-> q]
<1>1. /\ Active /\ RestOK /\ HeapOK(heap, Held) /\ Fresh \in Messages \ Held
      /\ port \in Ports /\ Top.name \in Names
    BY AtWork DEF Waits
<1>2. /\ Received(q) /\ heap' = [heap EXCEPT ![Fresh] = v] /\ port' = 0
      /\ mode' = mode /\ query' = query /\ sent' = sent
    BY DEF Parsed
<1>3. v \in Message /\ v.what = what /\ v.q = q
    BY DEF Message
<1>. HIDE DEF v
<1>4. /\ late' \subseteq [port : Ports, q : Names]
      /\ mixed' \subseteq Names /\ (mixed \subseteq mixed') /\ (Top.name \notin mixed' => q = Top.name)
    BY <1>1, <1>2, ReceivedFacts
<1>5. /\ cached' \in [Names -> Names \cup {NoName}] /\ kept' \in BOOLEAN
      /\ excuse' \subseteq Excuses /\ excuse \subseteq excuse'
      /\ Top.name = query => kept' \/ excuse' # {}
      /\ \A m \in Names : cached'[m] = cached[m] \/ (m = Top.name /\ cached'[m] = q)
    BY <1>1, StoreFacts
<1>6. \A m \in Names \ mixed' : cached'[m] \in {m, NoName}
    <2>1. \A m \in Names \ mixed : cached[m] \in {m, NoName}
        BY DEF IInv, Returning
    <2>. QED  BY <1>4, <1>5, <2>1
<1>7. heap' \in [Messages -> Message \cup {Free}]
    BY <1>1, <1>2, <1>3, ParseFacts
<1>8. RestOK'
    BY <1>1, <1>2, <1>4, <1>5, <1>7 DEF RestOK
<1>9. (rc = -3 => v.what = "negative") /\ (Top.name \notin mixed' => v.q = Top.name)
    BY <1>3, <1>4
<1>. QED  BY <1>1, <1>2, <1>3, <1>5, <1>6, <1>8, <1>9, AnswerPreserves

\* An answer, or NXDOMAIN, from a server or from a forwarder.
LEMMA AnswerReplyPreserves ==
    ASSUME IInv, NEW q \in Names, NEW r \in Replies,
           forwarder_reply(q, r) \/ answer_reply(q, r) \/ nxdomain_reply(q, r)
    PROVE  IInv'
<1>1. r.zero \in BOOLEAN /\ (r.an # "none" /\ r.zero) \in BOOLEAN /\ FALSE \in BOOLEAN
    BY DEF Replies, Reply
<1>2. 0 \in {0, -3} /\ -3 \in {0, -3} /\ 0 # -3
    OBVIOUS
<1>3. CASE forwarder_reply(q, r)
    <2>1. /\ Waits /\ Parsed(q, "answer") /\ Return(0, Fresh)
          /\ Store(Top.name, q, r.an # "none" /\ r.zero)
        BY <1>3 DEF forwarder_reply
    <2>. QED  BY <1>1, <1>2, <2>1, StoredReplyPreserves
<1>4. CASE answer_reply(q, r)
    <2>1. Waits /\ Parsed(q, "answer") /\ Return(0, Fresh) /\ Store(Top.name, q, r.zero)
        BY <1>4 DEF answer_reply
    <2>. QED  BY <1>1, <1>2, <2>1, StoredReplyPreserves
<1>5. CASE nxdomain_reply(q, r)
    <2>1. Waits /\ Parsed(q, "negative") /\ Return(-3, Fresh) /\ Store(Top.name, q, FALSE)
        BY <1>5 DEF nxdomain_reply
    <2>. QED  BY <1>1, <1>2, <2>1, StoredReplyPreserves
<1>. QED  BY <1>3, <1>4, <1>5

\* A response that leads to another call: the message is kept, and the callee's share of
\* the work is what the call had set aside for this server.
LEMMA DescendPreserves ==
    ASSUME IInv, Waits, ~Forwards(Top), NEW q \in Names,
           NEW what \in {"answer", "referral"}, Parsed(q, what),
           NEW where \in Calling, NEW n \in Names, NEW servers \in 0..MaxServers,
           Call([Top EXCEPT !.resp = Fresh, !.at = where], Entered(n, Top.depth + 1, servers)),
           ret' = ret, cached' = cached, kept' = kept,
           excuse \subseteq excuse', excuse' \subseteq Excuses,
           "alias" \notin excuse' => n = Top.name
    PROVE  IInv'
<1>. DEFINE f    == [Top EXCEPT !.resp = Fresh, !.at = where]
            g    == Entered(n, Top.depth + 1, servers)
            v    == [what |-> what, q |-> q]
            each == 1 + Worst[Top.depth + 1]
            a    == (Top.count - Top.i) * each
<1>1. /\ Active /\ RestOK /\ HeapOK(heap, Held) /\ Fresh \in Messages \ Held /\ Fresh # NoMsg
      /\ port \in Ports /\ Top \in Frame /\ Top.name \in Names /\ Top.at = "wait"
      /\ Top.depth \in 0..(MAX_RECURSION_DEPTH + 1) /\ Top.depth <= MAX_RECURSION_DEPTH
      /\ Top.i <= Top.count
    BY AtWork DEF Waits
<1>2. /\ Received(q) /\ heap' = [heap EXCEPT ![Fresh] = v] /\ port' = 0
      /\ mode' = mode /\ query' = query /\ sent' = sent
    BY DEF Parsed
<1>3. v \in Message
    BY DEF Message
<1>. HIDE DEF v
<1>4. /\ f \in Frame /\ f.name = Top.name /\ f.depth = Top.depth /\ f.i = Top.i
      /\ f.count = Top.count /\ f.at = where /\ f.resp = Fresh
    BY <1>1 DEF Frame, Calling
<1>5. /\ g \in Frame /\ g.name = n /\ g.depth = Top.depth + 1 /\ g.i = 1
      /\ g.at = "enter" /\ g.resp = NoMsg
    <2>1. Top.depth + 1 \in 0..(MAX_RECURSION_DEPTH + 1)
        BY <1>1, ResolverAssumption
    <2>. QED  BY <2>1, ResolverAssumption DEF Entered, Frame
<1>6. Call(f, g)
    OBVIOUS
<1>. HIDE DEF f, g
<1>7. ~Forwards(f)
    BY <1>4 DEF Forwards
<1>8. /\ Remaining(f, Forwards(f)) \in Nat /\ Remaining(g, Forwards(g)) \in Nat
      /\ Remaining(f, Forwards(f)) + Remaining(g, Forwards(g)) <= Remaining(Top, Forwards(Top))
    <2>1. Remaining(f, Forwards(f)) = a
        BY <1>4 DEF Remaining, Calling
    <2>2. Remaining(g, Forwards(g)) = each - 1
        <3>1. Remaining(g, Forwards(g)) = Worst[Top.depth + 1]
            BY <1>5 DEF Remaining, Calling
        <3>2. Worst[Top.depth + 1] \in Nat
            BY <1>1, WorstFacts, ResolverAssumption
        <3>. QED  BY <3>1, <3>2
    <2>3. Remaining(Top, Forwards(Top)) = a + each - 1
        BY <1>1 DEF Remaining, Calling
    <2>4. each \in Nat \ {0} /\ a \in Int /\ a >= 0
        BY <1>1, RemainingFacts
    <2>. HIDE DEF each, a
    <2>. QED  BY <2>1, <2>2, <2>3, <2>4
<1>9. late' \subseteq [port : Ports, q : Names] /\ mixed' \subseteq Names /\ (mixed \subseteq mixed')
    BY <1>1, <1>2, ReceivedFacts
<1>10. heap' \in [Messages -> Message \cup {Free}] /\ HeapOK(heap', Held \cup {f.resp})
    BY <1>1, <1>2, <1>3, <1>4, ParseFacts
<1>11. RestOK'
    BY <1>1, <1>2, <1>9, <1>10 DEF RestOK
<1>12. /\ f.depth <= MAX_RECURSION_DEPTH /\ f.at \in Calling /\ f.i <= f.count
       /\ f.resp \in Messages \ Held /\ g.depth = f.depth + 1
       /\ "alias" \notin excuse' => g.name = Top.name
    BY <1>1, <1>4, <1>5
<1>. QED  BY <1>1, <1>2, <1>4, <1>5, <1>6, <1>7, <1>8, <1>9, <1>10, <1>11, <1>12, CallPreserves

\* An alias, and a referral with glue.
LEMMA CallReplyPreserves ==
    ASSUME IInv, NEW q \in Names, NEW r \in Replies,
           alias_reply(q, r) \/ referral_reply(q, r)
    PROVE  IInv'
<1>1. Waits /\ ~Forwards(Top)
    BY DEF alias_reply, referral_reply
<1>2. RestOK /\ Top.name \in Names /\ Top.count \in 0..MaxServers /\ r.glue \in 0..MaxServers
    BY <1>1, AtWork DEF Waits, Replies, Reply
<1>3. CASE alias_reply(q, r)
    <2>1. PICK target \in Names :
              Call([Top EXCEPT !.resp = Fresh, !.at = "alias"],
                   Entered(target, Top.depth + 1, Top.count))
        BY <1>3 DEF alias_reply
    <2>2. /\ Parsed(q, "answer") /\ excuse' = excuse \cup {"alias"}
          /\ UNCHANGED <<ret, cached, kept>>
        BY <1>3 DEF alias_reply
    <2>3. /\ excuse \subseteq excuse' /\ excuse' \subseteq Excuses
          /\ "alias" \in excuse'
        BY <1>2, <2>2 DEF RestOK, Excuses
    <2>4. "alias" \in Calling
        BY DEF Calling
    <2>. QED  BY <1>1, <1>2, <2>1, <2>2, <2>3, <2>4, DescendPreserves
<1>4. CASE referral_reply(q, r)
    <2>1. /\ Call([Top EXCEPT !.resp = Fresh, !.at = "referral"],
                  Entered(Top.name, Top.depth + 1, r.glue))
          /\ Parsed(q, "referral") /\ UNCHANGED <<ret, cached, kept, excuse>>
        BY <1>4 DEF referral_reply
    <2>2. excuse \subseteq excuse' /\ excuse' \subseteq Excuses
        BY <1>2, <2>1 DEF RestOK
    <2>3. "referral" \in Calling
        BY DEF Calling
    <2>. QED  BY <1>1, <1>2, <2>1, <2>2, <2>3, DescendPreserves
<1>. QED  BY <1>3, <1>4

\* The caller frees its own message, and keeps or forgets the one it was returned.
LEMMA CallerFrees ==
    ASSUME IInv, Returned, heap' = HeapWithout(Top)
    PROVE  /\ RestOK /\ ret.rc \in {0, -1, -2, -3} /\ ret.msg \in Messages \cup {NoMsg}
           /\ ret.rc = 0 => ret.msg # NoMsg /\ heap'[ret.msg] = heap[ret.msg]
           /\ heap' \in [Messages -> Message \cup {Free}]
           /\ ret.rc = 0 => HeapOK(heap', (Held \ {Top.resp, ret.msg}) \cup ({ret.msg} \ {NoMsg}))
           /\ ret.rc # 0 => HeapOK(heap', Held \ {Top.resp, ret.msg})
<1>1. /\ TypeOK /\ RestOK /\ Frames /\ Returns /\ Distinct /\ HeapOK(heap, Held)
    BY MemoryParts DEF IInv, TypeOK, RestOK
<1>2. stack # << >> /\ ret.rc \in {0, -1, -2, -3} /\ Top \in Frame /\ Top.resp \in Messages
    BY <1>1, ReturnedFacts
<1>3. Top.resp # NoMsg /\ NoMsg \notin Held
    BY <1>2, ResolverAssumption DEF Messages, Held
<1>4. heap' = [heap EXCEPT ![Top.resp] = Free] /\ heap \in [Messages -> Message \cup {Free}]
    BY <1>1, <1>3 DEF HeapWithout, RestOK
<1>5. ret.msg \in Messages \cup {NoMsg} /\ ret.msg # Top.resp
    <2>1. Len(stack) \in DOMAIN stack /\ stack[Len(stack)] = Top
        BY <1>1, <1>2, StackFacts DEF TypeOK
    <2>. QED  BY <1>1, <1>3, <2>1 DEF Distinct, TypeOK
<1>6. ret.msg = NoMsg \/ ret.msg \in Held
    BY DEF Held
<1>7. heap' \in [Messages -> Message \cup {Free}] /\ heap'[Top.resp] = Free
      /\ \A m \in Messages : m # Top.resp => heap'[m] = heap[m]
    BY <1>2, <1>4
<1>8. Free.what = "free" /\ Held \subseteq Messages
    <2>1. \A i \in 1..Len(stack) : stack[i] \in Frame /\ stack[i].resp \in Messages \cup {NoMsg}
        <3>1. stack \in Seq(Frame)
            BY <1>1 DEF TypeOK
        <3>2. \A i \in 1..Len(stack) : stack[i] \in Frame
            BY <3>1, ElementOfSeq
        <3>. QED  BY <3>2 DEF Frame
    <2>2. Held \subseteq Messages
        BY <1>1, <1>5, <2>1, HeldFacts
    <2>. QED  BY <2>2 DEF Free
<1>9. ret.rc = 0 => ret.msg # NoMsg /\ heap'[ret.msg] = heap[ret.msg]
    BY <1>1, <1>5, <1>7 DEF Returns
<1>10. ret.rc = 0 => HeapOK(heap', (Held \ {Top.resp, ret.msg}) \cup ({ret.msg} \ {NoMsg}))
    <2>. SUFFICES ASSUME ret.rc = 0, NEW m \in Messages
                  PROVE  /\ m \in Held /\ m # Top.resp => heap'[m] # Free
                         /\ m \notin Held \/ m = Top.resp
                               => heap'[m].what \in {"free", "negative", "garbled"}
        BY <1>3, <1>5, <1>6, <1>8, <1>9 DEF HeapOK
    <2>1. CASE m = Top.resp
        BY <1>7, <1>8, <2>1
    <2>2. CASE m # Top.resp
        BY <1>1, <1>7, <2>2 DEF HeapOK
    <2>. QED  BY <2>1, <2>2
<1>11. ret.rc # 0 => HeapOK(heap', Held \ {Top.resp, ret.msg})
    <2>. SUFFICES ASSUME ret.rc # 0 PROVE HeapOK(heap', Held \ {Top.resp, ret.msg})
        OBVIOUS
    <2>1. ret.msg = NoMsg \/ heap[ret.msg].what = "negative"
        BY <1>1, <1>2 DEF Returns
    <2>2. ASSUME NEW m \in Messages, m \notin Held \/ m = Top.resp \/ m = ret.msg
          PROVE  heap'[m].what \in {"free", "negative", "garbled"}
        <3>1. CASE m = Top.resp
            BY <1>7, <1>8, <3>1
        <3>2. CASE m # Top.resp /\ m = ret.msg
            <4>1. m # NoMsg
                BY ResolverAssumption DEF Messages
            <4>. QED  BY <1>7, <2>1, <3>2, <4>1
        <3>3. CASE m # Top.resp /\ m \notin Held
            BY <1>1, <1>7, <3>3 DEF HeapOK
        <3>. QED  BY <2>2, <3>1, <3>2, <3>3
    <2>. QED  BY <1>1, <1>7, <1>8, <2>2 DEF HeapOK
<1>. QED  BY <1>1, <1>2, <1>5, <1>7, <1>9, <1>10, <1>11

\* A callee has returned, and its caller returns as well or tries the next server.
LEMMA CallerPreserves ==
    ASSUME IInv, alias_return \/ referral_return
    PROVE  IInv'
<1>1. /\ Returned /\ heap' = HeapWithout(Top)
      /\ UNCHANGED <<mode, cached, port, late, query, sent, kept, excuse, mixed>>
    BY DEF alias_return, referral_return, history
<1>2. /\ RestOK /\ ret.rc \in {0, -1, -2, -3} /\ ret.msg \in Messages \cup {NoMsg}
      /\ ret.rc = 0 => ret.msg # NoMsg /\ heap'[ret.msg] = heap[ret.msg]
      /\ heap' \in [Messages -> Message \cup {Free}]
      /\ ret.rc = 0 => HeapOK(heap', (Held \ {Top.resp, ret.msg}) \cup ({ret.msg} \ {NoMsg}))
      /\ ret.rc # 0 => HeapOK(heap', Held \ {Top.resp, ret.msg})
    BY <1>1, CallerFrees
<1>3. RestOK' /\ sent' = sent + 0
    BY <1>1, <1>2 DEF RestOK
<1>4. /\ ret.rc = 0 /\ query \notin mixed' /\ "alias" \notin excuse' => heap'[ret.msg].q = query
      /\ \A n \in Names \ mixed' : cached'[n] \in {n, NoName}
      /\ ret.rc \in {0, -3} => kept' \/ excuse' # {}
    BY <1>1, <1>2 DEF IInv, Returning
<1>5. CASE ret.rc = 0 /\ Return(0, ret.msg)
    <2>1. 0 \in {0, -1, -2, -3} /\ 0 \notin {-1, -2} /\ 0 # -3 /\ excuse \subseteq excuse'
        BY <1>1
    <2>. QED  BY <1>1, <1>2, <1>3, <1>4, <1>5, <2>1, ReturnPreserves
<1>6. ASSUME NEW rc \in {-1, -2, -3}, ret.rc = rc, Return(rc, NoMsg) PROVE IInv'
    <2>1. /\ rc \in {0, -1, -2, -3} /\ rc # 0 /\ excuse \subseteq excuse'
          /\ rc \in {0, -3} => kept' \/ excuse' # {}
        BY <1>1, <1>4, <1>6
    <2>2. HeapOK(heap', (Held \ {Top.resp, ret.msg}) \cup ({NoMsg} \ {NoMsg}))
        <3>1. (Held \ {Top.resp, ret.msg}) \cup ({NoMsg} \ {NoMsg}) = Held \ {Top.resp, ret.msg}
            OBVIOUS
        <3>. QED  BY <1>2, <1>6, <2>1, <3>1
    <2>. QED  BY <1>1, <1>2, <1>3, <1>4, <1>6, <2>1, <2>2, ReturnPreserves
<1>7. CASE SetTop(Continue(Freed(Top))) /\ ret' = NoReturn /\ ret.rc # 0
    <2>. DEFINE f == Continue(Freed(Top))
    <2>1. /\ Top \in Frame /\ Top.at \in Calling /\ Top.depth <= MAX_RECURSION_DEPTH
          /\ ~Forwards(Top) /\ Top.i <= Top.count
        BY <1>1, ReturnedFacts DEF IInv, NoDangling
    <2>2. /\ f \in Frame /\ f.name = Top.name /\ f.depth = Top.depth /\ f.resp = NoMsg /\ f.at = "ask"
          /\ Remaining(f, Forwards(f)) \in Nat
          /\ Remaining(f, Forwards(f)) + 0 <= Remaining(Top, Forwards(Top))
        BY <2>1, ContinueFacts
    <2>3. SetTop(f)
        BY <1>7
    <2>. HIDE DEF f
    <2>. QED  BY <1>1, <1>2, <1>3, <1>7, <2>1, <2>2, <2>3, GoPreserves
<1>8. CASE alias_return
    <2>1. Return(ret.rc, IF ret.rc < 0 THEN NoMsg ELSE ret.msg)
        BY <1>8 DEF alias_return
    <2>. QED  BY <1>2, <1>5, <1>6, <2>1
<1>9. CASE referral_return
    <2>1. \/ ret.rc = 0 /\ Return(0, ret.msg)
          \/ ret.rc = -3 /\ Return(-3, NoMsg)
          \/ ret.rc # 0 /\ SetTop(Continue(Freed(Top))) /\ ret' = NoReturn
        BY <1>2, <1>9 DEF referral_return
    <2>. QED  BY <1>2, <1>5, <1>6, <1>7, <2>1
<1>. QED  BY <1>8, <1>9

\* Between queries nothing is sent and nothing is left to send.
LEMMA NothingSent ==
    ASSUME NEW costs
    PROVE  \E total : Totals(total, 0, 0, costs)
<1>. DEFINE total == [i \in 0..0 |-> 0]
<1>1. Worst[0] \in Nat
    BY WorstFacts, ResolverAssumption
<1>2. total \in [0..0 -> 0..Worst[0]] /\ total[0] = 0 /\ \A i \in 0..0 : i = 0
    BY <1>1
<1>3. \A i \in 1..0 : FALSE
    OBVIOUS
<1>. HIDE DEF total
<1>4. Totals(total, 0, 0, costs)
    BY <1>2, <1>3 DEF Totals
<1>. QED  BY <1>4

\* process_dns_query frees the answer it was given: the next query starts afresh.
LEMMA ReleasePreserves ==
    ASSUME IInv, release
    PROVE  IInv'
<1>1. /\ stack = << >> /\ ret # NoReturn
      /\ heap' = IF ret.msg = NoMsg THEN heap ELSE [heap EXCEPT ![ret.msg] = Free]
      /\ ret' = NoReturn /\ query' = NoName /\ sent' = 0 /\ kept' = FALSE /\ excuse' = {}
      /\ UNCHANGED <<mode, stack, cached, port, late, mixed>>
    BY DEF release
<1>2. TypeOK /\ RestOK /\ Distinct /\ HeapOK(heap, Held) /\ Returning
    BY MemoryParts DEF IInv, TypeOK, RestOK
<1>3. Len(stack) = 0 /\ DOMAIN stack = {} /\ stack \in Seq(Frame)
    BY <1>1, <1>2 DEF TypeOK
<1>4. ret'.rc = 1 /\ ret'.msg = NoMsg /\ ret' \in [rc : {1, 0, -1, -2, -3}, msg : Messages \cup {NoMsg}]
    BY <1>1 DEF NoReturn
<1>5. Held = {ret.msg} \ {NoMsg} /\ Held' = {}
    BY <1>1, <1>3, <1>4 DEF Held
<1>6. heap' \in [Messages -> Message \cup {Free}]
    BY <1>1, <1>2 DEF RestOK
<1>7. \A m \in Messages : heap'[m].what \in {"free", "negative", "garbled"}
    BY <1>1, <1>2, <1>5 DEF HeapOK, Free, RestOK
<1>8. TypeOK'
    BY <1>1, <1>2, <1>3, <1>4, <1>6 DEF TypeOK
<1>9. NoDangling' /\ LeakOnlyNegative'
    BY <1>1, <1>3, <1>5, <1>7, <1>8 DEF NoDangling, LeakOnlyNegative
<1>10. Frames' /\ Waiting' /\ Returns' /\ Asked' /\ Returning'
    BY <1>1, <1>2, <1>3, <1>4 DEF Frames, Waiting, Waits, Active, Returns, Asked, Returning
<1>11. Budget'
    BY <1>1, <1>3, NothingSent DEF Budget
<1>. QED  BY <1>9, <1>10, <1>11 DEF IInv

\* Other threads change the cache.
LEMMA OthersPreserve ==
    ASSUME IInv, NEW n \in Names, other_threads(n)
    PROVE  IInv'
<1>0. PICK q \in Names \cup {NoName} :
         /\ cached' = [cached EXCEPT ![n] = q]
         /\ mixed' = IF q \in {n, NoName} THEN mixed ELSE mixed \cup {n}
    BY DEF other_threads
<1>1. UNCHANGED <<mode, stack, ret, heap, port, late, query, sent, kept, excuse>>
    BY DEF other_threads
<1>2. cached \in [Names -> Names \cup {NoName}]
    BY DEF IInv, NoDangling, TypeOK
<1>3. /\ cached' \in [Names -> Names \cup {NoName}]
      /\ mixed \subseteq mixed' /\ mixed' \subseteq Names
    BY <1>0, <1>2 DEF IInv, NoDangling, TypeOK
<1>4. \A m \in Names \ mixed' : cached'[m] \in {m, NoName}
    BY <1>0, <1>2, <1>3 DEF IInv, Returning
<1>5. Held' = Held /\ Top' = Top /\ Costs' = Costs
    BY <1>1 DEF Held, Top, Costs, Forwards
<1>6. TypeOK'
    BY <1>1, <1>3 DEF IInv, NoDangling, TypeOK
<1>7. NoDangling' /\ LeakOnlyNegative'
    BY <1>1, <1>5, <1>6 DEF IInv, NoDangling, LeakOnlyNegative
<1>8. Frames' /\ Waiting' /\ Returns' /\ Asked'
    BY <1>1, <1>5 DEF IInv, Frames, Forwards, Waiting, Waits, Active, Returns, Asked
<1>9. Returning'
    BY <1>1, <1>3, <1>4 DEF IInv, Returning
<1>10. Budget'
    BY <1>1, <1>5 DEF IInv, Budget
<1>. QED  BY <1>7, <1>8, <1>9, <1>10 DEF IInv

\* Initially nothing is called, held, cached or sent.
LEMMA InitIInv == Init => IInv
<1>. SUFFICES ASSUME Init PROVE IInv
    OBVIOUS
<1>1. /\ mode \in Modes /\ stack = << >> /\ ret = NoReturn /\ heap = [m \in Messages |-> Free]
      /\ cached = [n \in Names |-> NoName] /\ port = 0 /\ late = {} /\ query = NoName
      /\ sent = 0 /\ kept = FALSE /\ excuse = {} /\ mixed = {}
    BY DEF Init
<1>2. Len(stack) = 0 /\ DOMAIN stack = {} /\ stack \in Seq(Frame)
    BY <1>1
<1>3. ret.rc = 1 /\ ret.msg = NoMsg /\ ret \in [rc : {1, 0, -1, -2, -3}, msg : Messages \cup {NoMsg}]
    BY <1>1 DEF NoReturn
<1>4. TypeOK
    BY <1>1, <1>2, <1>3 DEF TypeOK
<1>5. Held = {}
    BY <1>2, <1>3 DEF Held
<1>6. NoDangling /\ LeakOnlyNegative
    BY <1>1, <1>2, <1>4, <1>5 DEF NoDangling, LeakOnlyNegative, Free
<1>7. Frames /\ Waiting /\ Returns /\ Asked /\ Returning
    BY <1>1, <1>2, <1>3 DEF Frames, Waiting, Waits, Active, Returns, Asked, Returning
<1>8. Budget
    BY <1>1, <1>2, NothingSent DEF Budget
<1>. QED  BY <1>6, <1>7, <1>8 DEF IInv

\* Every step of the thread, and of the others through the cache, preserves the invariant.
LEMMA NextIInv == IInv /\ [Next]_vars => IInv'
<1>. SUFFICES ASSUME IInv, [Next]_vars PROVE IInv'
    OBVIOUS
<1>1. ASSUME NEW n \in Names, resolver_resolve(n) PROVE IInv'
    BY <1>1, ResolvePreserves
<1>2. ASSUME NEW n \in Names, other_threads(n) PROVE IInv'
    BY <1>2, OthersPreserve
<1>3. CASE too_deep \/ cache_hit \/ cache_miss \/ give_up
    BY <1>3, EnterPreserves
<1>4. ASSUME NEW p \in Ports, send_query(p) PROVE IInv'
    BY <1>4, SendPreserves
<1>5. CASE no_reply \/ garbled_reply \/ \E q \in Names, r \in Replies : useless_reply(q, r)
    BY <1>5, UnansweredPreserves
<1>6. ASSUME NEW q \in Names, NEW r \in Replies,
             forwarder_reply(q, r) \/ answer_reply(q, r) \/ nxdomain_reply(q, r)
      PROVE  IInv'
    BY <1>6, AnswerReplyPreserves
<1>7. ASSUME NEW q \in Names, NEW r \in Replies, alias_reply(q, r) \/ referral_reply(q, r)
      PROVE  IInv'
    BY <1>7, CallReplyPreserves
<1>8. CASE alias_return \/ referral_return
    BY <1>8, CallerPreserves
<1>9. CASE release
    BY <1>9, ReleasePreserves
<1>10. CASE UNCHANGED vars
    <2>1. /\ UNCHANGED <<mode, stack, ret, heap, cached, port, late, query>>
          /\ UNCHANGED <<sent, kept, excuse, mixed>>
        BY <1>10 DEF vars, history
    <2>2. Held' = Held /\ Top' = Top /\ Costs' = Costs
        BY <2>1 DEF Held, Top, Costs, Forwards
    <2>3. NoDangling' /\ LeakOnlyNegative'
        BY <2>1, <2>2 DEF IInv, NoDangling, LeakOnlyNegative, TypeOK
    <2>4. Frames' /\ Waiting' /\ Returns' /\ Asked' /\ Returning'
        BY <2>1, <2>2
        DEF IInv, Frames, Forwards, Waiting, Waits, Active, Returns, Asked, Returning
    <2>5. Budget'
        BY <2>1, <2>2 DEF IInv, Budget
    <2>. QED  BY <2>3, <2>4, <2>5 DEF IInv
<1>. QED  BY <1>1, <1>2, <1>3, <1>4, <1>5, <1>6, <1>7, <1>8, <1>9, <1>10 DEF Next, resolve_internal

-----------------------------------------------------------------------------
(* The theorems.                                                           *)

\* The strengthening holds in every reachable state of the resolver.
THEOREM Invariance == Spec => []IInv
BY InitIInv, NextIInv, PTL DEF Spec

\* The recursion over referrals and aliases never sends more questions than every server
\* of every list, at every depth up to MAX_RECURSION_DEPTH.
THEOREM QueriesBoundedHolds == Spec => []QueriesBounded
<1>1. IInv => QueriesBounded
    <2>. SUFFICES ASSUME IInv PROVE sent <= Worst[0]
        BY DEF QueriesBounded
    <2>1. PICK total : Totals(total, Len(stack), sent, Costs)
        BY DEF IInv, Budget
    <2>2. Len(stack) \in Nat /\ Worst[0] \in Nat
        BY WorstFacts, ResolverAssumption DEF IInv, NoDangling, TypeOK
    <2>. QED  BY <2>1, <2>2 DEF Totals
<1>. QED  BY <1>1, Invariance, PTL

\* Types, and: the messages of dns_parse_message are freed once, and not used after.
THEOREM NoDanglingHolds == Spec => []NoDangling
<1>1. IInv => NoDangling
    BY DEF IInv
<1>. QED  BY <1>1, Invariance, PTL

\* The two leaks of resolve_internal are the only ones.
THEOREM LeakOnlyNegativeHolds == Spec => []LeakOnlyNegative
<1>1. IInv => LeakOnlyNegative
    BY DEF IInv
<1>. QED  BY <1>1, Invariance, PTL

\* A wrong answer is cached for a name, or returned for it, only if a datagram that was not
\* the answer was taken while that name was asked for.
THEOREM AnswersQuestionHolds == Spec => []AnswersQuestion
<1>1. IInv => AnswersQuestion
    BY DEF IInv, Returning, AnswersQuestion
<1>. QED  BY <1>1, Invariance, PTL

\* What resolver_resolve returned was in the cache for the sender, but for aliases, a ttl
\* of 0 and a full cache.
THEOREM StoredForSenderHolds == Spec => []StoredForSender
<1>1. IInv => StoredForSender
    BY DEF IInv, Returning, StoredForSender
<1>. QED  BY <1>1, Invariance, PTL

-----------------------------------------------------------------------------
(* ForwarderPool.                                                          *)

\* The slots are indexed from 0 and the scan wraps around.
LEMMA SlotTyping ==
    /\ 0 \in Conns
    /\ \A c \in Conns : NextSlot(c) \in Conns
BY PoolAssumption DEF Conns, NextSlot

\* The pool is empty and idle when the program starts.
LEMMA InitInv == PoolInit => PoolInv
<1> SUFFICES ASSUME PoolInit PROVE PoolInv
  OBVIOUS
<1>1. PoolTypeOK
  <2>1. {} \in SUBSET Queries /\ << >> \in Seq(Answer)
    OBVIOUS
  <2>2. 0 \in 0..MaxQueries
    BY PoolAssumption
  <2> QED
    BY <2>1, <2>2, SlotTyping DEF PoolInit, PoolTypeOK
<1>2. LockedWhileUsed
  BY PoolAssumption DEF PoolInit, LockedWhileUsed
<1>3. SlotsReady /\ StreamIsOwn /\ NothingYet /\ NoLateAnswer
  BY PoolAssumption DEF PoolInit, SlotsReady, StreamIsOwn, OwnStream, NothingYet, NoLateAnswer
<1> QED
  BY <1>1, <1>2, <1>3 DEF PoolInv

\* Two threads that work on one slot are the same: its lock has one owner.
LEMMA OneUser ==
    ASSUME PoolInv, NEW t \in Threads, NEW u \in Threads, at[t] = at[u],
           pc[t] \in {"connect", "send", "recv", "give"},
           pc[u] \in {"connect", "send", "recv", "give"}
    PROVE  t = u
BY DEF PoolInv, PoolTypeOK, LockedWhileUsed

\* A connection on which no rest was left and that nobody waits on has nothing under way;
\* one that a thread waits on has at most its own query or answer under way.
LEMMA OwnExchange ==
    ASSUME PoolInv, NEW t \in Threads, pc[t] \in {"connect", "send", "recv", "give"}
    PROVE  LET c == at[t]
           IN  \/ spoilt[c]
               \/ asked[c] = {} /\ stream[c] = << >>
               \/ /\ pc[t] = "recv"
                  /\ \/ asked[c] = {question[t]} /\ stream[c] = << >>
                     \/ /\ asked[c] = {}
                        /\ \E a \in Answer : a.query = question[t] /\ stream[c] = <<a>>
<1>1. at[t] \in Conns
  BY DEF PoolInv, PoolTypeOK
<1>2. \A u \in Threads : pc[u] = "recv" /\ at[u] = at[t] => u = t
  BY OneUser
<1> QED
  BY <1>1, <1>2 DEF PoolInv, StreamIsOwn, OwnStream

\* Types are kept by every step.
LEMMA TypeStep == PoolInv /\ [PoolNext]_forwarderVars => PoolTypeOK'
<1> SUFFICES ASSUME PoolInv, [PoolNext]_forwarderVars PROVE PoolTypeOK'
  OBVIOUS
<1> USE PoolAssumption DEF At, Goto, poolVars, threadVars, wireVars
<1>0. PoolTypeOK
  BY DEF PoolInv
<1>1. ASSUME NEW t \in Threads, forward(t) PROVE PoolTypeOK'
  BY <1>0, <1>1, SlotTyping DEF PoolTypeOK, forward, Queries
<1>2. ASSUME NEW t \in Threads, init_tcp_pool(t) PROVE PoolTypeOK'
  BY <1>0, <1>2 DEF PoolTypeOK, init_tcp_pool
<1>3. ASSUME NEW t \in Threads,
             borrow_busy(t) \/ borrow_lock(t) \/ borrow_connect(t) \/ borrow_connect_fail(t)
      PROVE  PoolTypeOK'
  <2>1. CASE borrow_busy(t)
    BY <1>0, <2>1, SlotTyping DEF PoolTypeOK, borrow_busy
  <2>2. CASE borrow_lock(t)
    BY <1>0, <2>2 DEF PoolTypeOK, borrow_lock
  <2>3. CASE borrow_connect(t)
    BY <1>0, <2>3 DEF PoolTypeOK, borrow_connect
  <2>4. CASE borrow_connect_fail(t)
    BY <1>0, <2>4, SlotTyping DEF PoolTypeOK, borrow_connect_fail
  <2> QED
    BY <1>3, <2>1, <2>2, <2>3, <2>4
<1>4. ASSUME NEW t \in Threads, exchange_send(t) PROVE PoolTypeOK'
  <2>1. question[t] \in Queries
    BY <1>4 DEF PoolInv, NothingYet, exchange_send
  <2>2. asked' \in [Conns -> SUBSET Queries]
    BY <1>0, <1>4, <2>1 DEF PoolTypeOK, exchange_send
  <2> QED
    BY <1>0, <1>4, <2>2 DEF PoolTypeOK, exchange_send
<1>5. ASSUME NEW t \in Threads, exchange_sigpipe(t) PROVE PoolTypeOK'
  BY <1>0, <1>5 DEF PoolTypeOK, exchange_sigpipe
<1>6. ASSUME NEW t \in Threads, exchange_fail(t) PROVE PoolTypeOK'
  BY <1>0, <1>6 DEF PoolTypeOK, exchange_fail
<1>7. ASSUME NEW t \in Threads, recv_body(t) PROVE PoolTypeOK'
  <2>1. at[t] \in Conns /\ stream[at[t]] \in Seq(Answer) /\ stream[at[t]] # << >>
    BY <1>0, <1>7 DEF PoolTypeOK, recv_body, Length
  <2>2. Head(stream[at[t]]) \in Answer /\ Tail(stream[at[t]]) \in Seq(Answer)
    BY <2>1
  <2>3. Head(stream[at[t]]).query \in Queries
    BY <2>2 DEF Answer
  <2> QED
    BY <1>0, <1>7, <2>1, <2>2, <2>3 DEF PoolTypeOK, recv_body
<1>8. ASSUME NEW t \in Threads, recv_empty(t) PROVE PoolTypeOK'
  <2>1. at[t] \in Conns /\ stream[at[t]] \in Seq(Answer) /\ stream[at[t]] # << >>
    BY <1>0, <1>8 DEF PoolTypeOK, recv_empty, Length
  <2>2. Tail(stream[at[t]]) \in Seq(Answer)
    BY <2>1
  <2> QED
    BY <1>0, <1>8, <2>1, <2>2 DEF PoolTypeOK, recv_empty
<1>9. ASSUME NEW t \in Threads, recv_unread(t) \/ recv_torn(t) PROVE PoolTypeOK'
  <2>1. CASE recv_unread(t)
    BY <1>0, <2>1 DEF PoolTypeOK, recv_unread
  <2>2. CASE recv_torn(t)
    <3>1. PICK n \in 0..Len(stream[at[t]]), inside \in BOOLEAN :
             /\ stream' = [stream EXCEPT ![at[t]] = SubSeq(@, n + 1, Len(@))]
             /\ torn' = [torn EXCEPT ![at[t]] = inside]
      BY <2>2 DEF recv_torn
    <3>2. at[t] \in Conns /\ stream[at[t]] \in Seq(Answer)
      BY <1>0 DEF PoolTypeOK
    <3>3. SubSeq(stream[at[t]], n + 1, Len(stream[at[t]])) \in Seq(Answer)
      BY <3>2
    <3>4. stream' \in [Conns -> Seq(Answer)] /\ torn' \in [Conns -> BOOLEAN]
      BY <1>0, <3>1, <3>2, <3>3 DEF PoolTypeOK
    <3> QED
      BY <1>0, <2>2, <3>4 DEF PoolTypeOK, recv_torn
  <2> QED
    BY <1>9, <2>1, <2>2
<1>10. ASSUME NEW t \in Threads, return_tcp_conn(t) PROVE PoolTypeOK'
  BY <1>0, <1>10 DEF PoolTypeOK, return_tcp_conn
<1>11. ASSUME NEW c \in Conns, ForwarderReplies(c) PROVE PoolTypeOK'
  <2>1. PICK q \in asked[c], size \in {"empty", "fits", "large"} :
          /\ stream' = [stream EXCEPT ![c] = Append(@, [query |-> q, size |-> size])]
          /\ asked' = [asked EXCEPT ![c] = @ \ {q}]
    BY <1>11 DEF ForwarderReplies
  <2>2. asked[c] \subseteq Queries /\ stream[c] \in Seq(Answer)
    BY <1>0, <1>11 DEF PoolTypeOK
  <2>3. [query |-> q, size |-> size] \in Answer
    BY <2>1, <2>2 DEF Answer
  <2>4. stream' \in [Conns -> Seq(Answer)]
    BY <1>0, <2>1, <2>2, <2>3 DEF PoolTypeOK
  <2>5. asked' \in [Conns -> SUBSET Queries]
    BY <1>0, <2>1, <2>2 DEF PoolTypeOK
  <2> QED
    BY <1>0, <1>11, <2>4, <2>5 DEF PoolTypeOK, ForwarderReplies
<1>12. ASSUME NEW c \in Conns, Shut(c) PROVE PoolTypeOK'
  BY <1>0, <1>12 DEF PoolTypeOK, Shut
<1>13. CASE UpOrDown \/ UNCHANGED forwarderVars
  BY <1>0, <1>13 DEF PoolTypeOK, UpOrDown, forwarderVars
<1> QED
  BY <1>1, <1>2, <1>3, <1>4, <1>5, <1>6, <1>7, <1>8, <1>9, <1>10, <1>11, <1>12, <1>13
  DEF PoolNext, exchange

\* The program counters at which a thread holds a lock.
Using == {"connect", "send", "recv", "give"}

\* A step by which one thread goes on with its slot leaves the locks right.
LEMMA LockFrame ==
    ASSUME PoolTypeOK, LockedWhileUsed, NEW t \in Threads, NEW label \in Using,
           pc[t] \in Using, Goto(t, label), UNCHANGED <<lock, at>>
    PROVE  LockedWhileUsed'
BY DEF PoolTypeOK, LockedWhileUsed, Using, Goto

\* Locks follow the threads on every step: only init_tcp_pool touches a lock that
\* its thread does not hold, and then no slot is in use.
LEMMA LockStep == PoolInv /\ [PoolNext]_forwarderVars => LockedWhileUsed'
<1> SUFFICES ASSUME PoolInv, [PoolNext]_forwarderVars PROVE LockedWhileUsed'
  OBVIOUS
<1> USE PoolAssumption DEF At, Goto, poolVars, threadVars, wireVars, LockedWhileUsed
<1>0. PoolTypeOK /\ LockedWhileUsed /\ SlotsReady
  BY DEF PoolInv
<1>1. ASSUME NEW t \in Threads, forward(t) PROVE LockedWhileUsed'
  BY <1>0, <1>1 DEF PoolTypeOK, forward
<1>2. ASSUME NEW t \in Threads, init_tcp_pool(t) PROVE LockedWhileUsed'
  <2>1. pc' = [pc EXCEPT ![t] = "scan"] /\ pc[t] = "init" /\ UNCHANGED at
    BY <1>2 DEF init_tcp_pool
  <2>2. \A u \in Threads :
           pc'[u] \in {"connect", "send", "recv", "give"} <=>
           pc[u] \in {"connect", "send", "recv", "give"}
    BY <1>0, <2>1 DEF PoolTypeOK
  <2>3. CASE pool_initialised
    <3>1. UNCHANGED lock
      BY <1>2, <2>3 DEF init_tcp_pool
    <3> QED
      BY <1>0, <2>1, <2>2, <3>1
  <2>4. CASE ~pool_initialised
    <3>1. lock' = [c \in Conns |-> NoThread]
      BY <1>2, <2>4 DEF init_tcp_pool
    <3>2. \A u \in Threads : pc[u] \in {"idle", "init"}
      BY <1>0, <2>4 DEF SlotsReady
    <3> QED
      BY <2>2, <3>1, <3>2
  <2> QED
    BY <2>3, <2>4
<1>3. ASSUME NEW t \in Threads,
             borrow_busy(t) \/ borrow_lock(t) \/ borrow_connect(t) \/ borrow_connect_fail(t)
      PROVE  LockedWhileUsed'
  BY <1>0, <1>3 DEF PoolTypeOK, borrow_busy, borrow_lock, borrow_connect, borrow_connect_fail
<1>4. ASSUME NEW t \in Threads, exchange_send(t) \/ exchange_fail(t)
      PROVE  LockedWhileUsed'
  BY <1>0, <1>4, LockFrame DEF Using, exchange_send, exchange_fail
<1>5. ASSUME NEW t \in Threads,
             recv_body(t) \/ recv_empty(t) \/ recv_unread(t) \/ recv_torn(t)
      PROVE  LockedWhileUsed'
  <2>1. pc[t] = "recv" /\ Goto(t, "give") /\ UNCHANGED <<lock, at>>
    BY <1>5 DEF recv_body, recv_empty, recv_unread, recv_torn, Length
  <2> QED
    BY <1>0, <2>1, LockFrame DEF Using
<1>6. ASSUME NEW t \in Threads, return_tcp_conn(t) PROVE LockedWhileUsed'
  BY <1>0, <1>6 DEF PoolTypeOK, return_tcp_conn
<1>7. ASSUME UNCHANGED <<lock, at, pc>> PROVE LockedWhileUsed'
  BY <1>0, <1>7
<1>8. CASE \/ \E t \in Threads : exchange_sigpipe(t)
           \/ \E c \in Conns : ForwarderReplies(c) \/ Shut(c)
           \/ UpOrDown
           \/ UNCHANGED forwarderVars
  BY <1>7, <1>8 DEF exchange_sigpipe, ForwarderReplies, Shut, UpOrDown, forwarderVars
<1> QED
  BY <1>1, <1>2, <1>3, <1>4, <1>5, <1>6, <1>8 DEF PoolNext, exchange

\* Slots are used only once the pool is ready, and exchanges are on open slots: the
\* only thread that closes a socket is the one that leaves the exchange on it.
LEMMA ReadyStep == PoolInv /\ [PoolNext]_forwarderVars => SlotsReady'
<1> SUFFICES ASSUME PoolInv, [PoolNext]_forwarderVars PROVE SlotsReady'
  OBVIOUS
<1> USE DEF At, Goto, poolVars, threadVars, wireVars
<1>0. PoolTypeOK /\ SlotsReady
  BY DEF PoolInv
<1>1. ASSUME NEW t \in Threads, forward(t) PROVE SlotsReady'
  BY <1>0, <1>1 DEF PoolTypeOK, SlotsReady, forward
<1>2. ASSUME NEW t \in Threads, init_tcp_pool(t) PROVE SlotsReady'
  BY <1>0, <1>2 DEF PoolTypeOK, SlotsReady, init_tcp_pool
<1>3. ASSUME NEW t \in Threads, borrow_busy(t) \/ borrow_connect_fail(t)
      PROVE  SlotsReady'
  <2>1. CASE borrow_busy(t)
    BY <1>0, <2>1 DEF PoolTypeOK, SlotsReady, borrow_busy
  <2>2. CASE borrow_connect_fail(t)
    BY <1>0, <2>2 DEF PoolTypeOK, SlotsReady, borrow_connect_fail
  <2> QED
    BY <1>3, <2>1, <2>2
<1>4. ASSUME NEW t \in Threads, borrow_lock(t) PROVE SlotsReady'
  BY <1>0, <1>4 DEF PoolTypeOK, SlotsReady, borrow_lock
<1>5. ASSUME NEW t \in Threads, borrow_connect(t) PROVE SlotsReady'
  BY <1>0, <1>5 DEF PoolTypeOK, SlotsReady, borrow_connect
<1>6. ASSUME NEW t \in Threads, exchange_send(t) PROVE SlotsReady'
  BY <1>0, <1>6 DEF PoolTypeOK, SlotsReady, exchange_send
<1>7. ASSUME NEW t \in Threads, exchange_fail(t) PROVE SlotsReady'
  <2>1. \A u \in Threads : u # t /\ pc[u] \in {"send", "recv"} => at[u] # at[t]
    BY <1>7, OneUser DEF exchange_fail
  <2> QED
    BY <1>0, <1>7, <2>1 DEF PoolTypeOK, SlotsReady, exchange_fail
<1>8. ASSUME NEW t \in Threads, recv_body(t) \/ recv_empty(t) PROVE SlotsReady'
  BY <1>0, <1>8 DEF PoolTypeOK, SlotsReady, recv_body, recv_empty, Length
<1>13. ASSUME NEW t \in Threads, recv_torn(t) PROVE SlotsReady'
  BY <1>0, <1>13 DEF PoolTypeOK, SlotsReady, recv_torn
<1>9. ASSUME NEW t \in Threads, recv_unread(t) PROVE SlotsReady'
  BY <1>0, <1>9 DEF PoolTypeOK, SlotsReady, recv_unread, Length
<1>10. ASSUME NEW t \in Threads, return_tcp_conn(t) PROVE SlotsReady'
  BY <1>0, <1>10 DEF PoolTypeOK, SlotsReady, return_tcp_conn
<1>11. ASSUME UNCHANGED <<pool_initialised, open, pc, at, torn, spoilt>> PROVE SlotsReady'
  BY <1>0, <1>11 DEF SlotsReady
<1>12. CASE \/ \E t \in Threads : exchange_sigpipe(t)
            \/ \E c \in Conns : ForwarderReplies(c) \/ Shut(c)
            \/ UpOrDown
            \/ UNCHANGED forwarderVars
  BY <1>11, <1>12 DEF exchange_sigpipe, ForwarderReplies, Shut, UpOrDown, forwarderVars
<1> QED
  BY <1>1, <1>2, <1>3, <1>4, <1>5, <1>6, <1>7, <1>8, <1>9, <1>10, <1>12, <1>13
  DEF PoolNext, exchange

\* What connection c has under way, after a step that leaves it alone: the thread
\* that waits for it still waits.
LEMMA StreamFrame ==
    ASSUME PoolInv, NEW c \in Conns,
           asked'[c] = asked[c], stream'[c] = stream[c], spoilt'[c] = spoilt[c],
           \A u \in Threads : pc[u] = "recv" /\ at[u] = c =>
                /\ pc'[u] = pc[u] /\ at'[u] = at[u] /\ question'[u] = question[u]
    PROVE  OwnStream(c)'
BY DEF PoolInv, StreamIsOwn, OwnStream

\* A thread enters the exchange on an idle connection and leaves it with nothing of
\* its own behind, unless the connection is closed or spoilt.
LEMMA StreamStep == PoolInv /\ [PoolNext]_forwarderVars => StreamIsOwn'
<1> SUFFICES ASSUME PoolInv, [PoolNext]_forwarderVars, NEW c \in Conns PROVE OwnStream(c)'
  BY DEF StreamIsOwn
<1> USE DEF At, Goto, poolVars, threadVars, wireVars
<1>0. PoolTypeOK
  BY DEF PoolInv
<1>1. ASSUME NEW t \in Threads,
             \/ forward(t) \/ init_tcp_pool(t) \/ borrow_busy(t) \/ borrow_lock(t)
             \/ borrow_connect(t) \/ borrow_connect_fail(t) \/ return_tcp_conn(t)
      PROVE  OwnStream(c)'
  <2>1. UNCHANGED <<asked, stream, spoilt>> /\ pc[t] # "recv"
    BY <1>1 DEF forward, init_tcp_pool, borrow_busy, borrow_lock, borrow_connect,
                borrow_connect_fail, return_tcp_conn
  <2>2. \A u \in Threads \ {t} :
           pc'[u] = pc[u] /\ at'[u] = at[u] /\ question'[u] = question[u]
    BY <1>0, <1>1 DEF PoolTypeOK, forward, init_tcp_pool, borrow_busy, borrow_lock,
                      borrow_connect, borrow_connect_fail, return_tcp_conn
  <2> QED
    BY <2>1, <2>2, StreamFrame
<1>2. ASSUME NEW t \in Threads,
             \/ exchange_send(t) \/ exchange_fail(t) \/ recv_body(t) \/ recv_empty(t)
             \/ recv_unread(t) \/ recv_torn(t),
             at[t] # c
      PROVE  OwnStream(c)'
  <2>1. asked'[c] = asked[c] /\ stream'[c] = stream[c] /\ spoilt'[c] = spoilt[c]
    BY <1>0, <1>2 DEF PoolTypeOK, exchange_send, exchange_fail, recv_body, recv_empty,
                      recv_unread, recv_torn
  <2>2. \A u \in Threads \ {t} :
           pc'[u] = pc[u] /\ at'[u] = at[u] /\ question'[u] = question[u]
    BY <1>0, <1>2 DEF PoolTypeOK, exchange_send, exchange_fail, recv_body, recv_empty,
                      recv_unread, recv_torn
  <2> QED
    BY <1>2, <2>1, <2>2, StreamFrame
<1>3. ASSUME NEW t \in Threads, exchange_send(t), at[t] = c, ~spoilt[c] PROVE OwnStream(c)'
  <2>1. asked[c] = {} /\ stream[c] = << >>
    BY <1>3, OwnExchange DEF exchange_send
  <2>2. CASE shut[c]
    BY <1>0, <1>3, <2>1, <2>2 DEF PoolTypeOK, OwnStream, exchange_send
  <2>3. CASE ~shut[c]
    <3>1. asked'[c] = {question[t]}
      BY <1>0, <1>3, <2>1, <2>3 DEF PoolTypeOK, exchange_send
    <3>2. pc'[t] = "recv" /\ at'[t] = c /\ question'[t] = question[t]
      BY <1>0, <1>3 DEF PoolTypeOK, exchange_send
    <3>3. stream'[c] = << >>
      BY <1>3, <2>1 DEF exchange_send
    <3> QED
      BY <3>1, <3>2, <3>3 DEF OwnStream
  <2> QED
    BY <2>2, <2>3
<1>4. ASSUME NEW t \in Threads, exchange_fail(t) \/ recv_unread(t), at[t] = c
      PROVE  OwnStream(c)'
  BY <1>0, <1>4 DEF PoolTypeOK, OwnStream, exchange_fail, recv_unread
<1>5. ASSUME NEW t \in Threads, recv_body(t) \/ recv_empty(t), at[t] = c, ~spoilt[c]
      PROVE  OwnStream(c)'
  <2>1. asked[c] = {} /\ \E a \in Answer : stream[c] = <<a>>
    BY <1>5, OwnExchange DEF recv_body, recv_empty, Length
  <2>2. Tail(stream[c]) = << >>
    BY <2>1
  <2>3. asked'[c] = {} /\ stream'[c] = Tail(stream[c])
    BY <1>0, <1>5, <2>1 DEF PoolTypeOK, recv_body, recv_empty
  <2> QED
    BY <2>2, <2>3 DEF OwnStream
<1>6. ASSUME NEW t \in Threads,
             exchange_send(t) \/ recv_body(t) \/ recv_empty(t) \/ recv_torn(t),
             at[t] = c, spoilt[c]
      PROVE  OwnStream(c)'
  BY <1>6 DEF OwnStream, exchange_send, recv_body, recv_empty, recv_torn
<1>9. ASSUME NEW t \in Threads, recv_torn(t), at[t] = c PROVE spoilt[c]
  BY <1>9 DEF PoolInv, SlotsReady, recv_torn
<1>7. ASSUME NEW d \in Conns, ForwarderReplies(d) PROVE OwnStream(c)'
  <2>0. PICK q \in asked[d], size \in {"empty", "fits", "large"} :
           /\ stream' = [stream EXCEPT ![d] = Append(@, [query |-> q, size |-> size])]
           /\ asked' = [asked EXCEPT ![d] = @ \ {q}]
    BY <1>7 DEF ForwarderReplies
  <2>1. CASE d # c
    <3>1. asked'[c] = asked[c] /\ stream'[c] = stream[c]
      BY <1>0, <2>0, <2>1 DEF PoolTypeOK
    <3> QED
      BY <1>7, <3>1, StreamFrame DEF ForwarderReplies
  <2>2. CASE d = c /\ ~spoilt[c]
    <3>1. PICK t \in Threads :
             /\ pc[t] = "recv" /\ at[t] = c
             /\ asked[c] = {question[t]} /\ stream[c] = << >>
      BY <2>0, <2>2 DEF PoolInv, StreamIsOwn, OwnStream
    <3> DEFINE a == [query |-> question[t], size |-> size]
    <3>2. q = question[t]
      BY <2>0, <2>2, <3>1
    <3>3. a \in Answer /\ a.query = question[t]
      BY <3>1 DEF PoolInv, NothingYet, Answer
    <3>4. stream'[c] = <<a>>
      BY <1>0, <2>0, <2>2, <3>1, <3>2 DEF PoolTypeOK
    <3>5. asked'[c] = {}
      BY <1>0, <2>0, <2>2, <3>1, <3>2 DEF PoolTypeOK
    <3>6. UNCHANGED <<pc, at, question>>
      BY <1>7 DEF ForwarderReplies
    <3> QED
      BY <3>1, <3>3, <3>4, <3>5, <3>6 DEF OwnStream
  <2>3. CASE d = c /\ spoilt[c]
    BY <1>7, <2>3 DEF OwnStream, ForwarderReplies
  <2> QED
    BY <2>1, <2>2, <2>3
<1>8. CASE \/ \E t \in Threads : exchange_sigpipe(t)
           \/ \E d \in Conns : Shut(d)
           \/ UpOrDown
           \/ UNCHANGED forwarderVars
  <2>1. UNCHANGED <<asked, stream, spoilt, pc, at, question>>
    BY <1>8 DEF exchange_sigpipe, Shut, UpOrDown, forwarderVars
  <2> QED
    BY <2>1, StreamFrame
<1> QED
  BY <1>1, <1>2, <1>3, <1>4, <1>5, <1>6, <1>7, <1>8, <1>9 DEF PoolNext, exchange

\* A step keeps what NoLateAnswer says of a thread if the thread keeps its query, its slot
\* and what it has read, and its slot stays as it is.
LEMMA AnswerFrame ==
    ASSUME PoolInv, NEW u \in Threads,
           question'[u] = question[u], got'[u] = got[u], at'[u] = at[u],
           got[u] \in Queries => spoilt'[at[u]] = spoilt[at[u]]
    PROVE  (got[u] \in Queries => got[u] = question[u] \/ spoilt[at[u]])'
BY DEF PoolInv, NoLateAnswer

\* What a thread has read is the answer to its query, or comes from a spoilt connection.
LEMMA AnswerStep == PoolInv /\ [PoolNext]_forwarderVars => NothingYet' /\ NoLateAnswer'
<1> SUFFICES ASSUME PoolInv, [PoolNext]_forwarderVars PROVE NothingYet' /\ NoLateAnswer'
  OBVIOUS
<1> USE DEF At, Goto, poolVars, threadVars, wireVars
<1>0. PoolTypeOK /\ NothingYet /\ NoLateAnswer
  BY DEF PoolInv
<1>1. ASSUME NEW t \in Threads, forward(t) PROVE NothingYet' /\ NoLateAnswer'
  <2>1. question'[t] \in Queries
    BY <1>0, <1>1, PoolAssumption DEF PoolTypeOK, forward, Queries
  <2> QED
    BY <1>0, <1>1, <2>1, PoolAssumption DEF PoolTypeOK, NothingYet, NoLateAnswer, forward
<1>2. ASSUME NEW t \in Threads,
             \/ init_tcp_pool(t) \/ borrow_busy(t) \/ borrow_lock(t)
             \/ borrow_connect(t) \/ borrow_connect_fail(t)
             \/ exchange_send(t) \/ exchange_fail(t) \/ recv_empty(t) \/ recv_unread(t)
      PROVE  NothingYet' /\ NoLateAnswer'
  <2>1. UNCHANGED <<question, got>> /\ pc[t] \notin {"idle", "give"}
    BY <1>2 DEF init_tcp_pool, borrow_busy, borrow_lock, borrow_connect,
                borrow_connect_fail, exchange_send, exchange_fail, recv_empty, recv_unread, Length
  <2>2. \A u \in Threads \ {t} : pc'[u] = pc[u] /\ at'[u] = at[u]
    BY <1>0, <1>2 DEF PoolTypeOK, init_tcp_pool, borrow_busy, borrow_lock, borrow_connect,
                borrow_connect_fail, exchange_send, exchange_fail, recv_empty, recv_unread
  <2>3. \/ UNCHANGED spoilt
        \/ /\ pc[t] \in {"send", "recv"}
           /\ \A c \in Conns \ {at[t]} : spoilt'[c] = spoilt[c]
    BY <1>0, <1>2 DEF PoolTypeOK, init_tcp_pool, borrow_busy, borrow_lock, borrow_connect,
                borrow_connect_fail, exchange_send, exchange_fail, recv_empty, recv_unread, Length
  <2>4. NothingYet'
    BY <1>0, <2>1, <2>2 DEF NothingYet
  <2>5. got[t] = NoAnswer
    BY <1>0, <2>1 DEF NothingYet
  <2>6. ASSUME NEW u \in Threads, got[u] \in Queries PROVE spoilt'[at[u]] = spoilt[at[u]]
    <3>1. pc[u] = "give" /\ at[u] \in Conns
      BY <1>0, <2>6, PoolAssumption DEF PoolTypeOK, NothingYet
    <3>2. pc[t] \in {"send", "recv"} => at[u] # at[t]
      BY <2>1, <3>1, OneUser
    <3> QED
      BY <2>3, <3>1, <3>2
  <2>7. ASSUME NEW u \in Threads
        PROVE  (got[u] \in Queries => got[u] = question[u] \/ spoilt[at[u]])'
    <3>1. CASE u = t
      BY <2>1, <2>5, <3>1, PoolAssumption
    <3>2. CASE u # t
      BY <2>1, <2>2, <2>6, <3>2, AnswerFrame
    <3> QED
      BY <3>1, <3>2
  <2> QED
    BY <2>4, <2>7 DEF NoLateAnswer
<1>3. ASSUME NEW t \in Threads, recv_body(t) PROVE NothingYet' /\ NoLateAnswer'
  <2>1. \/ spoilt[at[t]]
        \/ \E a \in Answer : a.query = question[t] /\ stream[at[t]] = <<a>>
    BY <1>3, OwnExchange DEF recv_body, Length
  <2>2. spoilt[at[t]] \/ Head(stream[at[t]]).query = question[t]
    BY <2>1
  <2> QED
    BY <1>0, <1>3, <2>2 DEF PoolTypeOK, NothingYet, NoLateAnswer, recv_body, Length
<1>4. ASSUME NEW t \in Threads, recv_torn(t) PROVE NothingYet' /\ NoLateAnswer'
  BY <1>0, <1>4, PoolAssumption DEF PoolTypeOK, NothingYet, NoLateAnswer, recv_torn
<1>5. ASSUME NEW t \in Threads, return_tcp_conn(t) PROVE NothingYet' /\ NoLateAnswer'
  BY <1>0, <1>5, PoolAssumption DEF PoolTypeOK, NothingYet, NoLateAnswer, return_tcp_conn
<1>6. CASE \/ \E t \in Threads : exchange_sigpipe(t)
           \/ \E c \in Conns : ForwarderReplies(c) \/ Shut(c)
           \/ UpOrDown
           \/ UNCHANGED forwarderVars
  <2>1. UNCHANGED <<pc, at, question, got, spoilt>>
    BY <1>6 DEF exchange_sigpipe, ForwarderReplies, Shut, UpOrDown, forwarderVars
  <2> QED
    BY <1>0, <2>1 DEF NothingYet, NoLateAnswer
<1> QED
  BY <1>1, <1>2, <1>3, <1>4, <1>5, <1>6 DEF PoolNext, exchange

\* The pool of resolver.c keeps its inductive invariant, for any number of threads,
\* slots and queries.
THEOREM PoolInvariance == PoolSpec => []PoolInv
<1>1. PoolInv /\ [PoolNext]_forwarderVars => PoolInv'
  BY TypeStep, LockStep, ReadyStep, StreamStep, AnswerStep DEF PoolInv
<1> QED
  BY InitInv, <1>1, PTL DEF PoolSpec

\* Every thread that works on a slot of tcp_pool holds its lock, and nobody else.
THEOREM LockedWhileUsedHolds == PoolSpec => []LockedWhileUsed
<1>1. PoolInv => LockedWhileUsed
  BY DEF PoolInv
<1> QED
  BY PoolInvariance, <1>1, PTL

\* A whole answer that resolve_internal reads from the forwarder is the answer to its own
\* query, whatever timed out, failed or was reconnected before, unless the rest of an
\* answer was left on that very connection.
THEOREM NoLateAnswerHolds == PoolSpec => []NoLateAnswer
<1>1. PoolInv => NoLateAnswer
  BY DEF PoolInv
<1> QED
  BY PoolInvariance, <1>1, PTL
=============================================================================
