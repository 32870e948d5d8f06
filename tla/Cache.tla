-------------------------------- MODULE Cache --------------------------------
(***************************************************************************)
(* The answer cache of src/src/cache.c.  Every operation holds c->lock     *)
(* from its first to its last access of the table, so each is one step.    *)
(* cache_lookup and cache_store read the clock under the lock;             *)
(* cache_clean_expired reads it before, so its time may be an earlier one. *)
(*                                                                         *)
(* An answer is the number of the cache_store call that brought it.  What  *)
(* becomes of the pointer a lookup returns is in Processor.                *)
(*                                                                         *)
(* cache_clean_expired is exported by cache.h; nothing calls it yet.       *)
(***************************************************************************)
EXTENDS CacheOps, FiniteSets

CONSTANTS
    TTLs,       \* time-to-live values that answers carry, 0 included
    MaxStores,  \* bound: answers stored
    MaxTime     \* bound: the last second modelled

Entry == [key : Keys, data : 1..MaxStores, expiry : Int]

ASSUME CacheBounds ==
    /\ TTLs \subseteq Nat
    /\ MaxStores \in Nat
    /\ MaxTime \in Nat
    /\ Unused \notin Entry

VARIABLES
    table,   \* c->entries
    count,   \* c->count
    now,     \* time(NULL)
    stores,  \* history: every answer given to cache_store
    holes    \* history: slots that were freed at some time

cacheVars == <<table, count, now, stores, holes>>

CacheTypeOK ==
    /\ table \in [Slots -> Entry \cup {Unused}]
    /\ count \in 0..Capacity
    /\ now \in 0..MaxTime
    /\ stores \subseteq [key : Keys, data : 1..MaxStores, until : Int]
    /\ holes \subseteq Slots

CacheInit ==
    /\ table = EmptyTable
    /\ count = 0
    /\ now = 0
    /\ stores = {}
    /\ holes = {}

-----------------------------------------------------------------------------

\* A slip: every lookup that finds no answer counts as a removal.
cache_lookup_miscounted(k) ==
    /\ table' = AfterLookup(table, k, now)
    /\ count' = IF Hit(table, k, now) THEN count ELSE count - 1
    /\ holes' = IF Removes(table, k, now) THEN holes \cup {StopSlot(table, k)} ELSE holes
    /\ UNCHANGED <<now, stores>>

\* An answer leaves the table as it is; an expired entry is removed.
cache_lookup(k) ==
    /\ table' = AfterLookup(table, k, now)
    /\ IF Removes(table, k, now)
       THEN count' = count - 1 /\ holes' = holes \cup {StopSlot(table, k)}
       ELSE UNCHANGED <<count, holes>>
    /\ UNCHANGED <<now, stores>>

\* The answer is written where the walk stops; ttl = 0 returns at once and changes
\* nothing.
cache_store(k, ttl) ==
    LET data == Cardinality(stores) + 1
    IN  /\ ttl > 0
        /\ data <= MaxStores
        /\ table' = AfterStore(table, k, data, now + ttl)
        /\ count' = IF Stops(table, k) # {} /\ ~Holds(table, k) THEN count + 1 ELSE count
        /\ stores' = stores \cup {[key |-> k, data |-> data, until |-> now + ttl]}
        /\ UNCHANGED <<now, holes>>

\* What cache_clean_expired frees, if it read the clock at time t.
ExpiredSlots(t) == {s \in Used(table) : Expired(table[s], t)}

\* A slip: the counter is left alone.
cache_clean_expired_uncounted(t) ==
    /\ table' = [s \in Slots |-> IF s \in ExpiredSlots(t) THEN Unused ELSE table[s]]
    /\ holes' = holes \cup ExpiredSlots(t)
    /\ UNCHANGED <<count, now, stores>>

cache_clean_expired(t) ==
    /\ table' = [s \in Slots |-> IF s \in ExpiredSlots(t) THEN Unused ELSE table[s]]
    /\ count' = count - Cardinality(ExpiredSlots(t))
    /\ holes' = holes \cup ExpiredSlots(t)
    /\ UNCHANGED <<now, stores>>

Tick ==
    /\ now < MaxTime
    /\ now' = now + 1
    /\ UNCHANGED <<table, count, stores, holes>>

CacheNext ==
    \/ \E k \in Keys : cache_lookup(k)
    \/ \E k \in Keys, ttl \in TTLs : cache_store(k, ttl)
    \/ \E t \in 0..now : cache_clean_expired(t)
    \/ Tick

CacheSpec == CacheInit /\ [][CacheNext]_cacheVars

-----------------------------------------------------------------------------
(* Properties.                                                             *)

\* c->count is the number of used slots, through inserts, overwrites, removals on
\* lookup and sweeps.
CountExact == count = Cardinality(Used(table))

\* What cache_lookup returns for k was stored for k and is within its time to
\* live, to the second: no answer of another name that shares the probe
\* sequence, and none that has outlived its ttl.
HitIsHonest ==
    \A k \in Keys : Hit(table, k, now) =>
        \E s \in stores : /\ s.key = k
                          /\ s.data = table[StopSlot(table, k)].data
                          /\ now <= s.until

\* The slots that a walk passes before it reaches slot s from key k's home.
Before(k, s) ==
    {Probe(k, i) : i \in {j \in Slots : j < (s - Home[k]) % Capacity}}

\* The invariant of linear probing, as far as cache.c keeps it: an entry that
\* cache_lookup cannot reach, or a second entry for a key, lies behind a slot
\* that was freed without a tombstone.  With no removal so far every entry is
\* found and no key is held twice.
HiddenOnlyByHole ==
    \A s \in Used(table) :
        LET k == table[s].key
        IN  StopSlot(table, k) = s \/ Before(k, s) \cap holes # {}

\* cache_store is kept: an answer with a time to live is found by the next lookup
\* of its key, unless every slot is in use for other keys.
StoreIsKept ==
    [][\A k \in Keys, ttl \in TTLs \ {0} : cache_store(k, ttl) =>
          \/ /\ Hit(table', k, now)
             /\ table'[StopSlot(table', k)].data = Cardinality(stores')
          \/ \A s \in Slots : table[s] # Unused /\ table[s].key # k]_cacheVars
=============================================================================
