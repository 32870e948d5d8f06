------------------------------ MODULE CacheOps ------------------------------
(***************************************************************************)
(* The open-addressing table of src/src/cache.c as functions of its slots. *)
(* cache_lookup and cache_store walk the same probe sequence: from the     *)
(* home slot of the key, wrapping around, they stop at the first slot that *)
(* is not used or that holds the key, and give up after Capacity slots.    *)
(***************************************************************************)
EXTENDS Integers

CONSTANTS
    Keys,      \* "name:type:class" strings of build_key
    Capacity,  \* c->capacity
    Home,      \* hash_key(key) % c->capacity, for each key
    Unused     \* a slot with used = 0

Slots == 0..(Capacity - 1)

ASSUME CacheAssumption ==
    /\ Capacity \in Nat \ {0}
    /\ Home \in [Keys -> Slots]

\* calloc: no slot is used.
EmptyTable == [s \in Slots |-> Unused]

Used(table) == {s \in Slots : table[s] # Unused}

\* The i-th slot that is looked at for key k.
Probe(k, i) == (Home[k] + i) % Capacity

\* A slip: the key of a used slot is not compared.
StopsAnyKey(table, k) == Slots

\* Where on its probe sequence a walk for k could stop.
Stops(table, k) ==
    {i \in Slots : \/ table[Probe(k, i)] = Unused
                   \/ table[Probe(k, i)].key = k}

\* The slot where it does stop, if it stops at all.
StopSlot(table, k) ==
    Probe(k, CHOOSE i \in Stops(table, k) : \A j \in Stops(table, k) : i <= j)

\* The walk ends at a slot that holds k.
Holds(table, k) == Stops(table, k) # {} /\ table[StopSlot(table, k)] # Unused

\* time(NULL) > e->expiry
Expired(entry, t) == t > entry.expiry

\* cache_lookup at time t finds an answer for k.
Hit(table, k, t) == Holds(table, k) /\ ~Expired(table[StopSlot(table, k)], t)

\* cache_lookup at time t removes the expired entry it finds for k.
Removes(table, k, t) == Holds(table, k) /\ Expired(table[StopSlot(table, k)], t)

\* The table after cache_lookup: the slot is freed, without a tombstone.
AfterLookup(table, k, t) ==
    IF Removes(table, k, t) THEN [table EXCEPT ![StopSlot(table, k)] = Unused]
                            ELSE table

\* A slip in cache_store: the slot of the key itself is passed over, and the answer
\* goes to the next slot that is not used.
AfterStoreNextFree(table, k, data, expiry) ==
    LET free == {i \in Slots : table[Probe(k, i)] = Unused}
    IN  IF free = {} THEN table
        ELSE [table EXCEPT ![Probe(k, CHOOSE i \in free : \A j \in free : i <= j)] =
                 [key |-> k, data |-> data, expiry |-> expiry]]

\* The table after cache_store with ttl > 0: the free slot or the slot of k is
\* written; a table full of other keys drops the answer.
AfterStore(table, k, data, expiry) ==
    IF Stops(table, k) = {} THEN table
    ELSE [table EXCEPT ![StopSlot(table, k)] =
             [key |-> k, data |-> data, expiry |-> expiry]]
=============================================================================
