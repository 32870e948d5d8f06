---------------------------- MODULE UnlockedList ----------------------------
(***************************************************************************)
(* Singly linked lists as src/src/policy.c and src/src/reputation.c use    *)
(* them: threads prepend entries and main frees them, without a lock.  A   *)
(* pointer to an entry that was freed is Dangling, so that the address can *)
(* be used again.  An entry no pointer leads to has leaked; it is          *)
(* forgotten, as nothing can happen to it any more.                        *)
(***************************************************************************)
EXTENDS Integers, FiniteSets

CONSTANTS
    Entries,      \* addresses of entries: bounds those alive at once
    Null,
    Dangling      \* a pointer to an entry that was freed

ASSUME ListAssumption ==
    /\ IsFiniteSet(Entries)
    /\ Null \notin Entries /\ Dangling \notin Entries /\ Null # Dangling

Pointers == Entries \cup {Null, Dangling}

Closed(next, C) == \A x \in C : next[x] \in Entries => next[x] \in C

\* The entries some root leads to: the least closed set that has the roots.
Reached(next, roots) ==
    {x \in Entries : \A C \in SUBSET Entries :
                         roots \cap Entries \subseteq C /\ Closed(next, C) => x \in C}

\* Where a search for an entry in wanted stops: there, or at the end of the list.  It
\* passes the entries that are not wanted, and stops at the pointer to none of these.
Search(head, next, wanted) ==
    LET passed == Reached([x \in Entries |-> IF x \in wanted THEN Null ELSE next[x]], {head}) \ wanted
    IN  CHOOSE p \in {head} \cup {next[x] : x \in passed} : p \notin passed

\* A pointer after x was freed.
Without(x, p) == IF p = x THEN Dangling ELSE p
=============================================================================
