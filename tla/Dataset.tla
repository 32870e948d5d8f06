------------------------------ MODULE Dataset ------------------------------
(***************************************************************************)
(* The loop that all generator scripts share, for any one of them          *)
(* (DatasetScripts).  It draws domains until the longest list is full or   *)
(* too many of them have collided, and writes each new domain to every     *)
(* list that still has room.  The scripts have one thread; what is hard is *)
(* the ways out of their nested loops, which differ from copy to copy.     *)
(*                                                                         *)
(* A generator may return any domain, old or new: the domains are numbered *)
(* in the order of their appearance, which loses nothing, since the loop   *)
(* only compares them.                                                     *)
(***************************************************************************)
EXTENDS DatasetScripts, Integers, Sequences, FiniteSets

CONSTANTS
    Tiers,             \* the sizes 1000, 5000, ..., 1000000 of the lists
    Hundred, Thousand  \* the code's 100 and 1000, as small as the sizes are

ASSUME DatasetAssumption ==
    /\ Tiers \in [1..7 -> Nat \ {0}]
    /\ \A i \in 1..6 : Tiers[i] < Tiers[i + 1]
    /\ Hundred \in Nat \ {0} /\ Thousand \in Nat \ {0}
    /\ YEARS * MONTHS > Tiers[3]  \* 11000 domains for a list of 10000

VARIABLES
    script,  \* the script that runs
    pc,      \* where it is: "while", "row" and "item", or "ended" or "died"
    data,    \* the set of domains found
    files,   \* files[i]: what was written to the list of Tiers[i] domains
    open,    \* the lists have not been closed
    stop,
    force,   \* forceCloseCounter: collisions so far
    tmp,     \* tmpExit: collisions in this row
    rows,    \* rows left in this pass, after this one
    left     \* domains left in this row

vars == <<script, pc, data, files, open, stop, force, tmp, rows, left>>

counter == Cardinality(data)  \* counter and len(data) grow together

Limit == Tiers[script.files]

TypeOK ==
    /\ script \in Scripts
    /\ pc \in {"while", "row", "item", "ended", "died"}
    /\ data \subseteq Nat \ {0} /\ IsFiniteSet(data)
    /\ files \in [1..script.files -> Seq(data)]
    /\ open \in BOOLEAN /\ stop \in BOOLEAN
    /\ force \in Nat /\ tmp \in Nat /\ rows \in Nat /\ left \in Nat

Init ==
    /\ script \in Scripts
    /\ pc = "while"
    /\ data = {}
    /\ files = [i \in 1..script.files |-> << >>]
    /\ open = TRUE /\ stop = FALSE
    /\ force = 0 /\ tmp = 0 /\ rows = 0 /\ left = 0

-----------------------------------------------------------------------------
(* The loops.                                                              *)

\* while not stop: a pass begins ...
while_pass ==
    /\ pc = "while" /\ ~stop
    /\ rows' \in script.rows
    /\ pc' = "row"
    /\ UNCHANGED <<script, data, files, open, stop, force, tmp, left>>

\* ... or the script ends.
while_end ==
    /\ pc = "while" /\ stop
    /\ pc' = "ended"
    /\ UNCHANGED <<script, data, files, open, stop, force, tmp, rows, left>>

RowsTest == stop /\ script.tests # "pass"

row_begin ==
    /\ pc = "row" /\ rows > 0 /\ ~RowsTest
    /\ rows' = rows - 1
    /\ left' \in script.items
    /\ tmp' = 0
    /\ pc' = "item"
    /\ UNCHANGED <<script, data, files, open, stop, force>>

pass_end ==
    /\ pc = "row" /\ (rows = 0 \/ RowsTest)
    /\ pc' = "while"
    /\ UNCHANGED <<script, data, files, open, stop, force, tmp, rows, left>>

\* A slip: stop is not looked at before the next domain of a list.
ItemsTestNever == FALSE

\* if stop: break
ItemsTest == stop /\ script.tests = "item"

row_end ==
    /\ pc = "item" /\ (left = 0 \/ ItemsTest)
    /\ pc' = "row"
    /\ UNCHANGED <<script, data, files, open, stop, force, tmp, rows, left>>

-----------------------------------------------------------------------------
(* A domain is drawn.                                                      *)

\* The place of a domain in the one list that ccleaner goes through.
Place == (YEARS - rows) * MONTHS - left + 1

Draws == IF script.listed THEN {Place} ELSE data \cup {counter + 1}

\* The domains left in the row after this one; suppobox's row has no end.
Rest == IF script.leaves = "patience" THEN left ELSE left - 1

Item == pc = "item" /\ left > 0 /\ ~ItemsTest

\* A slip: the number of collisions is compared with the number of domains.
SpentAtOnce == script.budget > 0 /\ force + 1 = counter

\* This collision is the last one that is tolerated.
Spent == script.budget > 0 /\ force + 1 = script.budget * counter

\* continue, or break: whether a collision leaves the row.
Leaves ==
    \/ script.leaves = "found_1000" /\ counter % Thousand # 0
    \/ script.leaves = "found_100" /\ counter % Hundred # 0
    \/ script.leaves = "collided_100" /\ (force + 1) % Hundred = 0
    \/ script.leaves = "patience" /\ tmp + 1 > counter

\* A slip: a collision that leaves the row is not counted.
collision_uncounted ==
    /\ Item
    /\ \E d \in Draws : d \in data
    /\ force' = IF script.budget > 0 /\ ~Leaves THEN force + 1 ELSE force
    /\ tmp' = IF script.leaves = "patience" THEN tmp + 1 ELSE tmp
    /\ open' = (open /\ ~Spent)
    /\ stop' = (stop \/ Spent)
    /\ left' = IF Leaves THEN 0 ELSE Rest
    /\ UNCHANGED <<script, pc, data, files, rows>>

\* The domain is in data already.
collision ==
    /\ Item
    /\ \E d \in Draws : d \in data
    /\ force' = IF script.budget > 0 THEN force + 1 ELSE force
    /\ tmp' = IF script.leaves = "patience" THEN tmp + 1 ELSE tmp
    /\ open' = (open /\ ~Spent)
    /\ stop' = (stop \/ Spent)
    /\ left' = IF Leaves THEN 0 ELSE Rest
    /\ UNCHANGED <<script, pc, data, files, rows>>

\* A new domain.
Found(d) ==
    /\ Item
    /\ d \in Draws \ data
    /\ data' = data \cup {d}
    /\ UNCHANGED <<script, force, tmp, rows>>

\* A slip: a list misses its last domain.
HasRoomForMore(i, n) == n < Tiers[i]

\* if len(data) <= 1000: ... elif len(data) <= 5000: ...
HasRoom(i, n) == n <= Tiers[i]

write ==
    \E d \in Draws :
        /\ Found(d)
        /\ counter + 1 <= Limit /\ open
        /\ files' = [i \in 1..script.files |->
                        IF HasRoom(i, counter + 1) THEN Append(files[i], d) ELSE files[i]]
        /\ left' = Rest
        /\ UNCHANGED <<pc, open, stop>>

\* write() to a list that was closed raises ValueError, which nothing catches.
write_closed ==
    \E d \in Draws :
        /\ Found(d)
        /\ counter + 1 <= Limit /\ ~open
        /\ pc' = "died"
        /\ UNCHANGED <<files, open, stop, left>>

\* One domain more than the last list takes: it is dropped, the lists are closed,
\* perhaps again, and the row is left.
full ==
    \E d \in Draws :
        /\ Found(d)
        /\ counter + 1 > Limit
        /\ open' = FALSE
        /\ stop' = TRUE
        /\ left' = IF script.breaks THEN 0 ELSE Rest
        /\ UNCHANGED <<pc, files>>

Next ==
    \/ while_pass \/ while_end \/ row_begin \/ row_end \/ pass_end
    \/ collision \/ write \/ write_closed \/ full

\* A script is one thread that always goes on.  tempedreve and pykspa find no domain for
\* some of the dates they draw; random.random does not draw such dates only.
Fairness == WF_vars(Next) /\ SF_vars(row_begin /\ left' > 0)

Spec == Init /\ [][Next]_vars /\ Fairness

-----------------------------------------------------------------------------
(* Properties.                                                             *)

Longest == files[script.files]

\* Whatever ended the run and whenever, the lists agree with each other and with data:
\* a list of n domains holds the first n of the longest one, no domain is there twice,
\* and all that was found is listed, but for what exceeds the longest list and for the
\* one domain that a script was about to write when it died.
ListsAgree ==
    /\ TypeOK
    /\ \A i \in 1..script.files :
          files[i] = SubSeq(Longest, 1, IF Len(Longest) < Tiers[i] THEN Len(Longest) ELSE Tiers[i])
    /\ \A i, j \in 1..Len(Longest) : Longest[i] = Longest[j] => i = j
    /\ \A i \in 1..Len(Longest) : Longest[i] \in data
    /\ \/ Len(Longest) = counter
       \/ Len(Longest) = Limit
       \/ Len(Longest) = counter - 1 /\ pc = "died"

\* A script writes to a closed list only if it goes on drawing after it has given up on
\* collisions.  Three scripts do; the others that do not test stop either have no limit
\* on collisions or, like ccleaner, have none.
DiesUntestedOnly == pc = "died" => script \in {kraken_v1, qadars, suppobox}

\* A script ends only with its longest list full, or with the full budget of collisions
\* spent on the domains it has found.
EndsForAReason ==
    pc = "ended" => \/ Len(Longest) = Limit
                    \/ script.budget > 0 /\ force >= script.budget * counter

\* The limit on collisions is tested for equality, against a number that grows, in loops
\* that often do not look at stop: still, every script that has the limit comes to an end
\* even when its generator has nothing new to offer.
Halts == script.budget > 0 ~> pc \in {"ended", "died"}
=============================================================================
