-------------------------- MODULE DatasetScripts --------------------------
(***************************************************************************)
(* The 42 generator scripts under src/evaluation/UMUDGA/.../Domain         *)
(* Generation Algorithms, which write the domain lists that the DGA        *)
(* evaluation measures the firewall with.  Their main programs are copies  *)
(* of one loop (module Dataset) that differ in the points recorded here.   *)
(* What a script's generator computes is data: Dataset draws its domains   *)
(* freely.                                                                 *)
(*                                                                         *)
(*   files   lists written, of Tiers[1], ..., Tiers[files] domains         *)
(*   budget  collisions tolerated per domain found; 0: no limit            *)
(*   rows    numbers of rows a pass of the outer loop can have             *)
(*   items   numbers of domains a row can have                             *)
(*   tests   where stop is looked at again: before every "item", before    *)
(*           every "row", or only before the next "pass"                   *)
(*   leaves  when a collision leaves the row: "never", unless the number   *)
(*           of domains ("found_1000", "found_100") divides, when the      *)
(*           number of collisions does ("collided_100"), or after more     *)
(*           collisions in this row than there are domains ("patience",    *)
(*           in a row without an end of its own)                           *)
(*   breaks  the row is left when the last list is full                    *)
(*   listed  the domains of a pass are all different, always the same      *)
(***************************************************************************)
EXTENDS Naturals

CONSTANTS
    MaxRows,       \* bound: rows in a pass, of the scripts that have several
    MaxItems,      \* bound: domains in a row
    YEARS, MONTHS  \* the loops of ccleaner: range(2000, 3000) and range(1, 12)

ASSUME ScriptsAssumption ==
    /\ MaxRows \in Nat \ {0} /\ MaxItems \in Nat \ {0}
    /\ YEARS \in Nat \ {0} /\ MONTHS \in Nat \ {0}

\* One domain per pass, all seven lists, ten collisions per domain.
Single == [files |-> 7, budget |-> 10, rows |-> {1}, items |-> {1}, tests |-> "item",
           leaves |-> "never", breaks |-> TRUE, listed |-> FALSE]

\* A list of domains per pass, stop tested before each of them.
Batch == [Single EXCEPT !.items = 1..MaxItems]

\* A list of domains per pass, all of it gone through, and collisions for ever.
Unchecked == [Batch EXCEPT !.budget = 0, !.tests = "pass"]

alureon_dnschanger == [Single EXCEPT !.budget = 0]
banjori            == [Single EXCEPT !.files = 6, !.budget = 0]
bedep              == [Batch EXCEPT !.rows = 1..MaxRows]
ccleaner           == [Single EXCEPT !.files = 3, !.rows = {YEARS}, !.items = {MONTHS},
                                     !.tests = "pass", !.listed = TRUE]
chinad             == [Unchecked EXCEPT !.leaves = "found_1000"]
corebot            == [Single EXCEPT !.budget = 0]
cryptolocker       == Batch
dircrypt           == [Unchecked EXCEPT !.leaves = "found_100"]
dyre               == Single
fobber_v1          == [Single EXCEPT !.budget = 0]
fobber_v2          == [Single EXCEPT !.budget = 0]
gozi               == Single
kraken_v1          == [Batch EXCEPT !.budget = 2, !.tests = "pass"]
kraken_v2          == [Batch EXCEPT !.files = 3, !.rows = 1..MaxRows]
matsnu             == Single
murofet_v1         == [Single EXCEPT !.budget = 100]
murofet_v2         == Single
murofet_v3         == Single
necurs             == Batch
nymaim             == [Unchecked EXCEPT !.breaks = FALSE]
padcrypt           == Unchecked
pizd               == Single
proslikefan        == Batch
pushdo             == Batch
pykspa_noise       == [Unchecked EXCEPT !.files = 5, !.items = 0..MaxItems]
pykspa             == [Unchecked EXCEPT !.files = 3, !.items = 0..MaxItems]
qadars             == [Batch EXCEPT !.rows = 1..MaxRows, !.tests = "row"]
qakbot             == [Single EXCEPT !.files = 5]
ramdo              == Single
ramnit             == Single
ranbyus_v2         == Batch
rovnix             == Single
shiotob            == Single
simda              == Single
sisron             == Batch
suppobox           == [Single EXCEPT !.files = 5, !.tests = "pass", !.leaves = "patience"]
symmi              == Batch
tempedreve         == [Batch EXCEPT !.items = 0..MaxItems, !.leaves = "collided_100"]
tinba              == Single
vawtrak_v1         == Single
vawtrak_v2         == Single
vawtrak_v3         == Single
zeus_newgoz        == Single

Scripts ==
    {alureon_dnschanger, banjori, bedep, ccleaner, chinad, corebot, cryptolocker, dircrypt,
     dyre, fobber_v1, fobber_v2, gozi, kraken_v1, kraken_v2, matsnu, murofet_v1, murofet_v2,
     murofet_v3, necurs, nymaim, padcrypt, pizd, proslikefan, pushdo, pykspa_noise, pykspa,
     qadars, qakbot, ramdo, ramnit, ranbyus_v2, rovnix, shiotob, simda, sisron, suppobox,
     symmi, tempedreve, tinba, vawtrak_v1, vawtrak_v2, vawtrak_v3, zeus_newgoz}
=============================================================================
