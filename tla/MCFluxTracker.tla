--------------------------- MODULE MCFluxTracker ---------------------------
(* The instance of FluxTracker for TLC: a domain with two addresses, and    *)
(* one with a single address that shares the list with it.                  *)
EXTENDS FluxTracker, TLC

CONSTANTS d1, d2, a, b

MCDomains == {d1, d2}
MCIPs     == {a, b}
MCAnswers == {<<d1, a>>, <<d1, b>>, <<d2, a>>}

Symmetry == Permutations(Threads) \cup Permutations(Entries)
=============================================================================
