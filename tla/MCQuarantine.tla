---------------------------- MODULE MCQuarantine ----------------------------
(* A small instance of Quarantine.                                         *)
EXTENDS Quarantine, TLC

Symmetry == Permutations(Threads) \cup Permutations(Clients)
=============================================================================
