---------------------------- MODULE MCReputation ----------------------------
(* The instance of Reputation for TLC.                                      *)
EXTENDS Reputation, TLC

Symmetry == Permutations(Threads) \cup Permutations(Domains) \cup Permutations(Entries)
=============================================================================
