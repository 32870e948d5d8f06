----------------------------- MODULE MCDataset -----------------------------
(* A small instance of Dataset.                                            *)
EXTENDS Dataset

\* Seven lists, each one domain longer than the one before.
SmallTiers == [i \in 1..7 |-> i]
=============================================================================
