------------------------------ MODULE MCCache ------------------------------
(* Small instances of Cache: three keys, two of which share a home slot     *)
(* and the third of which lives where the second overflows to.             *)
EXTENDS Cache, TLC

CONSTANTS a, b, c

KeysABC == {a, b, c}
HomeABC == (a :> 0) @@ (b :> 0) @@ (c :> 1)
=============================================================================
