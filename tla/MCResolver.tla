----------------------------- MODULE MCResolver -----------------------------
(* Small instance of Resolver.                                             *)
EXTENDS Resolver
=============================================================================
