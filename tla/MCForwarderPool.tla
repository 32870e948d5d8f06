--------------------------- MODULE MCForwarderPool ---------------------------
(* A small instance of ForwarderPool.                                      *)
EXTENDS ForwarderPool
=============================================================================
