----------------------------- MODULE MCJobQueue -----------------------------
(* A small instance of JobQueue.                                            *)
EXTENDS JobQueue
=============================================================================
