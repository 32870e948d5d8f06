---------------------------- MODULE MCProcessor ----------------------------
(* Small instances of Processor.                                           *)
EXTENDS Processor, TLC

CONSTANTS u1, tcp, doh, good, other

\* A UDP worker with a DoH connection, and with the TCP listener.
KindUD == (u1 :> "udp") @@ (doh :> "doh")
KindUT == (u1 :> "udp") @@ (tcp :> "tcp")

\* Two names that share a home slot, and a name alone.
HomeGood == (good :> 0) @@ (other :> 0)
HomeOne  == (good :> 0)

\* The buffers are alike.
Symmetry == Permutations(Blocks)
=============================================================================
