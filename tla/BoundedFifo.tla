----------------------------- MODULE BoundedFifo -----------------------------
(***************************************************************************)
(* What the UDP job queue of src/src/main.c promises: packets are accepted *)
(* while there is room, dropped otherwise, and the accepted ones are       *)
(* started once each, in the order in which they came.                     *)
(***************************************************************************)
EXTENDS Naturals, Sequences

CONSTANTS Size, Packets

VARIABLES
    pending,  \* accepted packets that no worker has started
    started,  \* packets given to workers, in order
    arrived   \* the number of packets received

fifoVars == <<pending, started, arrived>>

Init == pending = << >> /\ started = << >> /\ arrived = 0

Receive ==
    /\ arrived + 1 \in Packets
    /\ arrived' = arrived + 1

Accept ==
    /\ Receive
    /\ Len(pending) < Size
    /\ pending' = Append(pending, arrived')
    /\ UNCHANGED started

Drop ==
    /\ Receive
    /\ Len(pending) = Size
    /\ UNCHANGED <<pending, started>>

Start ==
    /\ pending # << >>
    /\ started' = Append(started, Head(pending))
    /\ pending' = Tail(pending)
    /\ UNCHANGED arrived

Next == Accept \/ Drop \/ Start

Spec == Init /\ [][Next]_fifoVars
=============================================================================
