----------------------------- MODULE DatagramFifo -----------------------------
(***************************************************************************)
(* What Iroh is promised of the receive side of the custom transport: the  *)
(* datagrams of every accepted frame come out whole, once and in the order *)
(* the frames were accepted, any number of them per poll.                  *)
(***************************************************************************)
EXTENDS Sequences, Naturals

CONSTANT Datagrams   \* what a datagram may be

VARIABLES queued,      \* datagrams accepted and not yet handed out
          delivered    \* datagrams handed out, in order

fifoVars == <<queued, delivered>>

Init == queued = <<>> /\ delivered = <<>>

Accept(datagrams) ==
  /\ queued' = queued \o datagrams
  /\ UNCHANGED delivered

Deliver(n) ==
  /\ delivered' = delivered \o SubSeq(queued, 1, n)
  /\ queued' = SubSeq(queued, n + 1, Len(queued))

Next ==
  \/ \E datagrams \in Datagrams : Accept(datagrams)
  \/ \E n \in 1..Len(queued) : Deliver(n)

Spec == Init /\ [][Next]_fifoVars
=============================================================================
