---------------------------- MODULE MCAcceptQueue ----------------------------
(* Two acceptors of one ALPN, one after the other, and three accept calls. *)
EXTENDS AcceptQueue, TLC

CONSTANTS a1, a2, c1, c2, c3

MCAcceptors == {a1, a2}
MCCalls == {c1, c2, c3}

MCSymmetry == Permutations(MCAcceptors) \cup Permutations(MCCalls)
=============================================================================
