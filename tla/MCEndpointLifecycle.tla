-------------------------- MODULE MCEndpointLifecycle --------------------------
(* Three dials, and an endpoint for each beside the first. *)
EXTENDS EndpointLifecycle, TLC

CONSTANTS d1, d2, d3

ThreeDials == {d1, d2, d3}
MCSymmetry == Permutations(ThreeDials)
=============================================================================
