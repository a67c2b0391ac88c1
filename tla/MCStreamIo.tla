------------------------------ MODULE MCStreamIo ------------------------------
(* Two dials, an endpoint for each beside the first, and a stream of one. *)
EXTENDS StreamIo

CONSTANTS d1, d2

TwoDials == {d1, d2}
=============================================================================
