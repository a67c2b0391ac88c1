--------------------------- MODULE MCDirectRuntime ---------------------------
(* The runtime with one session; the intents are set per run. *)
EXTENDS DirectRuntime

CONSTANT k1

OneKey == {k1}
=============================================================================
