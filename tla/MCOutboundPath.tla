---------------------------- MODULE MCOutboundPath ----------------------------
(* One session with one sender; the larger packet exceeds the gap between the
   thresholds. *)
EXTENDS NativePump

CONSTANT s1

MCSenders == {s1}
MCSizes == {1, 3}
=============================================================================
