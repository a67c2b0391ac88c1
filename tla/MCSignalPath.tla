------------------------------ MODULE MCSignalPath ------------------------------
(* The queue's capacity is well below the number of candidates, so candidates
   are refused and dropped for the end of gathering. *)
EXTENDS SignalPath
=============================================================================
