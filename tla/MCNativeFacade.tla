---------------------------- MODULE MCNativeFacade ----------------------------
(* Two nodes.  The second dial goes over the relay: what it shares with the first
   is the accept queue. *)
EXTENDS NativeFacade, TLC

CONSTANTS a, b, d1, d2

MCNodes == {a, b}
MCDials == {d1, d2}
FromA == [d \in MCDials |-> a]
ToB   == [d \in MCDials |-> b]

AnyAndRelay == d1 :> {"IrohRelay", "WebRtcPreferred", "WebRtcOnly"} @@ d2 :> {"IrohRelay"}
=============================================================================
