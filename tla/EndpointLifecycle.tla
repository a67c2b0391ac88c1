--------------------------- MODULE EndpointLifecycle ---------------------------
(***************************************************************************)
(* The WebRTC endpoint of a node (browser_runtime/node/core.rs).  Every    *)
(* dial whose data channel opened restarts it: the endpoint and its router *)
(* are taken out of the node, closed, a new pair is bound and installed,   *)
(* and the dial connects over the new endpoint.  Closing and binding are   *)
(* awaited, so restarts of several dials and the close of the node         *)
(* interleave.  The model starts where start_endpoint has installed the    *)
(* first endpoint: the node is not shared before.                          *)
(***************************************************************************)
EXTENDS Naturals

CONSTANTS Dials,
          MaxEndpoints   \* bound: endpoints bound in a run

ASSUME EndpointAssumption == MaxEndpoints \in Nat \ {0}

Endpoints == 1..MaxEndpoints

VARIABLES endpoint,    \* endpoint -> "Unbound", "Open", "Closed"
          installed,   \* webrtc_endpoint of the node, 0 where it has none
          closing,     \* endpoints the close of the node spawned a close for
          closed,      \* the node is closed
          dial,        \* dial -> its place in dial_webrtc_application_connection:
                       \* "Idle", "ClosingOld", "Binding", "Connecting", "Admitted", "Failed"
          held,        \* dial -> the endpoint it closes or connects over, or 0
          conn         \* dial -> the endpoint its admitted connection runs on, or 0

vars == <<endpoint, installed, closing, closed, dial, held, conn>>

Init ==
  /\ endpoint = [e \in Endpoints |-> IF e = 1 THEN "Open" ELSE "Unbound"]
  /\ installed = 1
  /\ closing = {}
  /\ closed = FALSE
  /\ dial = [d \in Dials |-> "Idle"]
  /\ held = [d \in Dials |-> 0]
  /\ conn = [d \in Dials |-> 0]

At(d, place) == dial' = [dial EXCEPT ![d] = place]
Holds(d, e)  == held' = [held EXCEPT ![d] = e]

-----------------------------------------------------------------------------
(* restart_webrtc_endpoint *)

Restart(d) ==
  /\ dial[d] = "Idle" /\ ~closed
  /\ Holds(d, installed)
  /\ installed' = 0
  /\ At(d, IF installed # 0 THEN "ClosingOld" ELSE "Binding")
  /\ UNCHANGED <<endpoint, closing, closed, conn>>

(* The router was shut down and the endpoint closed, with every connection
   that runs on it. *)
OldEndpointCloses(d) ==
  /\ dial[d] = "ClosingOld"
  /\ endpoint' = [endpoint EXCEPT ![held[d]] = "Closed"]
  /\ Holds(d, 0)
  /\ At(d, "Binding")
  /\ UNCHANGED <<installed, closing, closed, conn>>

Fresh(e) == endpoint[e] = "Unbound" /\ \A f \in Endpoints : endpoint[f] = "Unbound" => e <= f

(* Mutant: whether the node was closed meanwhile is not asked again. *)
InstallsUnasked(d, e) ==
  /\ dial[d] = "Binding" /\ Fresh(e)
  /\ endpoint' = [endpoint EXCEPT ![e] = "Open"]
  /\ installed' = e
  /\ Holds(d, e)
  /\ At(d, "Connecting")
  /\ UNCHANGED <<closing, closed, conn>>

(* An endpoint that another restart installed meanwhile is overwritten; for a
   closed node the new one is closed again. *)
BindsAndInstalls(d, e) ==
  /\ dial[d] = "Binding" /\ Fresh(e)
  /\ IF closed
     THEN /\ endpoint' = [endpoint EXCEPT ![e] = "Closed"]
          /\ At(d, "Failed")
          /\ UNCHANGED <<installed, held>>
     ELSE /\ endpoint' = [endpoint EXCEPT ![e] = "Open"]
          /\ installed' = e
          /\ Holds(d, e)
          /\ At(d, "Connecting")
  /\ UNCHANGED <<closing, closed, conn>>

(* The node is left without an endpoint. *)
BindFails(d) ==
  /\ dial[d] = "Binding"
  /\ At(d, "Failed")
  /\ UNCHANGED <<endpoint, installed, closing, closed, held, conn>>

-----------------------------------------------------------------------------
(* The connect of the dial, complete_dial and the admission *)

(* A connection a closed node does not admit is dropped. *)
ConnectSucceeds(d) ==
  /\ dial[d] = "Connecting" /\ endpoint[held[d]] = "Open"
  /\ Holds(d, 0)
  /\ IF closed
     THEN At(d, "Failed") /\ UNCHANGED conn
     ELSE At(d, "Admitted") /\ conn' = [conn EXCEPT ![d] = held[d]]
  /\ UNCHANGED <<endpoint, installed, closing, closed>>

ConnectFails(d) ==
  /\ dial[d] = "Connecting"
  /\ Holds(d, 0)
  /\ At(d, "Failed")
  /\ UNCHANGED <<endpoint, installed, closing, closed, conn>>

-----------------------------------------------------------------------------

(* close_inner: the endpoint is taken and a task spawned that closes it. *)
CloseNode ==
  /\ ~closed /\ closed' = TRUE
  /\ closing' = closing \cup ({installed} \ {0})
  /\ installed' = 0
  /\ UNCHANGED <<endpoint, dial, held, conn>>

SpawnedClose(e) ==
  /\ e \in closing
  /\ closing' = closing \ {e}
  /\ endpoint' = [endpoint EXCEPT ![e] = "Closed"]
  /\ UNCHANGED <<installed, closed, dial, held, conn>>

DialStep(d) ==
  \/ Restart(d) \/ OldEndpointCloses(d)
  \/ BindFails(d) \/ \E e \in Endpoints : BindsAndInstalls(d, e)
  \/ ConnectSucceeds(d) \/ ConnectFails(d)

Next ==
  \/ \E d \in Dials : DialStep(d)
  \/ CloseNode
  \/ \E e \in Endpoints : SpawnedClose(e)

Spec == Init /\ [][Next]_vars

-----------------------------------------------------------------------------

(* However restarts and the close of the node interleave, what is installed in
   the node is an endpoint nobody closed and nobody is about to close, and a
   closed node has none: a restart that finds the node closed after its bind
   does not bring an endpoint back (core.rs restart_webrtc_endpoint). *)
InstalledEndpointIsUsable ==
  installed # 0 =>
    /\ ~closed
    /\ endpoint[installed] = "Open"
    /\ \A d \in Dials : dial[d] = "ClosingOld" => held[d] # installed

(* tests.rs:351 "simultaneous_same_remote_alpn_dials_allocate_independent_sessions",
   addr.rs:43: a session id "disambiguates multiple simultaneous WebRTC peer
   connections for the same Iroh endpoint".  So while the node is open and
   nobody closes it, the connection of one session runs on, whatever other
   dials do. *)
SessionsAreIndependent ==
  \A d \in Dials : (dial[d] = "Admitted" /\ ~closed) => endpoint[conn[d]] = "Open"
=============================================================================
