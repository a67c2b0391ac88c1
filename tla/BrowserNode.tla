------------------------------ MODULE BrowserNode ------------------------------
(***************************************************************************)
(* The state of one browser runtime node (BrowserRuntimeNode): its         *)
(* sessions, the application connections it admitted, the custom addresses *)
(* its transport announces, and whether it was closed.  One action per     *)
(* method of the node that changes that state; the runtime around the node *)
(* may call them in any order.  The runtime is single threaded, so what a  *)
(* method does between two awaits is one step.  A call the method refuses  *)
(* changes nothing and is no action.                                       *)
(***************************************************************************)
EXTENDS SessionState, Naturals, Sequences

CONSTANTS Keys,            \* session keys (one per dial id)
          DialIntents,     \* the transport intents the application dials with
          MaxConnections   \* bound: application connections admitted in a run

ASSUME NodeAssumption ==
  /\ "None" \notin Keys
  /\ DialIntents \subseteq Intents
  /\ MaxConnections \in Nat

VARIABLES sessions,     \* session key -> Session, or NoSession
          connections,  \* admitted connections, in the order of their keys
          advertised,   \* session keys whose address the transport announces
          closed        \* the node was closed

nodeVars == <<sessions, connections, advertised, closed>>

Connection == [session   : Keys \cup {"None"},
               transport : Transports,
               closed    : BOOLEAN]

TypeOK ==
  /\ sessions \in [Keys -> Session \cup {NoSession}]
  /\ connections \in Seq(Connection)
  /\ advertised \subseteq Keys
  /\ closed \in BOOLEAN

Init ==
  /\ sessions = [k \in Keys |-> NoSession]
  /\ connections = <<>>
  /\ advertised = {}
  /\ closed = FALSE

-----------------------------------------------------------------------------

Allocated(k) == sessions[k] # NoSession

(* refresh_webrtc_transport_addrs: the announced set is replaced. *)
RefreshAddrs == advertised' = {k \in Keys : Advertisable(sessions'[k])}

RefreshAddrsIf(uses) == IF uses THEN RefreshAddrs ELSE UNCHANGED advertised

SetSession(k, s) == sessions' = [sessions EXCEPT ![k] = s]

(* A fresh dial id is drawn for every dial. *)
AllocateDial(k, intent) ==
  /\ ~closed /\ ~Allocated(k)
  /\ SetSession(k, NewSession("Dialer", intent))
  /\ RefreshAddrsIf(UsesWebRtc(intent))
  /\ UNCHANGED <<connections, closed>>

(* Mutant: the address of an accepted session is not announced. *)
AcceptUnannounced(k, intent) ==
  /\ ~closed /\ ~Allocated(k)
  /\ SetSession(k, NewSession("Acceptor", intent))
  /\ UNCHANGED <<advertised, connections, closed>>

(* A DialRequest whose dial id is already known is refused. *)
AllocateAcceptSession(k, intent) ==
  /\ ~closed /\ ~Allocated(k)
  /\ SetSession(k, NewSession("Acceptor", intent))
  /\ RefreshAddrsIf(UsesWebRtc(intent))
  /\ UNCHANGED <<connections, closed>>

UpdateSession(k, s) ==
  /\ ~closed /\ Allocated(k)
  /\ SetSession(k, s)
  /\ RefreshAddrs
  /\ UNCHANGED <<connections, closed>>

AttachDataChannel(k) ==
  /\ CanAttachTransferredChannel(sessions[k])
  /\ UpdateSession(k, AttachTransferredChannel(sessions[k]))

MarkDataChannelOpen(k) ==
  /\ CanMarkTransferredChannelOpen(sessions[k])
  /\ UpdateSession(k, MarkTransferredChannelOpen(sessions[k]))

(* A channel handed over open is attached and marked open in one go. *)
AttachOpenDataChannel(k) ==
  /\ CanAttachTransferredChannel(sessions[k])
  /\ UpdateSession(k, MarkTransferredChannelOpen(AttachTransferredChannel(sessions[k])))

(* Mutant: a terminal decision creates the session it is about. *)
DecideForUnknown(k, reason) ==
  /\ ~closed
  /\ SetSession(k, RecordTerminalSent(sessions[k], reason))
  /\ UNCHANGED <<connections, advertised, closed>>

(* emit_terminal_decision: an earlier terminal is overwritten, and the
   announced addresses are left as they were. *)
EmitTerminalDecision(k, reason) ==
  /\ ~closed /\ Allocated(k)
  /\ SetSession(k, RecordTerminalSent(sessions[k], reason))
  /\ UNCHANGED <<connections, advertised, closed>>

DecideWebRtcFailure(k)  == EmitTerminalDecision(k, FailureReason(sessions[k]))
DecideWebRtcClosed(k)   == EmitTerminalDecision(k, "Closed")

ApplyRemoteTerminal(k, reason) ==
  /\ ~closed /\ Allocated(k)
  /\ SetSession(k, RecordTerminalReceived(sessions[k], reason))
  /\ UNCHANGED <<connections, advertised, closed>>

AddConnection(session, transport) ==
  /\ Len(connections) < MaxConnections
  /\ connections' = Append(connections, [session   |-> session,
                                         transport |-> transport,
                                         closed    |-> FALSE])

(* The tail of both application dials: complete_dial (with its refresh),
   then the admission of the connection, with no await in between.  The
   connection's selected path was matched with the session before. *)
CompleteDialAndAdmit(k, transport) ==
  /\ CanCompleteDial(sessions[k], transport)
  /\ AddConnection(k, transport)
  /\ ~closed /\ Allocated(k)
  /\ SetSession(k, ResolveTransport(sessions[k], transport))
  /\ RefreshAddrs
  /\ UNCHANGED closed

(* Mutant: a session already resolved matches another connection. *)
MatchesResolved(s) ==
  s.role = "Acceptor" /\ UsesWebRtc(s.intent) /\ s.channel = "Open"
  /\ s.lifecycle \in {"WebRtcNegotiating", "ApplicationReady"}

(* accept_webrtc_connection for a connection whose path is the one of k. *)
MatchesIncoming(s) ==
  /\ s.role = "Acceptor"
  /\ UsesWebRtc(s.intent)
  /\ s.resolved = "None"
  /\ s.channel = "Open"
  /\ s.lifecycle \in {"WebRtcNegotiating", "ApplicationReady"}

(* admitted is FALSE where the accept queue was full, or a protocol handler
   keeps the connection to itself: the session is resolved all the same. *)
AcceptWebRtcConnection(k, admitted) ==
  /\ ~closed
  /\ MatchesIncoming(sessions[k])
  /\ ValidResolution(sessions[k], "WebRtc")
  /\ SetSession(k, ResolveTransport(sessions[k], "WebRtc"))
  /\ RefreshAddrs
  /\ IF admitted THEN AddConnection(k, "WebRtc") ELSE UNCHANGED connections
  /\ UNCHANGED closed

(* A connection over the relay endpoint belongs to no session. *)
AcceptRelayConnection ==
  /\ ~closed
  /\ AddConnection("None", "IrohRelay")
  /\ UNCHANGED <<sessions, advertised, closed>>

CloseConnection(c) ==
  LET k == connections[c].session IN
  /\ ~closed
  /\ connections' = [connections EXCEPT ![c].closed = TRUE]
  /\ IF connections[c].transport = "WebRtc"
       THEN /\ SetSession(k, CloseSession(sessions[k]))
            /\ RefreshAddrs
       ELSE UNCHANGED <<sessions, advertised>>
  /\ UNCHANGED closed

(* close_inner; a second close returns before it changes anything. *)
CloseNode ==
  /\ ~closed
  /\ closed' = TRUE
  /\ sessions' = [k \in Keys |-> IF Allocated(k) THEN CloseForNode(sessions[k])
                                                 ELSE NoSession]
  /\ connections' = [c \in 1..Len(connections) |->
                       [connections[c] EXCEPT !.closed = TRUE]]
  /\ UNCHANGED advertised

Next ==
  \/ \E k \in Keys :
       \/ \E intent \in DialIntents : AllocateDial(k, intent)
       \/ \E intent \in Intents : AllocateAcceptSession(k, intent)
       \/ AttachDataChannel(k)
       \/ MarkDataChannelOpen(k)
       \/ AttachOpenDataChannel(k)
       \/ DecideWebRtcFailure(k)
       \/ DecideWebRtcClosed(k)
       \/ \E reason \in Reasons : ApplyRemoteTerminal(k, reason)
       \/ \E transport \in Transports : CompleteDialAndAdmit(k, transport)
       \/ \E admitted \in BOOLEAN : AcceptWebRtcConnection(k, admitted)
  \/ AcceptRelayConnection
  \/ \E c \in 1..Len(connections) : CloseConnection(c)
  \/ CloseNode

Spec == Init /\ [][Next]_nodeVars

-----------------------------------------------------------------------------

(* A session dialed or accepted as WebRTC-only never reaches the application
   over the relay: its transport is never resolved to the relay, whatever
   terminal signals cross, and no admitted connection of it is a relay one
   (node.rs validate_transport_resolution, session_state.rs
   apply_terminal_reason). *)
WebRtcOnlyNeverRelays ==
  /\ \A k \in Keys : sessions[k].intent = "WebRtcOnly" => sessions[k].resolved # "IrohRelay"
  /\ \A c \in 1..Len(connections), k \in Keys :
       (connections[c].session = k /\ sessions[k].intent = "WebRtcOnly")
         => connections[c].transport = "WebRtc"

(* Packets for a session are routed by its announced address, so a WebRTC
   session that is neither failed nor closed is always announced, although
   terminal decisions leave the announced set stale (rtc.rs does not refresh
   there). *)
UsableSessionsAdvertised ==
  ~closed => \A k \in Keys : Advertisable(sessions[k]) => k \in advertised

(* Every WebRTC application connection was admitted over a data channel that
   was open: the session's channel is open or has ended since, and is never
   one that is still awaited or being handed over, although the session is
   looked at before the connect is awaited and resolved after it (core.rs
   dial_webrtc_application_connection). *)
WebRtcConnectionHadChannel ==
  \A c \in 1..Len(connections), k \in Keys :
    (connections[c].session = k /\ connections[c].transport = "WebRtc")
      => sessions[k].channel \in {"Open"} \cup Ended

(* A data channel that failed or was closed is never attached or opened again
   under the same session: late RTC events of a dead channel do not revive
   the session. *)
ChannelNeverRevives ==
  [][\A k \in Keys : sessions[k].channel \in Ended => sessions'[k].channel \in Ended]_nodeVars

(* Once a WebRTC-only session failed or was closed no later event makes it
   ready for the application again; only a session that may use the relay
   can become ready after a terminal reason. *)
WebRtcOnlyEndIsFinal ==
  [][\A k \in Keys : (sessions[k].intent = "WebRtcOnly" /\ sessions[k].lifecycle \in Ended)
       => sessions'[k].lifecycle \in Ended]_nodeVars
=============================================================================
