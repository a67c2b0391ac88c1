--------------------------- MODULE BrowserNodeProofs ---------------------------
(***************************************************************************)
(* The invariants and action properties of BrowserNode for any set of      *)
(* keys and any number of connections.  What a single session can go       *)
(* through is proved once, operation by operation (Progress); the node's   *)
(* step lemma lifts it to all sessions, and the properties follow.         *)
(***************************************************************************)
EXTENDS BrowserNode, TLAPS

(* What holds of every stored session, beyond its type. *)
SessionInv(s) ==
  /\ UsesWebRtc(s.intent) => s.channel # "NotRequired"
  /\ UsesWebRtc(s.intent) /\ s.lifecycle \in Ended => s.channel \in Ended
  /\ s.intent = "WebRtcOnly" => s.resolved # "IrohRelay"

Sound(s) == s \in Session /\ SessionInv(s)

(* What an operation may do to a session. *)
Progress(s, t) ==
  /\ Sound(t)
  /\ t.role = s.role /\ t.intent = s.intent
  /\ s.channel \in Ended => t.channel \in Ended
  /\ s.channel = "Open" => t.channel \in {"Open"} \cup Ended
  /\ s.intent = "WebRtcOnly" /\ s.lifecycle \in Ended => t.lifecycle \in Ended

-----------------------------------------------------------------------------
(* The operations of a session *)

LEMMA NewSessionSound ==
  ASSUME NEW role \in Roles, NEW intent \in Intents
  PROVE  Sound(NewSession(role, intent)) /\ NewSession(role, intent) # NoSession
BY DEF Sound, SessionInv, NewSession, NoSession, Session, Roles, Intents, Transports,
       Channels, Lifecycles, Reasons, UsesWebRtc, Ended

LEMMA AttachProgress ==
  ASSUME NEW s, Sound(s), CanAttachTransferredChannel(s)
  PROVE  Progress(s, AttachTransferredChannel(s))
BY DEF Progress, Sound, SessionInv, Session, CanAttachTransferredChannel,
       AttachTransferredChannel, Channels, UsesWebRtc, Ended

LEMMA OpenProgress ==
  ASSUME NEW s, Sound(s), CanMarkTransferredChannelOpen(s)
  PROVE  Progress(s, MarkTransferredChannelOpen(s))
BY DEF Progress, Sound, SessionInv, Session, CanMarkTransferredChannelOpen,
       MarkTransferredChannelOpen, Channels, UsesWebRtc, Ended

LEMMA AttachOpenProgress ==
  ASSUME NEW s, Sound(s), CanAttachTransferredChannel(s)
  PROVE  Progress(s, MarkTransferredChannelOpen(AttachTransferredChannel(s)))
BY DEF Progress, Sound, SessionInv, Session, CanAttachTransferredChannel,
       AttachTransferredChannel, MarkTransferredChannelOpen, Channels, UsesWebRtc, Ended

LEMMA EndAsProgress ==
  ASSUME NEW s, Sound(s), NEW end \in Ended
  PROVE  Progress(s, EndAs(s, end)) /\ EndAs(s, end).lifecycle = end
BY DEF Progress, Sound, SessionInv, Session, EndAs, Channels, Lifecycles, UsesWebRtc, Ended

LEMMA ResolveProgress ==
  ASSUME NEW s, Sound(s), NEW transport \in Transports, ValidResolution(s, transport)
  PROVE  Progress(s, ResolveTransport(s, transport))
BY DEF Progress, Sound, SessionInv, Session, ValidResolution, ResolveTransport,
       Transports, Lifecycles, UsesWebRtc, Ended

LEMMA SelectRelayProgress ==
  ASSUME NEW s, Sound(s), AllowsRelayFallback(s.intent)
  PROVE  Progress(s, SelectRelay(s))
BY DEF Progress, Sound, SessionInv, Session, SelectRelay, AllowsRelayFallback,
       Transports, Lifecycles, Channels, UsesWebRtc, Ended

(* A terminal reason leaves nothing to announce. *)
LEMMA TerminalReasonProgress ==
  ASSUME NEW s, Sound(s), NEW reason \in Reasons
  PROVE  /\ Progress(s, ApplyTerminalReason(s, reason))
         /\ ~Advertisable(ApplyTerminalReason(s, reason))
<1>1. CASE reason \in {"Cancelled", "Closed"}
  <2>1. ApplyTerminalReason(s, reason) = EndAs(s, "Closed")
    BY <1>1 DEF ApplyTerminalReason, CloseSession
  <2>2. "Closed" \in Ended
    BY DEF Ended
  <2> QED BY <2>1, <2>2, EndAsProgress DEF Advertisable
<1>2. CASE reason \notin {"Cancelled", "Closed"} /\ reason = "FallbackSelected"
             /\ AllowsRelayFallback(s.intent)
  <2>1. ApplyTerminalReason(s, reason) = SelectRelay(s)
    BY <1>2 DEF ApplyTerminalReason
  <2>2. SelectRelay(s).channel = "Failed"
    BY DEF SelectRelay, Sound, Session
  <2> QED BY <1>2, <2>1, <2>2, SelectRelayProgress DEF Advertisable, Ended
<1>3. CASE /\ reason \notin {"Cancelled", "Closed"}
           /\ ~ (reason = "FallbackSelected" /\ AllowsRelayFallback(s.intent))
  <2>1. ApplyTerminalReason(s, reason) = EndAs(s, "Failed")
    BY <1>3 DEF ApplyTerminalReason, Fail
  <2>2. "Failed" \in Ended
    BY DEF Ended
  <2> QED BY <2>1, <2>2, EndAsProgress DEF Advertisable
<1> QED BY <1>1, <1>2, <1>3

LEMMA TerminalProgress ==
  ASSUME NEW s, Sound(s), NEW reason \in Reasons
  PROVE  /\ Progress(s, RecordTerminalReceived(s, reason))
         /\ ~Advertisable(RecordTerminalReceived(s, reason))
         /\ Progress(s, RecordTerminalSent(s, reason))
         /\ ~Advertisable(RecordTerminalSent(s, reason))
<1> DEFINE r == [s EXCEPT !.received = reason]
           t == [s EXCEPT !.sent = reason]
<1>1. /\ Sound(r) /\ r.role = s.role /\ r.intent = s.intent
      /\ r.channel = s.channel /\ r.lifecycle = s.lifecycle
  BY DEF Sound, SessionInv, Session
<1>2. /\ Sound(t) /\ t.role = s.role /\ t.intent = s.intent
      /\ t.channel = s.channel /\ t.lifecycle = s.lifecycle
  BY DEF Sound, SessionInv, Session
<1>3. Progress(r, ApplyTerminalReason(r, reason)) /\ ~Advertisable(ApplyTerminalReason(r, reason))
  BY <1>1, TerminalReasonProgress
<1>4. Progress(t, ApplyTerminalReason(t, reason)) /\ ~Advertisable(ApplyTerminalReason(t, reason))
  BY <1>2, TerminalReasonProgress
<1> QED BY <1>1, <1>2, <1>3, <1>4 DEF Progress, RecordTerminalReceived, RecordTerminalSent

LEMMA CloseForNodeProgress ==
  ASSUME NEW s, Sound(s)
  PROVE  Progress(s, CloseForNode(s))
<1> DEFINE t == [s EXCEPT !.sent = IF SignalsNodeClose(s) THEN "Closed" ELSE @]
<1>1. /\ Sound(t) /\ t.role = s.role /\ t.intent = s.intent
      /\ t.channel = s.channel /\ t.lifecycle = s.lifecycle
  BY DEF Sound, SessionInv, Session, Reasons
<1>2. Progress(t, EndAs(t, "Closed"))
  BY <1>1, EndAsProgress DEF Ended
<1> QED BY <1>1, <1>2 DEF Progress, CloseForNode, CloseSession

LEMMA SoundIsAllocated ==
  ASSUME NEW s, Sound(s)
  PROVE  s # NoSession
BY DEF Sound, Session, NoSession, Roles

-----------------------------------------------------------------------------
(* The inductive invariant.  A connection belongs to a session that exists,
   and a WebRTC one to no other kind; with the soundness of every session
   this carries the safety properties through each step. *)

ConnectionBacked(connection, stored) ==
  /\ connection.transport = "WebRtc" => connection.session # "None"
  /\ connection.session # "None" =>
       LET s == stored[connection.session] IN
       /\ s # NoSession
       /\ s.intent = "WebRtcOnly" => connection.transport = "WebRtc"
       /\ connection.transport = "WebRtc" => s.channel \in {"Open"} \cup Ended

IInv ==
  /\ \A k \in Keys : sessions[k] = NoSession \/ Sound(sessions[k])
  /\ sessions \in [Keys -> Session \cup {NoSession}]
  /\ connections \in Seq(Connection)
  /\ \A c \in 1..Len(connections) : ConnectionBacked(connections[c], sessions)
  /\ advertised \subseteq Keys /\ closed \in BOOLEAN
  /\ UsableSessionsAdvertised

(* What a step does to the sessions: it stores a sound session under a fresh
   key, or lets a stored one progress. *)
SessionsStep ==
  \A k \in Keys :
    \/ sessions'[k] = sessions[k]
    \/ sessions[k] = NoSession /\ Sound(sessions'[k])
    \/ Sound(sessions[k]) /\ Progress(sessions[k], sessions'[k])

LEMMA SetSessionStep ==
  ASSUME IInv, NEW k \in Keys, NEW s, SetSession(k, s), Sound(s),
         sessions[k] = NoSession \/ Progress(sessions[k], s)
  PROVE  SessionsStep /\ sessions' \in [Keys -> Session \cup {NoSession}]
BY DEF IInv, SetSession, SessionsStep, Sound

LEMMA SessionsProgress ==
  ASSUME IInv, [Next]_nodeVars, NodeAssumption
  PROVE  SessionsStep /\ sessions' \in [Keys -> Session \cup {NoSession}]
<1> USE DEF IInv
<1>1. ASSUME NEW k \in Keys, NEW intent \in DialIntents, AllocateDial(k, intent)
      PROVE  SessionsStep /\ sessions' \in [Keys -> Session \cup {NoSession}]
  <2>1. intent \in Intents /\ "Dialer" \in Roles
    BY NodeAssumption DEF NodeAssumption, Roles
  <2> QED BY <1>1, <2>1, NewSessionSound, SetSessionStep DEF AllocateDial, Allocated
<1>2. ASSUME NEW k \in Keys, NEW intent \in Intents, AllocateAcceptSession(k, intent)
      PROVE  SessionsStep /\ sessions' \in [Keys -> Session \cup {NoSession}]
  <2>1. "Acceptor" \in Roles
    BY DEF Roles
  <2> QED BY <1>2, <2>1, NewSessionSound, SetSessionStep DEF AllocateAcceptSession, Allocated
<1>3. ASSUME NEW k \in Keys, AttachDataChannel(k)
      PROVE  SessionsStep /\ sessions' \in [Keys -> Session \cup {NoSession}]
  BY <1>3, AttachProgress, SetSessionStep
     DEF AttachDataChannel, UpdateSession, Allocated, Progress
<1>4. ASSUME NEW k \in Keys, MarkDataChannelOpen(k)
      PROVE  SessionsStep /\ sessions' \in [Keys -> Session \cup {NoSession}]
  BY <1>4, OpenProgress, SetSessionStep
     DEF MarkDataChannelOpen, UpdateSession, Allocated, Progress
<1>5. ASSUME NEW k \in Keys, AttachOpenDataChannel(k)
      PROVE  SessionsStep /\ sessions' \in [Keys -> Session \cup {NoSession}]
  BY <1>5, AttachOpenProgress, SetSessionStep
     DEF AttachOpenDataChannel, UpdateSession, Allocated, Progress
<1>6. ASSUME NEW k \in Keys, NEW reason \in Reasons, EmitTerminalDecision(k, reason)
      PROVE  SessionsStep /\ sessions' \in [Keys -> Session \cup {NoSession}]
  BY <1>6, TerminalProgress, SetSessionStep DEF EmitTerminalDecision, Allocated, Progress
<1>7. ASSUME NEW k \in Keys, NEW reason \in Reasons, ApplyRemoteTerminal(k, reason)
      PROVE  SessionsStep /\ sessions' \in [Keys -> Session \cup {NoSession}]
  BY <1>7, TerminalProgress, SetSessionStep DEF ApplyRemoteTerminal, Allocated, Progress
<1>8. ASSUME NEW k \in Keys, NEW transport \in Transports, CompleteDialAndAdmit(k, transport)
      PROVE  SessionsStep /\ sessions' \in [Keys -> Session \cup {NoSession}]
  BY <1>8, ResolveProgress, SetSessionStep
     DEF CompleteDialAndAdmit, CanCompleteDial, Allocated, Progress
<1>9. ASSUME NEW k \in Keys, NEW admitted \in BOOLEAN, AcceptWebRtcConnection(k, admitted)
      PROVE  SessionsStep /\ sessions' \in [Keys -> Session \cup {NoSession}]
  <2>1. Sound(sessions[k]) /\ "WebRtc" \in Transports
    BY <1>9 DEF AcceptWebRtcConnection, MatchesIncoming, NoSession, Transports
  <2> QED BY <1>9, <2>1, ResolveProgress, SetSessionStep
        DEF AcceptWebRtcConnection, Progress
<1>10. ASSUME NEW c \in 1..Len(connections), CloseConnection(c)
       PROVE  SessionsStep /\ sessions' \in [Keys -> Session \cup {NoSession}]
  <2>1. CASE connections[c].transport = "WebRtc"
    <3> DEFINE k == connections[c].session
    <3>1. k \in Keys /\ Sound(sessions[k])
      <4>1. connections[c] \in Connection /\ ConnectionBacked(connections[c], sessions)
        OBVIOUS
      <4>2. k \in Keys \cup {"None"}
        BY <4>1 DEF Connection
      <4>3. k # "None" /\ sessions[k] # NoSession
        BY <2>1, <4>1 DEF ConnectionBacked
      <4> HIDE DEF k
      <4> QED BY <4>2, <4>3
    <3>2. SetSession(k, EndAs(sessions[k], "Closed")) /\ "Closed" \in Ended
      BY <1>10, <2>1 DEF CloseConnection, CloseSession, Ended
    <3> HIDE DEF k
    <3> QED BY <3>1, <3>2, EndAsProgress, SetSessionStep DEF Progress
  <2>2. CASE connections[c].transport # "WebRtc"
    BY <1>10, <2>2 DEF CloseConnection, SessionsStep
  <2> QED BY <2>1, <2>2
<1>11. ASSUME CloseNode
       PROVE  SessionsStep /\ sessions' \in [Keys -> Session \cup {NoSession}]
  <2>1. \A k \in Keys : sessions[k] # NoSession => Progress(sessions[k], sessions'[k])
    BY <1>11, CloseForNodeProgress DEF CloseNode, Allocated
  <2>2. \A k \in Keys : sessions[k] = NoSession => sessions'[k] = NoSession
    BY <1>11 DEF CloseNode, Allocated
  <2>3. \A k \in Keys : sessions'[k] \in Session \cup {NoSession}
    BY <2>1, <2>2 DEF Progress, Sound
  <2> QED BY <1>11, <2>1, <2>2, <2>3 DEF CloseNode, SessionsStep
<1>12. ASSUME AcceptRelayConnection \/ UNCHANGED nodeVars
       PROVE  SessionsStep /\ sessions' \in [Keys -> Session \cup {NoSession}]
  BY <1>12 DEF AcceptRelayConnection, nodeVars, SessionsStep
<1>13. \A k \in Keys : FailureReason(sessions[k]) \in Reasons
  BY DEF FailureReason, Reasons
<1>14. "Closed" \in Reasons
  BY DEF Reasons
<1> QED
  BY <1>1, <1>2, <1>3, <1>4, <1>5, <1>6, <1>7, <1>8, <1>9, <1>10, <1>11, <1>12, <1>13, <1>14
     DEF Next, DecideWebRtcFailure, DecideWebRtcClosed

-----------------------------------------------------------------------------
(* What a step does to the connections: it keeps each with its session and
   transport, and admits one at most, of a session resolved to the
   connection's transport in the same step or of none. *)
Admissible(connection) ==
  /\ connection \in Connection
  /\ connection.transport = "WebRtc" => connection.session # "None"
  /\ connection.session # "None" =>
       /\ Sound(sessions[connection.session])
       /\ ValidResolution(sessions[connection.session], connection.transport)

ConnectionsStep ==
  \/ /\ DOMAIN connections' = DOMAIN connections
     /\ \A c \in 1..Len(connections) :
          /\ connections'[c] \in Connection
          /\ connections'[c].session = connections[c].session
          /\ connections'[c].transport = connections[c].transport
  \/ \E connection : connections' = Append(connections, connection) /\ Admissible(connection)

LEMMA AddConnectionStep ==
  ASSUME IInv, NEW k \in Keys, NEW transport \in Transports, AddConnection(k, transport),
         Sound(sessions[k]), ValidResolution(sessions[k], transport), NodeAssumption
  PROVE  connections' \in Seq(Connection) /\ ConnectionsStep
<1> DEFINE connection == [session |-> k, transport |-> transport, closed |-> FALSE]
<1>1. connection \in Connection
  BY DEF Connection
<1>2. Admissible(connection)
  BY <1>1 DEF Admissible
<1>3. connections' = Append(connections, connection)
  BY DEF AddConnection
<1>4. connections' \in Seq(Connection)
  BY <1>1, <1>3 DEF IInv
<1> QED BY <1>2, <1>3, <1>4 DEF ConnectionsStep

LEMMA SameConnections ==
  ASSUME IInv, connections' = connections
  PROVE  connections' \in Seq(Connection) /\ ConnectionsStep
BY DEF IInv, ConnectionsStep

LEMMA ConnectionsProgress ==
  ASSUME IInv, [Next]_nodeVars, NodeAssumption
  PROVE  connections' \in Seq(Connection) /\ ConnectionsStep
<1>1. ASSUME NEW k \in Keys, NEW transport \in Transports, CompleteDialAndAdmit(k, transport)
      PROVE  connections' \in Seq(Connection) /\ ConnectionsStep
  <2>1. Sound(sessions[k]) /\ ValidResolution(sessions[k], transport)
    BY <1>1 DEF IInv, CompleteDialAndAdmit, CanCompleteDial, Allocated
  <2> QED BY <1>1, <2>1, AddConnectionStep DEF CompleteDialAndAdmit
<1>2. ASSUME NEW k \in Keys, NEW admitted \in BOOLEAN, AcceptWebRtcConnection(k, admitted)
      PROVE  connections' \in Seq(Connection) /\ ConnectionsStep
  <2>1. Sound(sessions[k]) /\ "WebRtc" \in Transports
    BY <1>2 DEF IInv, AcceptWebRtcConnection, MatchesIncoming, NoSession, Transports
  <2>2. CASE admitted
    BY <1>2, <2>1, <2>2, AddConnectionStep DEF AcceptWebRtcConnection
  <2>3. CASE ~admitted
    BY <1>2, <2>3, SameConnections DEF AcceptWebRtcConnection
  <2> QED BY <2>2, <2>3
<1>3. ASSUME AcceptRelayConnection
      PROVE  connections' \in Seq(Connection) /\ ConnectionsStep
  <2> DEFINE connection == [session |-> "None", transport |-> "IrohRelay", closed |-> FALSE]
  <2>1. connection \in Connection
    BY DEF Connection, Transports
  <2>2. Admissible(connection)
    BY <2>1 DEF Admissible
  <2>3. connections' = Append(connections, connection)
    BY <1>3 DEF AcceptRelayConnection, AddConnection
  <2>4. connections' \in Seq(Connection)
    BY <2>1, <2>3 DEF IInv
  <2> QED BY <2>2, <2>3, <2>4 DEF ConnectionsStep
<1>4. ASSUME NEW c \in 1..Len(connections), CloseConnection(c)
      PROVE  connections' \in Seq(Connection) /\ ConnectionsStep
  <2>1. connections' = [connections EXCEPT ![c] = [connections[c] EXCEPT !.closed = TRUE]]
    BY <1>4 DEF CloseConnection
  <2>2. connections \in Seq(Connection) /\ connections[c] \in Connection
    BY DEF IInv
  <2>3. [connections[c] EXCEPT !.closed = TRUE] \in Connection
    BY <2>2 DEF Connection
  <2>4. connections' \in Seq(Connection) /\ DOMAIN connections' = DOMAIN connections
    BY <2>1, <2>2, <2>3
  <2>5. ASSUME NEW d \in 1..Len(connections)
        PROVE  /\ connections'[d] \in Connection
               /\ connections'[d].session = connections[d].session
               /\ connections'[d].transport = connections[d].transport
    <3>1. connections[d] \in Connection /\ d \in DOMAIN connections
      BY DEF IInv
    <3>2. CASE d = c
      <4>1. connections'[d] = [connections[c] EXCEPT !.closed = TRUE]
        BY <2>1, <3>1, <3>2
      <4> QED BY <2>2, <2>3, <3>2, <4>1 DEF Connection
    <3>3. CASE d # c
      <4>1. connections'[d] = connections[d]
        BY <2>1, <3>1, <3>3
      <4> QED BY <3>1, <4>1
    <3> QED BY <3>2, <3>3
  <2> QED BY <2>4, <2>5 DEF ConnectionsStep
<1>5. ASSUME CloseNode
      PROVE  connections' \in Seq(Connection) /\ ConnectionsStep
  <2>1. connections' = [c \in 1..Len(connections) |-> [connections[c] EXCEPT !.closed = TRUE]]
    BY <1>5 DEF CloseNode
  <2>2. \A c \in 1..Len(connections) :
          /\ connections'[c] \in Connection
          /\ connections'[c].session = connections[c].session
          /\ connections'[c].transport = connections[c].transport
    <3> TAKE c \in 1..Len(connections)
    <3>1. connections[c] \in Connection
      BY DEF IInv
    <3>2. connections'[c] = [connections[c] EXCEPT !.closed = TRUE]
      BY <2>1
    <3> QED BY <3>1, <3>2 DEF Connection
  <2>3. DOMAIN connections' = DOMAIN connections /\ connections' \in Seq(Connection)
    BY <2>1, <2>2 DEF IInv
  <2> QED BY <2>2, <2>3 DEF ConnectionsStep
<1> QED
  BY <1>1, <1>2, <1>3, <1>4, <1>5, SameConnections
     DEF Next, nodeVars, AllocateDial, AllocateAcceptSession, AttachDataChannel,
         MarkDataChannelOpen, AttachOpenDataChannel, UpdateSession, DecideWebRtcFailure,
         DecideWebRtcClosed, EmitTerminalDecision, ApplyRemoteTerminal

-----------------------------------------------------------------------------
(* Announced addresses: a step either recomputes them or only ends sessions
   and adds such as use no WebRTC. *)

LEMMA AdvertisedStep ==
  ASSUME IInv, [Next]_nodeVars, NodeAssumption
  PROVE  advertised' \subseteq Keys /\ UsableSessionsAdvertised'
<1> USE DEF IInv, UsableSessionsAdvertised
<1>1. ASSUME RefreshAddrs
      PROVE  advertised' \subseteq Keys /\ UsableSessionsAdvertised'
  BY <1>1 DEF RefreshAddrs
<1>2. ASSUME NEW k \in Keys, NEW s, SetSession(k, s), ~Advertisable(s),
             UNCHANGED <<advertised, closed>>
      PROVE  advertised' \subseteq Keys /\ UsableSessionsAdvertised'
  BY <1>2 DEF SetSession
<1>3. ASSUME UNCHANGED <<sessions, advertised, closed>>
      PROVE  advertised' \subseteq Keys /\ UsableSessionsAdvertised'
  BY <1>3
<1>4. ASSUME NEW k \in Keys, NEW intent \in Intents, NEW role \in Roles,
             SetSession(k, NewSession(role, intent)), UNCHANGED closed,
             RefreshAddrsIf(UsesWebRtc(intent))
      PROVE  advertised' \subseteq Keys /\ UsableSessionsAdvertised'
  <2>1. CASE UsesWebRtc(intent)
    BY <1>1, <1>4, <2>1 DEF RefreshAddrsIf
  <2>2. CASE ~UsesWebRtc(intent)
    <3>1. ~Advertisable(NewSession(role, intent))
      BY <2>2 DEF Advertisable, NewSession
    <3> QED BY <1>2, <1>4, <2>2, <3>1 DEF RefreshAddrsIf
  <2> QED BY <2>1, <2>2
<1>5. ASSUME NEW k \in Keys, NEW reason \in Reasons,
             EmitTerminalDecision(k, reason) \/ ApplyRemoteTerminal(k, reason)
      PROVE  advertised' \subseteq Keys /\ UsableSessionsAdvertised'
  <2>1. Sound(sessions[k])
    BY <1>5 DEF EmitTerminalDecision, ApplyRemoteTerminal, Allocated
  <2> QED BY <1>2, <1>5, <2>1, TerminalProgress DEF EmitTerminalDecision, ApplyRemoteTerminal
<1>6. ASSUME NEW c \in 1..Len(connections), CloseConnection(c)
      PROVE  advertised' \subseteq Keys /\ UsableSessionsAdvertised'
  BY <1>1, <1>3, <1>6 DEF CloseConnection
<1>7. ASSUME CloseNode
      PROVE  advertised' \subseteq Keys /\ UsableSessionsAdvertised'
  BY <1>7 DEF CloseNode
<1>8. \A k \in Keys : FailureReason(sessions[k]) \in Reasons /\ "Closed" \in Reasons
  BY DEF FailureReason, Reasons
<1>9. /\ DialIntents \subseteq Intents
      /\ "Dialer" \in Roles /\ "Acceptor" \in Roles
  BY NodeAssumption DEF NodeAssumption, Roles
<1>10. ASSUME NEW k \in Keys, NEW intent \in Intents,
              AllocateDial(k, intent) \/ AllocateAcceptSession(k, intent)
       PROVE  advertised' \subseteq Keys /\ UsableSessionsAdvertised'
  BY <1>4, <1>9, <1>10 DEF AllocateDial, AllocateAcceptSession
<1>11. ASSUME NEW k \in Keys,
              \/ AttachDataChannel(k) \/ MarkDataChannelOpen(k) \/ AttachOpenDataChannel(k)
              \/ \E transport \in Transports : CompleteDialAndAdmit(k, transport)
              \/ \E admitted \in BOOLEAN : AcceptWebRtcConnection(k, admitted)
       PROVE  RefreshAddrs
  BY <1>11 DEF AttachDataChannel, MarkDataChannelOpen, AttachOpenDataChannel, UpdateSession,
               CompleteDialAndAdmit, AcceptWebRtcConnection
<1>12. CASE AcceptRelayConnection \/ UNCHANGED nodeVars
  BY <1>3, <1>12 DEF AcceptRelayConnection, nodeVars
<1> QED
  BY <1>1, <1>5, <1>6, <1>7, <1>8, <1>9, <1>10, <1>11, <1>12
     DEF Next, DecideWebRtcFailure, DecideWebRtcClosed

LEMMA ClosedIsBoolean ==
  ASSUME IInv, [Next]_nodeVars
  PROVE  closed' \in BOOLEAN
BY DEF IInv, Next, nodeVars, AllocateDial, AllocateAcceptSession, AttachDataChannel,
       MarkDataChannelOpen, AttachOpenDataChannel, UpdateSession, DecideWebRtcFailure,
       DecideWebRtcClosed, EmitTerminalDecision, ApplyRemoteTerminal, CompleteDialAndAdmit,
       AcceptWebRtcConnection, AcceptRelayConnection, CloseConnection, CloseNode

-----------------------------------------------------------------------------
(* The invariant *)

LEMMA BackedStaysBacked ==
  ASSUME IInv, SessionsStep, NEW c \in 1..Len(connections), NEW connection,
         connection.session = connections[c].session,
         connection.transport = connections[c].transport
  PROVE  ConnectionBacked(connection, sessions')
<1> DEFINE k == connections[c].session
<1>1. ConnectionBacked(connections[c], sessions) /\ connections[c] \in Connection
  BY DEF IInv
<1>2. CASE k = "None"
  BY <1>1, <1>2 DEF ConnectionBacked
<1>3. CASE k # "None"
  <2>1. k \in Keys
    BY <1>1, <1>3 DEF Connection
  <2>2. sessions[k] # NoSession
    BY <1>1, <1>3 DEF ConnectionBacked
  <2>3. sessions'[k] = sessions[k] \/ Progress(sessions[k], sessions'[k])
    BY <2>1, <2>2 DEF SessionsStep
  <2>4. sessions'[k] # NoSession
    BY <2>2, <2>3, SoundIsAllocated DEF Progress
  <2>5. sessions'[k].intent = sessions[k].intent
    BY <2>3 DEF Progress
  <2>6. sessions[k].channel \in {"Open"} \cup Ended => sessions'[k].channel \in {"Open"} \cup Ended
    BY <2>3 DEF Progress
  <2> QED BY <1>1, <1>3, <2>4, <2>5, <2>6 DEF ConnectionBacked
<1> QED BY <1>2, <1>3

LEMMA AdmittedIsBacked ==
  ASSUME IInv, SessionsStep, NEW connection, Admissible(connection)
  PROVE  ConnectionBacked(connection, sessions')
<1> DEFINE k == connection.session
<1>1. CASE k = "None"
  BY <1>1 DEF ConnectionBacked, Admissible
<1>2. CASE k # "None"
  <2>1. k \in Keys /\ Sound(sessions[k]) /\ ValidResolution(sessions[k], connection.transport)
    BY <1>2 DEF Admissible, Connection
  <2>2. sessions[k] # NoSession
    BY <2>1, SoundIsAllocated
  <2>3. sessions'[k] = sessions[k] \/ Progress(sessions[k], sessions'[k])
    BY <2>1, <2>2 DEF SessionsStep
  <2>4. /\ sessions'[k] # NoSession
        /\ sessions'[k].intent = sessions[k].intent
        /\ sessions[k].channel = "Open" => sessions'[k].channel \in {"Open"} \cup Ended
    BY <2>2, <2>3, SoundIsAllocated DEF Progress
  <2>5. connection.transport \in {"WebRtc", "IrohRelay"}
    BY DEF Admissible, Connection, Transports
  <2> QED BY <1>2, <2>1, <2>4, <2>5 DEF ConnectionBacked, ValidResolution
<1> QED BY <1>1, <1>2

LEMMA InvariantInit ==
  Init => IInv
<1> SUFFICES ASSUME Init PROVE IInv
  OBVIOUS
<1>1. /\ \A k \in Keys : sessions[k] = NoSession
      /\ sessions \in [Keys -> Session \cup {NoSession}]
  BY DEF Init
<1>2. connections \in Seq(Connection) /\ Len(connections) = 0
  BY DEF Init
<1>3. ~Advertisable(NoSession)
  BY DEF Advertisable, NoSession, UsesWebRtc
<1>4. UsableSessionsAdvertised
  BY <1>1, <1>3 DEF UsableSessionsAdvertised
<1>5. advertised \subseteq Keys /\ closed \in BOOLEAN
  BY DEF Init
<1>6. \A c \in 1..Len(connections) : ConnectionBacked(connections[c], sessions)
  BY <1>2
<1> QED BY <1>1, <1>2, <1>4, <1>5, <1>6 DEF IInv

LEMMA InvariantStep ==
  ASSUME IInv, [Next]_nodeVars, NodeAssumption
  PROVE  IInv'
<1>1. SessionsStep /\ sessions' \in [Keys -> Session \cup {NoSession}]
  BY SessionsProgress
<1>2. connections' \in Seq(Connection) /\ ConnectionsStep
  BY ConnectionsProgress
<1>3. \A k \in Keys : sessions'[k] = NoSession \/ Sound(sessions'[k])
  BY <1>1 DEF IInv, SessionsStep, Progress
<1>4. \A c \in 1..Len(connections') : ConnectionBacked(connections'[c], sessions')
  <2>1. CASE /\ DOMAIN connections' = DOMAIN connections
             /\ \A c \in 1..Len(connections) :
                  /\ connections'[c].session = connections[c].session
                  /\ connections'[c].transport = connections[c].transport
    <3>1. 1..Len(connections') = 1..Len(connections)
      BY <1>2, <2>1 DEF IInv
    <3> QED BY <1>1, <2>1, <3>1, BackedStaysBacked
  <2>2. ASSUME NEW connection, connections' = Append(connections, connection),
               Admissible(connection)
        PROVE  \A c \in 1..Len(connections') : ConnectionBacked(connections'[c], sessions')
    <3> TAKE c \in 1..Len(connections')
    <3>1. CASE c \in 1..Len(connections)
      <4>1. connections'[c] = connections[c]
        BY <2>2, <3>1 DEF IInv
      <4> QED BY <1>1, <3>1, <4>1, BackedStaysBacked
    <3>2. CASE c \notin 1..Len(connections)
      <4>1. connections'[c] = connection
        BY <2>2, <3>2 DEF IInv
      <4> QED BY <1>1, <2>2, <4>1, AdmittedIsBacked
    <3> QED BY <3>1, <3>2
  <2> QED BY <1>2, <2>1, <2>2 DEF ConnectionsStep
<1>5. advertised' \subseteq Keys /\ UsableSessionsAdvertised'
  BY AdvertisedStep
<1>6. closed' \in BOOLEAN
  BY ClosedIsBoolean
<1> QED BY <1>1, <1>2, <1>3, <1>4, <1>5, <1>6 DEF IInv

LEMMA InvariantHolds ==
  Spec => []IInv
<1>1. Init => IInv
  BY InvariantInit
<1>2. IInv /\ [Next]_nodeVars => IInv'
  BY InvariantStep, NodeAssumption
<1> QED BY <1>1, <1>2, PTL DEF Spec

-----------------------------------------------------------------------------
(* The theorems *)

(* Every state of the node is of its type, whatever the keys and however many
   connections: no operation of BrowserSessionState leaves a session with a
   resolution, channel, lifecycle or terminal reason the code's enums lack,
   and no terminal decision is stored for a session that was never allocated. *)
THEOREM TypeCorrect ==
  Spec => []TypeOK
<1>1. IInv => TypeOK
  BY DEF IInv, TypeOK
<1> QED BY <1>1, InvariantHolds, PTL

(* No session that is WebRTC-only is ever resolved to the relay, and no
   connection of one runs over it: FallbackSelected of the peer fails such a
   session (apply_terminal_reason), and completing its dial over the relay is
   refused (validate_transport_resolution). *)
THEOREM WebRtcOnlyStaysOffTheRelay ==
  Spec => []WebRtcOnlyNeverRelays
<1>1. IInv => WebRtcOnlyNeverRelays
  <2> SUFFICES ASSUME IInv PROVE WebRtcOnlyNeverRelays
    OBVIOUS
  <2>1. ASSUME NEW k \in Keys, sessions[k].intent = "WebRtcOnly"
        PROVE  sessions[k].resolved # "IrohRelay"
    <3>1. sessions[k] # NoSession
      BY <2>1 DEF NoSession
    <3> QED BY <2>1, <3>1 DEF IInv, Sound, SessionInv
  <2>2. ASSUME NEW c \in 1..Len(connections), NEW k \in Keys,
               connections[c].session = k, sessions[k].intent = "WebRtcOnly"
        PROVE  connections[c].transport = "WebRtc"
    <3>1. k # "None"
      BY NodeAssumption DEF NodeAssumption
    <3> QED BY <2>2, <3>1 DEF IInv, ConnectionBacked
  <2> QED BY <2>1, <2>2 DEF WebRtcOnlyNeverRelays
<1> QED BY <1>1, InvariantHolds, PTL

(* The transport announces the address of every usable WebRTC session while
   the node is open, although the terminal operations do not refresh the
   announced addresses. *)
THEOREM UsableSessionsStayAdvertised ==
  Spec => []UsableSessionsAdvertised
<1>1. IInv => UsableSessionsAdvertised
  BY DEF IInv
<1> QED BY <1>1, InvariantHolds, PTL

(* Every WebRTC connection the node admitted is of a session whose data channel
   was open when its transport was resolved. *)
THEOREM WebRtcConnectionsHadChannel ==
  Spec => []WebRtcConnectionHadChannel
<1>1. IInv => WebRtcConnectionHadChannel
  <2> SUFFICES ASSUME IInv,
                      NEW c \in 1..Len(connections), NEW k \in Keys,
                      connections[c].session = k, connections[c].transport = "WebRtc"
               PROVE  sessions[k].channel \in {"Open"} \cup Ended
    BY DEF WebRtcConnectionHadChannel
  <2> QED BY DEF IInv, ConnectionBacked
<1> QED BY <1>1, InvariantHolds, PTL

(* A failed or closed data channel is never attached or opened again under
   the same session, whatever RTC event or signal is applied late. *)
THEOREM EndedChannelStaysEnded ==
  Spec => ChannelNeverRevives
<1>1. IInv /\ [Next]_nodeVars =>
        [\A k \in Keys : sessions[k].channel \in Ended
                           => sessions'[k].channel \in Ended]_nodeVars
  <2> SUFFICES ASSUME IInv, [Next]_nodeVars,
                      NEW k \in Keys, sessions[k].channel \in Ended
               PROVE  sessions'[k].channel \in Ended
    OBVIOUS
  <2>1. SessionsStep
    BY SessionsProgress, NodeAssumption
  <2>2. sessions[k] # NoSession
    BY DEF NoSession, Ended
  <2> QED BY <2>1, <2>2 DEF SessionsStep, Progress
<1> QED BY <1>1, InvariantHolds, PTL DEF Spec, ChannelNeverRevives

(* A WebRTC-only session that failed or was closed stays so: its dial cannot be
   completed afterwards, and no peer signal selects the relay for it. *)
THEOREM EndedWebRtcOnlyStaysEnded ==
  Spec => WebRtcOnlyEndIsFinal
<1>1. IInv /\ [Next]_nodeVars =>
        [\A k \in Keys : (sessions[k].intent = "WebRtcOnly" /\ sessions[k].lifecycle \in Ended)
                           => sessions'[k].lifecycle \in Ended]_nodeVars
  <2> SUFFICES ASSUME IInv, [Next]_nodeVars, NEW k \in Keys,
                      sessions[k].intent = "WebRtcOnly", sessions[k].lifecycle \in Ended
               PROVE  sessions'[k].lifecycle \in Ended
    OBVIOUS
  <2>1. SessionsStep
    BY SessionsProgress, NodeAssumption
  <2>2. sessions[k] # NoSession
    BY DEF NoSession
  <2> QED BY <2>1, <2>2 DEF SessionsStep, Progress
<1> QED BY <1>1, InvariantHolds, PTL DEF Spec, WebRtcOnlyEndIsFinal
=============================================================================
