-------------------------- MODULE DirectRuntimeProofs --------------------------
(***************************************************************************)
(* Proofs about DirectRuntime for any number of dials.  First, every step  *)
(* of the runtime is a step of the node or leaves the node alone, so the   *)
(* theorems about BrowserNode hold of the runtime.  Then the invariants    *)
(* that tie a dial's future, its map entries, its tasks and its session    *)
(* together, proved key by key.  Last, the promise made of a dial, and     *)
(* that its peer hears of the first decision.                              *)
(***************************************************************************)
EXTENDS DirectRuntime, TLAPS

NodeProofs == INSTANCE BrowserNodeProofs

-----------------------------------------------------------------------------
(* Every step of the runtime is one of the node, or none *)

LEMMA SessionConstants ==
  /\ Node!Intents = Intents /\ Node!Reasons = Reasons /\ Node!Transports = Transports
  /\ Node!nodeVars = nodeVars
BY DEF Intents, Node!Intents, Reasons, Node!Reasons, Transports, Node!Transports,
       nodeVars, Node!nodeVars

LEMMA RuntimeStepIsNodeStep ==
  ASSUME [Next]_vars
  PROVE  [Node!Next]_nodeVars
<1> USE SessionConstants
<1>1. CASE UNCHANGED vars
  BY <1>1 DEF vars
<1>2. ASSUME NEW k \in Keys, NEW intent \in DialIntents,
             StartDial(k, intent) \/ StartPrepare(k, intent)
      PROVE  [Node!Next]_nodeVars
  BY <1>2 DEF StartDial, StartPrepare, Node!Next
<1>3. ASSUME NEW k \in Keys,
             \/ BootstrapOpenFails(k) \/ BootstrapOpens(k) \/ DropDial(k) \/ DialReturns(k)
             \/ StartWebRtcConnection(k) \/ WebRtcConnectionFails(k)
             \/ RelayConnectionFails(k) \/ SetupDone(k) \/ RtcSignalApplied(k)
             \/ ReceiveRtcSignal(k) \/ LoopEnds(k)
      PROVE  [Node!Next]_nodeVars
  BY <1>3 DEF BootstrapOpenFails, BootstrapOpens, DropDial, DialReturns,
              StartWebRtcConnection, WebRtcConnectionFails, RelayConnectionFails, SetupDone,
              RtcSignalApplied, ReceiveRtcSignal, LoopEnds
<1>4. ASSUME NEW k \in Keys, WebRtcConnectionOpens(k) \/ RelayConnectionOpens(k)
      PROVE  [Node!Next]_nodeVars
  <2>1. PICK transport \in Transports : Node!CompleteDialAndAdmit(k, transport)
    BY <1>4 DEF WebRtcConnectionOpens, RelayConnectionOpens, Transports
  <2> QED BY <2>1 DEF Node!Next
<1>5. ASSUME NEW k \in Keys, NEW admitted \in BOOLEAN, FacadeAccepts(k, admitted)
      PROVE  [Node!Next]_nodeVars
  BY <1>5 DEF FacadeAccepts, Node!Next
<1>6. ASSUME NEW k \in Keys, SetupAttaches(k)
      PROVE  [Node!Next]_nodeVars
  BY <1>6 DEF SetupAttaches, Node!Next
<1>7. ASSUME NEW k \in Keys, DecideFailure(k)
      PROVE  [Node!Next]_nodeVars
  BY <1>7 DEF DecideFailure, TerminalLifecycle, Node!Next
<1>8. ASSUME NEW k \in Keys, SetupFails(k) \/ DataChannelFails(k)
      PROVE  [Node!Next]_nodeVars
  BY <1>7, <1>8 DEF SetupFails, DataChannelFails
<1>9. ASSUME NEW k \in Keys, NEW opened \in BOOLEAN, AcceptorAttaches(k, opened)
      PROVE  [Node!Next]_nodeVars
  BY <1>9 DEF AcceptorAttaches, Node!Next
<1>10. ASSUME NEW k \in Keys, DataChannelOpens(k)
       PROVE  [Node!Next]_nodeVars
  BY <1>10 DEF DataChannelOpens, OpenChannel, Node!Next
<1>11. ASSUME NEW k \in Keys, DataChannelCloses(k)
       PROVE  [Node!Next]_nodeVars
  BY <1>11 DEF DataChannelCloses, Node!Next
<1>12. ASSUME NEW k \in Keys, NEW intent \in AcceptIntents, NEW created \in BOOLEAN,
              ReceiveDialRequest(k, intent, created)
       PROVE  [Node!Next]_nodeVars
  BY <1>12, RuntimeAssumption DEF RuntimeAssumption, ReceiveDialRequest, Node!Next
<1>13. ASSUME NEW k \in Keys, NEW reason \in Reasons, ReceiveTerminal(k, reason)
       PROVE  [Node!Next]_nodeVars
  BY <1>13 DEF ReceiveTerminal, Node!Next
<1>14. ASSUME NEW c \in 1..Len(connections), CloseConnection(c)
       PROVE  [Node!Next]_nodeVars
  BY <1>14 DEF CloseConnection, Node!Next
<1>15. CASE CloseNode
  BY <1>15 DEF CloseNode, Node!Next
<1>16. ASSUME NEW k \in Keys, ProtocolGateAccepts(k)
       PROVE  [Node!Next]_nodeVars
  BY <1>5, <1>16 DEF ProtocolGateAccepts
<1> QED BY <1>1, <1>2, <1>3, <1>4, <1>5, <1>6, <1>8, <1>9, <1>10, <1>11, <1>12, <1>13,
           <1>14, <1>15, <1>16
        DEF Next, WebRtcConnection, RelayConnection, Setup

(* The runtime implements its node: whatever dial futures, setup tasks, channel
   handlers, receiver loops and connection tasks do in between, the sessions
   and connections change by the node's own methods only (direct/, node/). *)
THEOREM RuntimeImplementsNode ==
  Spec => Node!Spec
<1>1. Init => Node!Init
  BY DEF Init
<1>2. [Next]_vars => [Node!Next]_Node!nodeVars
  BY RuntimeStepIsNodeStep DEF nodeVars, Node!nodeVars
<1> QED BY <1>1, <1>2, PTL DEF Spec, Node!Spec

-----------------------------------------------------------------------------
(* The theorems of the node, for the node of the runtime *)

(* Two instances of one module, hence the same next-state relation. *)
LEMMA SameNode ==
  /\ Node!Next = NodeProofs!Next
  /\ Node!nodeVars = NodeProofs!nodeVars
BY DEF Node!Next, NodeProofs!Next, Node!AllocateDial, NodeProofs!AllocateDial,
       Node!Allocated, NodeProofs!Allocated, Node!NoSession, NodeProofs!NoSession,
       Node!SetSession, NodeProofs!SetSession, Node!RefreshAddrs,
       NodeProofs!RefreshAddrs, Node!Advertisable, NodeProofs!Advertisable,
       Node!UsesWebRtc, NodeProofs!UsesWebRtc, Node!Ended, NodeProofs!Ended,
       Node!NewSession, NodeProofs!NewSession, Node!RefreshAddrsIf,
       NodeProofs!RefreshAddrsIf, Node!AllocateAcceptSession,
       NodeProofs!AllocateAcceptSession, Node!UpdateSession,
       NodeProofs!UpdateSession, Node!AttachDataChannel,
       NodeProofs!AttachDataChannel, Node!CanAttachTransferredChannel,
       NodeProofs!CanAttachTransferredChannel, Node!AttachTransferredChannel,
       NodeProofs!AttachTransferredChannel, Node!MarkDataChannelOpen,
       NodeProofs!MarkDataChannelOpen, Node!CanMarkTransferredChannelOpen,
       NodeProofs!CanMarkTransferredChannelOpen, Node!MarkTransferredChannelOpen,
       NodeProofs!MarkTransferredChannelOpen, Node!AttachOpenDataChannel,
       NodeProofs!AttachOpenDataChannel, Node!DecideWebRtcFailure,
       NodeProofs!DecideWebRtcFailure, Node!DecideWebRtcClosed,
       NodeProofs!DecideWebRtcClosed, Node!EmitTerminalDecision,
       NodeProofs!EmitTerminalDecision, Node!FailureReason,
       NodeProofs!FailureReason, Node!AllowsRelayFallback,
       NodeProofs!AllowsRelayFallback, Node!RecordTerminalSent,
       NodeProofs!RecordTerminalSent, Node!RecordTerminalReceived,
       NodeProofs!RecordTerminalReceived, Node!ApplyTerminalReason,
       NodeProofs!ApplyTerminalReason, Node!CloseSession, NodeProofs!CloseSession,
       Node!SelectRelay, NodeProofs!SelectRelay, Node!Fail, NodeProofs!Fail,
       Node!EndAs, NodeProofs!EndAs, Node!ApplyRemoteTerminal,
       NodeProofs!ApplyRemoteTerminal, Node!Reasons, NodeProofs!Reasons,
       Node!Intents, NodeProofs!Intents, Node!Transports, NodeProofs!Transports,
       Node!CompleteDialAndAdmit, NodeProofs!CompleteDialAndAdmit,
       Node!CanCompleteDial, NodeProofs!CanCompleteDial, Node!ValidResolution,
       NodeProofs!ValidResolution, Node!AddConnection, NodeProofs!AddConnection,
       Node!ResolveTransport, NodeProofs!ResolveTransport,
       Node!AcceptWebRtcConnection, NodeProofs!AcceptWebRtcConnection,
       Node!MatchesIncoming, NodeProofs!MatchesIncoming, Node!AcceptRelayConnection,
       NodeProofs!AcceptRelayConnection, Node!CloseConnection,
       NodeProofs!CloseConnection, Node!CloseNode, NodeProofs!CloseNode,
       Node!CloseForNode, NodeProofs!CloseForNode, Node!SignalsNodeClose,
       NodeProofs!SignalsNodeClose, Node!nodeVars, NodeProofs!nodeVars

LEMMA NodeAssumed ==
  NodeProofs!NodeAssumption
BY RuntimeAssumption DEF RuntimeAssumption, NodeProofs!NodeAssumption, Intents,
   NodeProofs!Intents

LEMMA NodeInvariant ==
  ASSUME NodeProofs!IInv, [Next]_vars
  PROVE  NodeProofs!IInv'
<1>1. [NodeProofs!Next]_NodeProofs!nodeVars
  BY RuntimeStepIsNodeStep, SameNode DEF nodeVars, NodeProofs!nodeVars
<1> QED BY <1>1, NodeAssumed, NodeProofs!InvariantStep

-----------------------------------------------------------------------------
(* The inductive invariant of one key *)

OnceOpen == {"Open"} \cup Ended

HasConnection(k) == \E c \in 1..Len(connections) : connections[c].session = k

(* The dial future and what the runtime keeps for it. *)
DialInv(k) ==
  /\ caller[k] # "Idle" => sessions[k].role = "Dialer"
  /\ k \in protocol => caller[k] # "Idle"
  /\ caller[k] = "Idle" => answer[k] = "None"
  /\ k \in pending \cup prepares => caller[k] = "Waiting" /\ task[k] = "None"
  /\ k \in prepares => k \in protocol
  /\ k \in pending => k \notin protocol
  /\ caller[k] \in {"Opening", "Waiting", "Relaying"} => answer[k] = "None"
  /\ task[k] # "None" =>
       caller[k] \in {"Waiting", "Relaying", "Dropped"} /\ answer[k] = "None" /\ k \notin protocol
  /\ k \in senders => sessions[k].role # "NoRole"
  /\ (k \in senders /\ sessions[k].role = "Dialer") => caller[k] \in {"Waiting", "Answered"}

(* Nothing of the session runs before the dial request is sent, and the
   receiver loop acts on no opening that was undone. *)
RtcInv(k) ==
  /\ (sessions[k].role = "NoRole" \/ caller[k] = "Opening")
       => setup[k] = "None" /\ channel[k] = "None" /\ loop[k] = "None"
  /\ setup[k] = "Attaching" => sessions[k].role = "Acceptor"
  /\ held[k] = "WebRtc" => sessions[k].channel \in OnceOpen

UndecidedInv(k) ==
  (~closed /\ (caller[k] = "Opening" \/ k \in pending \cup prepares))
    => PendingDialAction(sessions[k]) = "None"

ConnectionInv(k) ==
  HasConnection(k) =>
    /\ sessions[k].role # "NoRole"
    /\ sessions[k].role = "Dialer" =>
         caller[k] \in {"Answered", "Returned", "Dropped"} /\ task[k] = "None"
    /\ sessions[k].role = "Acceptor" => sessions[k].resolved # "None"

PrepareInv(k) ==
  k \in protocol =>
    /\ answer[k] = "Prepared" => k \in lookup /\ sessions[k].channel \in OnceOpen
    /\ answer[k] = "RelayAllowed" => AllowsRelayFallback(sessions[k].intent)

KeyInv(k) ==
  DialInv(k) /\ RtcInv(k) /\ UndecidedInv(k) /\ ConnectionInv(k) /\ PrepareInv(k)

IInv ==
  /\ NodeProofs!IInv
  /\ TypeOK
  /\ \A k \in Keys : KeyInv(k)
  /\ OneConnectionPerSession

-----------------------------------------------------------------------------
(* The methods of the node, in the terms of the runtime *)

(* What every change of a stored session respects. *)
Keeps(s, t) ==
  /\ t.role = s.role /\ t.intent = s.intent
  /\ s.channel \in OnceOpen => t.channel \in OnceOpen
  /\ s.resolved # "None" => t.resolved # "None"

(* The session of k alone is stored or changed, on an open node. *)
OnlySession(k) ==
  /\ ~closed /\ closed' = closed
  /\ \A j \in Keys \ {k} : sessions'[j] = sessions[j]

Allocates(k, role, intent) ==
  /\ OnlySession(k)
  /\ sessions[k] = NoSession /\ sessions'[k] = NewSession(role, intent)
  /\ connections' = connections

Progresses(k) ==
  /\ OnlySession(k)
  /\ sessions[k].role # "NoRole" /\ Keeps(sessions[k], sessions'[k])

Admits(k) ==
  \E transport, isClosed : connections' = Append(connections,
    [session |-> k, transport |-> transport, closed |-> isClosed])

LEMMA SessionsTyped ==
  ASSUME Node!TypeOK
  PROVE  /\ sessions \in [Keys -> Session \cup {NoSession}]
         /\ connections \in Seq(Node!Connection)
         /\ closed \in BOOLEAN
BY DEF Node!TypeOK, Node!Session, Session, Node!NoSession, NoSession, Node!Roles, Roles,
       Node!Intents, Intents, Node!Transports, Transports, Node!Channels, Channels,
       Node!Lifecycles, Lifecycles, Node!Reasons, Reasons

LEMMA OperationsKeep ==
  ASSUME NEW s \in Session, NEW transport, transport # "None", NEW reason \in Reasons
  PROVE  /\ CanAttachTransferredChannel(s) => Keeps(s, AttachTransferredChannel(s))
         /\ CanMarkTransferredChannelOpen(s) => Keeps(s, MarkTransferredChannelOpen(s))
         /\ CanAttachTransferredChannel(s)
              => Keeps(s, MarkTransferredChannelOpen(AttachTransferredChannel(s)))
         /\ Keeps(s, RecordTerminalSent(s, reason))
         /\ Keeps(s, RecordTerminalReceived(s, reason))
         /\ Keeps(s, ResolveTransport(s, transport))
         /\ Keeps(s, CloseSession(s)) /\ Keeps(s, CloseForNode(s))
<1> USE DEF Session, Keeps, OnceOpen, Ended
<1>1. ASSUME NEW t \in Session, NEW end \in Ended, t.role = s.role, t.intent = s.intent,
             t.channel = s.channel, t.resolved = s.resolved
      PROVE  Keeps(s, EndAs(t, end))
  BY <1>1 DEF EndAs
<1>2. ASSUME NEW t \in Session, t.role = s.role, t.intent = s.intent,
             t.channel = s.channel, t.resolved = s.resolved
      PROVE  Keeps(s, ApplyTerminalReason(t, reason))
  <2>1. Keeps(s, CloseSession(t)) /\ Keeps(s, Fail(t))
    BY <1>1, <1>2 DEF CloseSession, Fail
  <2>2. Keeps(s, SelectRelay(t))
    BY <1>2 DEF SelectRelay
  <2> QED BY <2>1, <2>2 DEF ApplyTerminalReason
<1>3. /\ CanAttachTransferredChannel(s) => Keeps(s, AttachTransferredChannel(s))
      /\ CanMarkTransferredChannelOpen(s) => Keeps(s, MarkTransferredChannelOpen(s))
      /\ CanAttachTransferredChannel(s)
           => Keeps(s, MarkTransferredChannelOpen(AttachTransferredChannel(s)))
  BY DEF CanAttachTransferredChannel, AttachTransferredChannel,
         CanMarkTransferredChannelOpen, MarkTransferredChannelOpen
<1>4. Keeps(s, ResolveTransport(s, transport))
  BY DEF ResolveTransport
<1>5. Keeps(s, RecordTerminalSent(s, reason)) /\ Keeps(s, RecordTerminalReceived(s, reason))
  <2>1. /\ [s EXCEPT !.sent = reason] \in Session
        /\ [s EXCEPT !.received = reason] \in Session
    OBVIOUS
  <2> QED BY <1>2, <2>1 DEF RecordTerminalSent, RecordTerminalReceived
<1>6. Keeps(s, CloseSession(s)) /\ Keeps(s, CloseForNode(s))
  <2> DEFINE t == [s EXCEPT !.sent = IF SignalsNodeClose(s) THEN "Closed" ELSE @]
  <2>1. t \in Session
    BY DEF Reasons
  <2> QED BY <1>1, <2>1 DEF CloseSession, CloseForNode
<1> QED BY <1>3, <1>4, <1>5, <1>6

(* The operations on a session, in the two instances of SessionState. *)
LEMMA SameOperations ==
  ASSUME NEW s, NEW reason, NEW transport
  PROVE  /\ Node!CanAttachTransferredChannel(s) = CanAttachTransferredChannel(s)
         /\ Node!AttachTransferredChannel(s) = AttachTransferredChannel(s)
         /\ Node!CanMarkTransferredChannelOpen(s) = CanMarkTransferredChannelOpen(s)
         /\ Node!MarkTransferredChannelOpen(s) = MarkTransferredChannelOpen(s)
         /\ Node!RecordTerminalSent(s, reason) = RecordTerminalSent(s, reason)
         /\ Node!RecordTerminalReceived(s, reason) = RecordTerminalReceived(s, reason)
         /\ Node!FailureReason(s) = FailureReason(s)
         /\ Node!ResolveTransport(s, transport) = ResolveTransport(s, transport)
         /\ Node!CloseSession(s) = CloseSession(s)
         /\ Node!CloseForNode(s) = CloseForNode(s)
BY DEF Node!CanAttachTransferredChannel, CanAttachTransferredChannel,
       Node!AttachTransferredChannel, AttachTransferredChannel,
       Node!CanMarkTransferredChannelOpen, CanMarkTransferredChannelOpen,
       Node!MarkTransferredChannelOpen, MarkTransferredChannelOpen,
       Node!RecordTerminalSent, RecordTerminalSent,
       Node!RecordTerminalReceived, RecordTerminalReceived,
       Node!ApplyTerminalReason, ApplyTerminalReason, Node!FailureReason, FailureReason,
       Node!AllowsRelayFallback, AllowsRelayFallback, Node!SelectRelay, SelectRelay,
       Node!Fail, Fail, Node!EndAs, EndAs, Node!ResolveTransport, ResolveTransport,
       Node!CloseSession, CloseSession, Node!CloseForNode, CloseForNode,
       Node!SignalsNodeClose, SignalsNodeClose, Node!UsesWebRtc, UsesWebRtc

LEMMA AllocationMethods ==
  ASSUME Node!TypeOK, NEW k \in Keys, NEW intent \in Intents
  PROVE  /\ Node!AllocateDial(k, intent) => Allocates(k, "Dialer", intent)
         /\ Node!AllocateAcceptSession(k, intent) => Allocates(k, "Acceptor", intent)
BY SessionsTyped
DEF Allocates, OnlySession, Node!AllocateDial, Node!AllocateAcceptSession, Node!Allocated,
    Node!SetSession, Node!NewSession, NewSession, Node!UsesWebRtc, UsesWebRtc,
    Node!NoSession, NoSession

(* The methods that update a stored session. *)
LEMMA UpdateMethods ==
  ASSUME Node!TypeOK, NEW k \in Keys
  PROVE  /\ Node!AttachDataChannel(k) => Progresses(k) /\ connections' = connections
         /\ Node!AttachDataChannel(k)
              => /\ CanAttachTransferredChannel(sessions[k])
                 /\ sessions'[k] = AttachTransferredChannel(sessions[k])
         /\ Node!MarkDataChannelOpen(k) => Progresses(k) /\ connections' = connections
         /\ Node!AttachOpenDataChannel(k) => Progresses(k) /\ connections' = connections
         /\ Node!DecideWebRtcFailure(k) => Progresses(k) /\ connections' = connections
         /\ Node!DecideWebRtcClosed(k) => Progresses(k) /\ connections' = connections
         /\ \A reason \in Reasons :
              Node!ApplyRemoteTerminal(k, reason) => Progresses(k) /\ connections' = connections
<1> DEFINE s == sessions[k]
<1>1. /\ sessions \in [Keys -> Session \cup {NoSession}]
      /\ Node!NoSession = NoSession
  BY SessionsTyped DEF Node!NoSession, NoSession
<1>2. s \in Session => s.role # "NoRole"
  BY DEF Session, Roles
<1>3. ASSUME NEW t, ~closed, closed' = closed, sessions' = [sessions EXCEPT ![k] = t],
             s # NoSession, Keeps(s, t)
      PROVE  Progresses(k)
  BY <1>1, <1>2, <1>3 DEF Progresses, OnlySession
<1>4. CASE s = NoSession
  BY <1>1, <1>4 DEF NoSession, Node!AttachDataChannel, Node!MarkDataChannelOpen,
     Node!AttachOpenDataChannel, Node!UpdateSession, Node!Allocated,
     Node!DecideWebRtcFailure, Node!DecideWebRtcClosed, Node!EmitTerminalDecision,
     Node!ApplyRemoteTerminal
<1>5. CASE s \in Session
  <2> USE <1>1, <1>2, <1>3, <1>5, SameOperations
      DEF Node!UpdateSession, Node!SetSession, Node!Allocated
  <2>1. ASSUME Node!AttachDataChannel(k)
        PROVE  /\ Progresses(k) /\ connections' = connections
               /\ CanAttachTransferredChannel(s) /\ sessions'[k] = AttachTransferredChannel(s)
    <3>1. Keeps(s, AttachTransferredChannel(s))
      <4>1. CanAttachTransferredChannel(s)
        BY <2>1 DEF Node!AttachDataChannel
      <4>2. "Closed" \in Reasons /\ "Relay" # "None"
        BY DEF Reasons
      <4> QED BY <1>5, <4>1, <4>2, OperationsKeep
    <3> QED BY <2>1, <3>1 DEF Node!AttachDataChannel
  <2>2. ASSUME Node!MarkDataChannelOpen(k)
        PROVE  Progresses(k) /\ connections' = connections
    <3>1. Keeps(s, MarkTransferredChannelOpen(s))
      BY <2>2, OperationsKeep DEF Node!MarkDataChannelOpen, Reasons
    <3> QED BY <2>2, <3>1 DEF Node!MarkDataChannelOpen
  <2>3. ASSUME Node!AttachOpenDataChannel(k)
        PROVE  Progresses(k) /\ connections' = connections
    <3>1. Keeps(s, MarkTransferredChannelOpen(AttachTransferredChannel(s)))
      BY <2>3, OperationsKeep DEF Node!AttachOpenDataChannel, Reasons
    <3> QED BY <2>3, <3>1 DEF Node!AttachOpenDataChannel
  <2>4. ASSUME NEW reason \in Reasons, Node!EmitTerminalDecision(k, reason)
        PROVE  Progresses(k) /\ connections' = connections
    <3>1. Keeps(s, RecordTerminalSent(s, reason))
      BY OperationsKeep
    <3> QED BY <2>4, <3>1 DEF Node!EmitTerminalDecision
  <2>5. FailureReason(s) \in Reasons /\ "Closed" \in Reasons
    BY DEF FailureReason, Reasons
  <2>6. ASSUME NEW reason \in Reasons, Node!ApplyRemoteTerminal(k, reason)
        PROVE  Progresses(k) /\ connections' = connections
    <3>1. Keeps(s, RecordTerminalReceived(s, reason))
      BY OperationsKeep
    <3> QED BY <2>6, <3>1 DEF Node!ApplyRemoteTerminal
  <2> QED BY <2>1, <2>2, <2>3, <2>4, <2>5, <2>6
          DEF Node!DecideWebRtcFailure, Node!DecideWebRtcClosed
<1> QED BY <1>1, <1>4, <1>5

LEMMA AdmissionMethods ==
  ASSUME Node!TypeOK, NEW k \in Keys
  PROVE  /\ \A transport \in Transports : Node!CompleteDialAndAdmit(k, transport)
              => /\ Progresses(k) /\ sessions[k].role = "Dialer" /\ Admits(k)
         /\ \A admitted \in BOOLEAN : Node!AcceptWebRtcConnection(k, admitted)
              => /\ Progresses(k) /\ sessions[k].role = "Acceptor"
                 /\ sessions[k].resolved = "None" /\ sessions'[k].resolved # "None"
                 /\ Admits(k) \/ connections' = connections
<1> DEFINE s == sessions[k]
<1>1. sessions \in [Keys -> Session \cup {NoSession}]
  BY SessionsTyped
<1>2. s.role # "NoRole" => s \in Session
  BY <1>1 DEF NoSession
<1>3. ASSUME NEW transport \in Transports, s.role # "NoRole", ~closed, closed' = closed,
             Node!SetSession(k, Node!ResolveTransport(s, transport))
      PROVE  Progresses(k) /\ sessions'[k].resolved # "None"
  <2>1. Keeps(s, ResolveTransport(s, transport))
    BY <1>2, <1>3, OperationsKeep DEF Transports, Reasons
  <2>2. sessions' = [sessions EXCEPT ![k] = ResolveTransport(s, transport)]
    BY <1>3, SameOperations DEF Node!SetSession
  <2>3. ResolveTransport(s, transport).resolved # "None"
    BY <1>2, <1>3 DEF ResolveTransport, Session, Transports
  <2> QED BY <1>1, <1>3, <2>1, <2>2, <2>3 DEF Progresses, OnlySession
<1>4. ASSUME NEW transport \in Transports, Node!CompleteDialAndAdmit(k, transport)
      PROVE  Progresses(k) /\ s.role = "Dialer" /\ Admits(k)
  <2>1. s.role = "Dialer"
    BY <1>4 DEF Node!CompleteDialAndAdmit, Node!CanCompleteDial
  <2> QED BY <1>3, <1>4, <2>1 DEF Node!CompleteDialAndAdmit, Node!AddConnection, Admits
<1>5. ASSUME NEW admitted \in BOOLEAN, Node!AcceptWebRtcConnection(k, admitted)
      PROVE  /\ Progresses(k) /\ s.role = "Acceptor"
             /\ s.resolved = "None" /\ sessions'[k].resolved # "None"
             /\ Admits(k) \/ connections' = connections
  <2>1. s.role = "Acceptor" /\ s.resolved = "None"
    BY <1>5 DEF Node!AcceptWebRtcConnection, Node!MatchesIncoming
  <2>2. "WebRtc" \in Transports
    BY DEF Transports
  <2> QED BY <1>3, <1>5, <2>1, <2>2
          DEF Node!AcceptWebRtcConnection, Node!AddConnection, Admits
<1> QED BY <1>4, <1>5

-----------------------------------------------------------------------------
(* The connections of a session *)

LEMMA AdmittedConnection ==
  ASSUME Node!TypeOK, NEW k \in Keys, Admits(k), NEW j
  PROVE  HasConnection(j)' <=> HasConnection(j) \/ j = k
<1>1. connections \in Seq(Node!Connection)
  BY SessionsTyped
<1>2. PICK transport, isClosed :
        connections' = Append(connections, [session |-> k, transport |-> transport,
                                            closed |-> isClosed])
  BY DEF Admits
<1>3. /\ Len(connections') = Len(connections) + 1
      /\ \A c \in 1..Len(connections) : connections'[c] = connections[c]
      /\ connections'[Len(connections) + 1].session = k
      /\ Len(connections) \in Nat
  BY <1>1, <1>2
<1>4. ASSUME HasConnection(j)'
      PROVE  HasConnection(j) \/ j = k
  <2>1. PICK c \in 1..Len(connections') : connections'[c].session = j
    BY <1>4 DEF HasConnection
  <2>2. c \in 1..Len(connections) \/ c = Len(connections) + 1
    BY <1>3
  <2> QED BY <1>3, <2>1, <2>2 DEF HasConnection
<1>5. ASSUME HasConnection(j)
      PROVE  HasConnection(j)'
  <2>1. PICK c \in 1..Len(connections) : connections[c].session = j
    BY <1>5 DEF HasConnection
  <2>2. c \in 1..Len(connections') /\ connections'[c].session = j
    BY <1>3, <2>1
  <2> QED BY <2>2 DEF HasConnection
<1>6. HasConnection(k)'
  <2>1. Len(connections) + 1 \in 1..Len(connections')
    BY <1>3
  <2> QED BY <1>3, <2>1 DEF HasConnection
<1> QED BY <1>4, <1>5, <1>6

(* The sessions of the connections stay the same. *)
SameOwners ==
  /\ Len(connections') = Len(connections)
  /\ \A c \in 1..Len(connections) : connections'[c].session = connections[c].session

LEMMA SameOwnersSameConnections ==
  ASSUME SameOwners, NEW j
  PROVE  HasConnection(j)' <=> HasConnection(j)
BY DEF SameOwners, HasConnection

LEMMA ClosingKeepsOwners ==
  ASSUME Node!TypeOK
  PROVE  /\ \A c \in 1..Len(connections) : Node!CloseConnection(c) => SameOwners
         /\ Node!CloseNode => SameOwners
<1>1. connections \in Seq(Node!Connection)
  BY SessionsTyped
<1>2. ASSUME NEW c \in 1..Len(connections), Node!CloseConnection(c)
      PROVE  SameOwners
  <2>1. connections' = [connections EXCEPT ![c].closed = TRUE]
    BY <1>2 DEF Node!CloseConnection
  <2> QED BY <1>1, <2>1 DEF SameOwners, Node!Connection
<1>3. ASSUME Node!CloseNode
      PROVE  SameOwners
  <2>1. connections' = [c \in 1..Len(connections) |-> [connections[c] EXCEPT !.closed = TRUE]]
    BY <1>3 DEF Node!CloseNode
  <2>2. Len(connections) \in Nat /\ \A c \in 1..Len(connections) :
          connections[c] \in Node!Connection
    BY <1>1
  <2>3. Len(connections') = Len(connections)
    BY <2>1, <2>2
  <2> QED BY <2>1, <2>2, <2>3 DEF SameOwners, Node!Connection
<1> QED BY <1>2, <1>3

-----------------------------------------------------------------------------
(* Steps and keys: a step of one dial leaves every other dial as it is *)

Same(j) ==
  /\ sessions'[j] = sessions[j] /\ caller'[j] = caller[j] /\ answer'[j] = answer[j]
  /\ task'[j] = task[j] /\ setup'[j] = setup[j] /\ channel'[j] = channel[j]
  /\ loop'[j] = loop[j] /\ held'[j] = held[j]
  /\ j \in protocol' <=> j \in protocol
  /\ j \in pending' <=> j \in pending
  /\ j \in prepares' <=> j \in prepares
  /\ j \in lookup' <=> j \in lookup
  /\ j \in senders' <=> j \in senders
  /\ HasConnection(j)' <=> HasConnection(j)

LEMMA SameKeepsInv ==
  ASSUME NEW j, KeyInv(j), Same(j), closed' = closed
  PROVE  KeyInv(j)'
BY DEF KeyInv, Same, DialInv, RtcInv, UndecidedInv, ConnectionInv, PrepareInv,
       PendingDialAction, AllowsRelayFallback

(* The dial of k as DialPromise sees it, and what may become of it. *)
DialState(k) ==
  IF k \in protocol THEN "Idle"
  ELSE IF answer[k] # "None" THEN answer[k]
  ELSE IF caller[k] \in {"Idle", "Dropped"} THEN caller[k]
  ELSE "Waiting"

IsConnected(k) == sessions[k].role = "Dialer" /\ HasConnection(k)

SameConnected(k) == IsConnected(k)' <=> IsConnected(k)

SamePromised(k) == DialState(k)' = DialState(k) /\ SameConnected(k)

KeepsPromise(k) ==
  \/ SamePromised(k)
  \/ DialState(k) = "Idle" /\ DialState(k)' = "Waiting" /\ SameConnected(k)
  \/ /\ DialState(k) = "Waiting" /\ SameConnected(k)
     /\ DialState(k)' \in {"Dropped"} \cup Promise!Errors
  \/ DialState(k) = "Waiting" /\ DialState(k)' = "Connected" /\ IsConnected(k)'
  \/ /\ DialState(k) = "Dropped" /\ DialState(k)' = "Dropped"
     /\ ~IsConnected(k) /\ IsConnected(k)'

LEMMA SamePromise ==
  ASSUME NEW j, Same(j)
  PROVE  SamePromised(j)
BY DEF Same, SamePromised, DialState, SameConnected, IsConnected

KeyStep(k) ==
  /\ KeyInv(k)' /\ KeepsPromise(k)
  /\ closed' = closed
  /\ \A j \in Keys \ {k} : Same(j)

LEMMA KeyStepKeepsInv ==
  ASSUME IInv, NEW k \in Keys, KeyStep(k)
  PROVE  \A j \in Keys : KeyInv(j)'
BY SameKeepsInv DEF IInv, KeyStep

SameDial(j) ==
  /\ caller'[j] = caller[j] /\ answer'[j] = answer[j] /\ task'[j] = task[j]
  /\ j \in pending' <=> j \in pending
  /\ j \in prepares' <=> j \in prepares
  /\ j \in lookup' <=> j \in lookup

(* The entry of k was taken: a task is spawned for the dial, or its future or
   the prepare is answered. *)
Taken(k, action) ==
  /\ caller[k] = "Waiting" /\ action # "None"
  /\ k \notin pending' /\ k \notin prepares'
  /\ \/ /\ caller'[k] = "Waiting" /\ answer'[k] = answer[k]
        /\ k \notin protocol
     \/ /\ caller'[k] = "Answered" /\ task'[k] = "None"
        /\ k \in protocol \/ answer'[k] \in {"Failed", "Closed"}
        /\ answer'[k] = "Prepared" => action = "WebRtc" /\ k \in lookup'
        /\ answer'[k] = "RelayAllowed" => AllowsRelayFallback(sessions[k].intent)

LEMMA Completion ==
  ASSUME TypeOK, NEW k \in Keys, DialInv(k), NEW action \in DialActions,
         CompletePending(k, action)
  PROVE  /\ \A j \in Keys \ {k} : SameDial(j)
         /\ \/ SameDial(k) /\ (action = "None" \/ k \notin pending \cup prepares)
            \/ Taken(k, action)
<1> USE DEF TypeOK
<1>1. CASE action = "None" \/ k \notin pending \cup prepares
  <2>1. UNCHANGED dialVars
    BY <1>1 DEF CompletePending
  <2> QED BY <1>1, <2>1 DEF dialVars, SameDial
<1>2. CASE action # "None" /\ k \in pending
  <2>1. /\ pending' = pending \ {k} /\ UNCHANGED <<prepares, lookup>>
        /\ SpawnOrAnswer(k, action)
    BY <1>2 DEF CompletePending
  <2>2. /\ caller[k] = "Waiting" /\ task[k] = "None"
        /\ k \notin protocol /\ k \notin prepares
    BY <1>2 DEF DialInv
  <2>3. CASE action \in {"WebRtc", "Relay"}
    <3>1. /\ task' = [task EXCEPT ![k] = IF action = "WebRtc" THEN "WebRtcSpawned" ELSE "Relay"]
          /\ UNCHANGED <<caller, answer>>
      BY <2>1, <2>3 DEF SpawnOrAnswer
    <3> QED BY <1>2, <2>1, <2>2, <3>1 DEF SameDial, Taken
  <2>4. CASE action \notin {"WebRtc", "Relay"}
    <3>1. /\ caller' = [caller EXCEPT ![k] = "Answered"]
          /\ answer' = [answer EXCEPT ![k] = IF action = "Fail" THEN "Failed" ELSE "Closed"]
          /\ UNCHANGED task
      BY <2>1, <2>4 DEF SpawnOrAnswer
    <3>2. answer'[k] \in {"Failed", "Closed"}
      BY <3>1
    <3> QED BY <1>2, <2>1, <2>2, <3>1, <3>2 DEF SameDial, Taken
  <2> QED BY <2>3, <2>4
<1>3. CASE action # "None" /\ k \notin pending /\ k \in prepares
  <2>1. /\ prepares' = prepares \ {k} /\ UNCHANGED <<pending, task>>
        /\ AnswerPrepare(k, action)
    BY <1>3 DEF CompletePending
  <2>2. caller[k] = "Waiting" /\ task[k] = "None" /\ k \in protocol
    BY <1>3 DEF DialInv
  <2>3. /\ caller' = [caller EXCEPT ![k] = "Answered"]
        /\ \A j \in Keys \ {k} : answer'[j] = answer[j]
        /\ \A j \in Keys \ {k} : j \in lookup' <=> j \in lookup
    BY <2>1 DEF AnswerPrepare
  <2>4. /\ answer'[k] = "Prepared" => action = "WebRtc" /\ k \in lookup'
        /\ answer'[k] = "RelayAllowed" => AllowsRelayFallback(sessions[k].intent)
    BY <2>1, <1>3 DEF AnswerPrepare, DialActions
  <2> QED BY <1>3, <2>1, <2>2, <2>3, <2>4 DEF SameDial, Taken
<1> QED BY <1>1, <1>2, <1>3

(* A handler of the RTC setup, the data channel or the receiver loop of k,
   which ends in the completion of a dial that waits. *)
LEMMA HandlerStep ==
  ASSUME TypeOK, NEW k \in Keys, KeyInv(k),
         sessions[k].role # "NoRole", caller[k] # "Opening", Keeps(sessions[k], sessions'[k]),
         SameDial(k) \/ \E action \in DialActions :
           Taken(k, action) /\ (action = "WebRtc" => sessions'[k].channel \in OnceOpen),
         ~closed' /\ k \in pending' \cup prepares' => PendingDialAction(sessions'[k]) = "None",
         setup'[k] = "Attaching" => sessions[k].role = "Acceptor",
         held'[k] = "WebRtc" => sessions'[k].channel \in OnceOpen,
         protocol' = protocol, senders' = senders, connections' = connections
  PROVE  KeyInv(k)' /\ KeepsPromise(k)
<1>1. sessions'[k].role = sessions[k].role /\ sessions'[k].intent = sessions[k].intent
  BY DEF Keeps
<1>2. HasConnection(k)' <=> HasConnection(k)
  BY DEF HasConnection
<1>3. RtcInv(k)'
  BY <1>1 DEF KeyInv, RtcInv, DialInv, Taken, SameDial
<1>4. DialInv(k)'
  BY <1>1 DEF KeyInv, DialInv, Taken, SameDial
<1>5. UndecidedInv(k)'
  BY <1>1 DEF KeyInv, UndecidedInv, Taken, SameDial
<1>6. ConnectionInv(k)'
  BY <1>1, <1>2 DEF KeyInv, ConnectionInv, Taken, SameDial, Keeps
<1>7. PrepareInv(k)'
  BY <1>1 DEF KeyInv, PrepareInv, Taken, SameDial, Keeps, AllowsRelayFallback
<1>8. KeepsPromise(k)
  <2>1. SameConnected(k)
    BY <1>1, <1>2 DEF SameConnected, IsConnected
  <2>2. DialState(k)' = DialState(k) \/
          (DialState(k) = "Waiting" /\ DialState(k)' \in {"Failed", "Closed"})
    BY DEF KeyInv, DialInv, DialState, Taken, SameDial
  <2> QED BY <2>1, <2>2 DEF KeepsPromise, SamePromised, Promise!Errors
<1> QED BY <1>3, <1>4, <1>5, <1>6, <1>7, <1>8 DEF KeyInv

LEMMA ActionFacts ==
  ASSUME NEW s
  PROVE  /\ PendingDialAction(s) \in DialActions
         /\ PendingDialAction(s) = "WebRtc" => s.channel \in OnceOpen
         /\ (/\ s \in Session /\ CanAttachTransferredChannel(s)
             /\ PendingDialAction(s) = "None")
              => PendingDialAction(AttachTransferredChannel(s)) = "None"
BY DEF PendingDialAction, DialActions, OnceOpen, Session, CanAttachTransferredChannel,
       AttachTransferredChannel

(* The variables of other keys that a handler of k leaves alone. *)
SameRtc(j) ==
  /\ setup'[j] = setup[j] /\ channel'[j] = channel[j]
  /\ loop'[j] = loop[j] /\ held'[j] = held[j]

(* A handler runs for a session that exists and whose dial request was sent. *)
Running(k) == setup[k] # "None" \/ channel[k] # "None" \/ loop[k] # "None"

LEMMA HandlerKeyStep ==
  ASSUME IInv, NEW k \in Keys, NEW action \in DialActions, Running(k),
         Progresses(k) \/ UNCHANGED <<sessions, closed>>,
         CompletePending(k, action),
         action = "WebRtc" => sessions'[k].channel \in OnceOpen,
         action = "None" /\ ~closed /\ k \in pending \cup prepares
           => PendingDialAction(sessions'[k]) = "None",
         setup'[k] = "Attaching" => sessions[k].role = "Acceptor",
         held'[k] = "WebRtc" => sessions'[k].channel \in OnceOpen,
         \A j \in Keys \ {k} : SameRtc(j),
         UNCHANGED <<protocol, senders, connections>>
  PROVE  KeyStep(k)
<1>1. KeyInv(k) /\ TypeOK
  BY DEF IInv
<1>2. sessions[k].role # "NoRole" /\ caller[k] # "Opening"
  BY <1>1 DEF KeyInv, RtcInv, Running
<1>3. /\ closed' = closed /\ Keeps(sessions[k], sessions'[k])
      /\ \A j \in Keys \ {k} : sessions'[j] = sessions[j]
  BY DEF Progresses, OnlySession, Keeps
<1>4. /\ \A j \in Keys \ {k} : SameDial(j)
      /\ \/ SameDial(k) /\ (action = "None" \/ k \notin pending \cup prepares)
         \/ Taken(k, action)
  BY <1>1, Completion DEF KeyInv
<1>5. \A j : HasConnection(j)' <=> HasConnection(j)
  BY DEF HasConnection
<1>6. \A j \in Keys \ {k} : Same(j)
  BY <1>3, <1>4, <1>5 DEF Same, SameDial, SameRtc
<1>7. ~closed' /\ k \in pending' \cup prepares' => PendingDialAction(sessions'[k]) = "None"
  BY <1>3, <1>4 DEF SameDial, Taken
<1>8. KeyInv(k)' /\ KeepsPromise(k)
  BY <1>1, <1>2, <1>3, <1>4, <1>7, HandlerStep
<1> QED BY <1>3, <1>6, <1>8 DEF KeyStep

-----------------------------------------------------------------------------
(* The handlers *)

LEMMA Untouched ==
  ASSUME NEW k, UNCHANGED dialVars
  PROVE  CompletePending(k, "None")
BY DEF CompletePending

LEMMA ClosePeerFrame ==
  ASSUME TypeOK, NEW k \in Keys, ClosePeer(k)
  PROVE  \A j \in Keys \ {k} : channel'[j] = channel[j]
BY DEF ClosePeer, TypeOK

LEMMA LifecycleStep ==
  ASSUME IInv, NEW k \in Keys, Running(k), DecideFailure(k),
         \A j \in Keys \ {k} : setup'[j] = setup[j],
         setup'[k] # "Attaching" \/ setup'[k] = setup[k],
         UNCHANGED <<protocol, loopVars>>
  PROVE  KeyStep(k)
<1>1. KeyInv(k) /\ TypeOK /\ Node!TypeOK
  BY DEF IInv, TypeOK
<1>2. /\ Node!DecideWebRtcFailure(k) /\ ClosePeer(k)
      /\ CompletePending(k, PendingDialAction(sessions'[k])) /\ senders' = senders
  BY DEF DecideFailure, TerminalLifecycle, SendTerminal
<1>3. Progresses(k) /\ connections' = connections
  BY <1>1, <1>2, UpdateMethods
<1>4. held'[k] = "WebRtc" => sessions'[k].channel \in OnceOpen
  BY <1>1, <1>3 DEF KeyInv, RtcInv, Progresses, Keeps, loopVars
<1>5. \A j \in Keys \ {k} : SameRtc(j)
  BY <1>1, <1>2, ClosePeerFrame DEF SameRtc, loopVars
<1>6. setup'[k] = "Attaching" => sessions[k].role = "Acceptor"
  BY <1>1 DEF KeyInv, RtcInv
<1> QED BY <1>2, <1>3, <1>4, <1>5, <1>6, ActionFacts, HandlerKeyStep

LEMMA SetupStep ==
  ASSUME IInv, NEW k \in Keys, Setup(k)
  PROVE  KeyStep(k)
<1>1. KeyInv(k) /\ TypeOK /\ Node!TypeOK
  BY DEF IInv, TypeOK
<1>2. setup \in [Keys -> Setups] /\ channel \in [Keys -> RtcChannels]
      /\ "None" \in DialActions
  BY <1>1 DEF TypeOK, DialActions
<1>3. CASE SetupAttaches(k)
  <2>1. /\ setup[k] = "Spawned" /\ Node!AttachDataChannel(k)
        /\ setup' = [setup EXCEPT ![k] = "Signalling"]
        /\ channel' = [channel EXCEPT ![k] = "Connecting"]
        /\ UNCHANGED <<protocol, dialVars, signalVars, loopVars>>
    BY <1>3 DEF SetupAttaches
  <2>2. /\ Progresses(k) /\ connections' = connections
        /\ CanAttachTransferredChannel(sessions[k])
        /\ sessions'[k] = AttachTransferredChannel(sessions[k])
    BY <1>1, <2>1, UpdateMethods
  <2>3. ~closed /\ k \in pending \cup prepares => PendingDialAction(sessions'[k]) = "None"
    <3>1. sessions[k] \in Session
      BY <1>1, <2>2, SessionsTyped DEF Progresses, NoSession
    <3> QED BY <1>1, <2>2, <3>1, ActionFacts DEF KeyInv, UndecidedInv
  <2>4. /\ Running(k) /\ setup'[k] # "Attaching"
        /\ held'[k] = "WebRtc" => sessions'[k].channel \in OnceOpen
        /\ \A j \in Keys \ {k} : SameRtc(j)
    BY <1>1, <1>2, <2>1, <2>2
    DEF Running, SameRtc, loopVars, KeyInv, RtcInv, Progresses, Keeps
  <2>5. UNCHANGED <<protocol, senders, connections>> /\ CompletePending(k, "None")
    BY <2>1, <2>2, Untouched DEF signalVars
  <2> QED BY <1>2, <2>2, <2>3, <2>4, <2>5, HandlerKeyStep
<1>4. CASE SetupDone(k)
  <2>1. /\ setup[k] = "Signalling" /\ setup' = [setup EXCEPT ![k] = "Done"]
        /\ UNCHANGED <<nodeVars, protocol, dialVars, signalVars, channel, loopVars>>
    BY <1>4 DEF SetupDone
  <2>2. /\ Running(k) /\ setup'[k] # "Attaching"
        /\ held'[k] = "WebRtc" => sessions'[k].channel \in OnceOpen
        /\ \A j \in Keys \ {k} : SameRtc(j)
    BY <1>1, <1>2, <2>1 DEF Running, SameRtc, loopVars, KeyInv, RtcInv, nodeVars
  <2>3. /\ UNCHANGED <<protocol, senders, sessions, closed, connections>>
        /\ CompletePending(k, "None")
    BY <2>1, Untouched DEF signalVars, nodeVars
  <2>4. ~closed /\ k \in pending \cup prepares => PendingDialAction(sessions'[k]) = "None"
    BY <1>1, <2>3 DEF KeyInv, UndecidedInv
  <2> QED BY <1>2, <2>2, <2>3, <2>4, HandlerKeyStep
<1>5. CASE SetupFails(k)
  <2>1. /\ setup[k] \in {"Spawned", "Signalling"} /\ setup' = [setup EXCEPT ![k] = "Done"]
        /\ UNCHANGED <<protocol, loopVars>>
    BY <1>5 DEF SetupFails
  <2>2. /\ Running(k) /\ setup'[k] # "Attaching"
        /\ \A j \in Keys \ {k} : setup'[j] = setup[j]
    BY <1>2, <2>1 DEF Running
  <2>3. CASE ~closed
    BY <1>5, <2>1, <2>2, <2>3, LifecycleStep DEF SetupFails
  <2>4. CASE closed
    <3>1. ClosePeer(k) /\ UNCHANGED <<nodeVars, dialVars, signalVars>>
      BY <1>5, <2>4 DEF SetupFails
    <3>2. /\ held'[k] = "WebRtc" => sessions'[k].channel \in OnceOpen
          /\ \A j \in Keys \ {k} : SameRtc(j)
      BY <1>1, <2>1, <2>2, <3>1, ClosePeerFrame DEF SameRtc, loopVars, KeyInv, RtcInv, nodeVars
    <3>3. /\ UNCHANGED <<protocol, senders, sessions, closed, connections>>
          /\ CompletePending(k, "None")
      BY <2>1, <3>1, Untouched DEF signalVars, nodeVars
    <3> QED BY <1>2, <2>2, <2>4, <3>2, <3>3, HandlerKeyStep
  <2> QED BY <2>3, <2>4
<1> QED BY <1>3, <1>4, <1>5 DEF Setup

LEMMA AcceptorStep ==
  ASSUME IInv, NEW k \in Keys, NEW opened \in BOOLEAN, AcceptorAttaches(k, opened)
  PROVE  KeyStep(k)
<1>1. KeyInv(k) /\ TypeOK /\ Node!TypeOK
  BY DEF IInv, TypeOK
<1>2. /\ setup[k] = "Attaching" /\ setup' = [setup EXCEPT ![k] = "Done"]
      /\ UNCHANGED <<protocol, dialVars, signalVars, loopVars>>
  BY DEF AcceptorAttaches
<1>3. /\ \A j \in Keys \ {k} : channel'[j] = channel[j]
      /\ (Progresses(k) /\ connections' = connections) \/ UNCHANGED nodeVars
  <2>1. CASE CanAttachTransferredChannel(sessions[k])
    <3>1. /\ channel' = [channel EXCEPT ![k] = IF opened THEN "Open" ELSE "Connecting"]
          /\ Node!AttachOpenDataChannel(k) \/ Node!AttachDataChannel(k)
      BY <2>1 DEF AcceptorAttaches
    <3> QED BY <1>1, <3>1, UpdateMethods DEF TypeOK
  <2>2. CASE ~CanAttachTransferredChannel(sessions[k])
    BY <2>2 DEF AcceptorAttaches
  <2> QED BY <2>1, <2>2
<1>4. sessions[k].role = "Acceptor" /\ k \notin pending \cup prepares
  BY <1>1, <1>2 DEF KeyInv, RtcInv, DialInv
<1>5. /\ Running(k) /\ setup'[k] # "Attaching"
      /\ held'[k] = "WebRtc" => sessions'[k].channel \in OnceOpen
      /\ \A j \in Keys \ {k} : SameRtc(j)
  BY <1>1, <1>2, <1>3
  DEF TypeOK, Running, SameRtc, loopVars, nodeVars, KeyInv, RtcInv, Progresses, Keeps
<1>6. UNCHANGED <<protocol, senders, connections>> /\ CompletePending(k, "None")
  BY <1>2, <1>3, Untouched DEF signalVars, nodeVars
<1>7. "None" \in DialActions
  BY DEF DialActions
<1> QED BY <1>3, <1>4, <1>5, <1>6, <1>7, HandlerKeyStep DEF nodeVars

LEMMA ChannelStep ==
  ASSUME IInv, NEW k \in Keys,
         DataChannelOpens(k) \/ DataChannelFails(k) \/ DataChannelCloses(k)
  PROVE  KeyStep(k)
<1>1. KeyInv(k) /\ TypeOK /\ Node!TypeOK
  BY DEF IInv, TypeOK
<1>2. Running(k)
  BY DEF Running, DataChannelOpens, DataChannelFails, DataChannelCloses
<1>3. CASE DataChannelOpens(k)
  <2>1. /\ channel' = [channel EXCEPT ![k] = "Open"]
        /\ UNCHANGED <<protocol, setup, signalVars, loopVars>>
    BY <1>3 DEF DataChannelOpens
  <2>2. PICK action \in DialActions :
          /\ (Progresses(k) /\ connections' = connections) \/ UNCHANGED nodeVars
          /\ CompletePending(k, action)
          /\ action = "WebRtc" => sessions'[k].channel \in OnceOpen
          /\ action = "None" /\ ~closed /\ k \in pending \cup prepares
               => PendingDialAction(sessions'[k]) = "None"
    <3>1. CASE CanMarkTransferredChannelOpen(sessions[k])
      <4>1. /\ Node!MarkDataChannelOpen(k)
            /\ CompletePending(k, PendingDialAction(sessions'[k]))
        BY <1>3, <3>1 DEF DataChannelOpens, OpenChannel
      <4> QED BY <1>1, <4>1, UpdateMethods, ActionFacts
    <3>2. CASE ~CanMarkTransferredChannelOpen(sessions[k])
      <4>1. UNCHANGED <<nodeVars, dialVars>> /\ "None" \in DialActions
        BY <1>3, <3>2 DEF DataChannelOpens, DialActions
      <4>2. ~closed /\ k \in pending \cup prepares => PendingDialAction(sessions'[k]) = "None"
        BY <1>1, <4>1 DEF KeyInv, UndecidedInv, nodeVars
      <4> QED BY <4>1, <4>2, Untouched
    <3> QED BY <3>1, <3>2
  <2>3. /\ held'[k] = "WebRtc" => sessions'[k].channel \in OnceOpen
        /\ \A j \in Keys \ {k} : SameRtc(j)
        /\ setup'[k] = "Attaching" => sessions[k].role = "Acceptor"
    BY <1>1, <2>1, <2>2
    DEF TypeOK, SameRtc, loopVars, nodeVars, KeyInv, RtcInv, Progresses, Keeps
  <2> QED BY <1>2, <2>1, <2>2, <2>3, HandlerKeyStep DEF signalVars, nodeVars
<1>4. CASE DataChannelFails(k)
  BY <1>2, <1>4, LifecycleStep DEF DataChannelFails
<1>5. CASE DataChannelCloses(k)
  <2>1. /\ Node!DecideWebRtcClosed(k)
        /\ channel' = [channel EXCEPT ![k] = "Closed"]
        /\ CompletePending(k, PendingDialAction(sessions'[k]))
        /\ UNCHANGED <<protocol, setup, senders, loopVars>>
    BY <1>5 DEF DataChannelCloses, SendTerminal
  <2>2. Progresses(k) /\ connections' = connections
    BY <1>1, <2>1, UpdateMethods
  <2>3. /\ held'[k] = "WebRtc" => sessions'[k].channel \in OnceOpen
        /\ \A j \in Keys \ {k} : SameRtc(j)
        /\ setup'[k] = "Attaching" => sessions[k].role = "Acceptor"
    BY <1>1, <2>1, <2>2 DEF TypeOK, SameRtc, loopVars, KeyInv, RtcInv, Progresses, Keeps
  <2> QED BY <1>2, <2>1, <2>2, <2>3, ActionFacts, HandlerKeyStep
<1> QED BY <1>3, <1>4, <1>5

LEMMA LoopStep ==
  ASSUME IInv, NEW k \in Keys,
         \/ \E reason \in Reasons : ReceiveTerminal(k, reason)
         \/ ReceiveRtcSignal(k) \/ RtcSignalApplied(k) \/ LoopEnds(k)
  PROVE  KeyStep(k)
<1>1. KeyInv(k) /\ TypeOK /\ Node!TypeOK
  BY DEF IInv, TypeOK
<1>2. Running(k) /\ "None" \in DialActions
  BY DEF Running, ReceiveTerminal, ReceiveRtcSignal, RtcSignalApplied, LoopEnds, DialActions
<1>3. ASSUME NEW reason \in Reasons, ReceiveTerminal(k, reason)
      PROVE  KeyStep(k)
  <2>1. /\ Node!ApplyRemoteTerminal(k, reason)
        /\ CompletePending(k, PendingDialAction(sessions'[k]))
        /\ UNCHANGED <<protocol, signalVars, rtcVars, loopVars>>
    BY <1>3 DEF ReceiveTerminal
  <2>2. Progresses(k) /\ connections' = connections
    BY <1>1, <2>1, UpdateMethods
  <2>3. /\ held'[k] = "WebRtc" => sessions'[k].channel \in OnceOpen
        /\ \A j \in Keys \ {k} : SameRtc(j)
        /\ setup'[k] = "Attaching" => sessions[k].role = "Acceptor"
    BY <1>1, <2>1, <2>2 DEF SameRtc, loopVars, rtcVars, KeyInv, RtcInv, Progresses, Keeps
  <2> QED BY <1>2, <2>1, <2>2, <2>3, ActionFacts, HandlerKeyStep DEF signalVars
<1>4. ~closed /\ k \in pending \cup prepares => PendingDialAction(sessions[k]) = "None"
  BY <1>1 DEF KeyInv, UndecidedInv
<1>5. CASE ReceiveRtcSignal(k)
  <2>1. /\ held' = [held EXCEPT ![k] = PendingDialAction(sessions[k])]
        /\ loop' = [loop EXCEPT ![k] = "InRtc"]
        /\ UNCHANGED <<nodeVars, protocol, dialVars, signalVars, rtcVars>>
    BY <1>5 DEF ReceiveRtcSignal
  <2>2. /\ held'[k] = "WebRtc" => sessions'[k].channel \in OnceOpen
        /\ \A j \in Keys \ {k} : SameRtc(j)
        /\ setup'[k] = "Attaching" => sessions[k].role = "Acceptor"
    BY <1>1, <2>1, ActionFacts DEF TypeOK, SameRtc, rtcVars, nodeVars, KeyInv, RtcInv
  <2> QED BY <1>2, <1>4, <2>1, <2>2, Untouched, HandlerKeyStep DEF signalVars, nodeVars
<1>6. CASE RtcSignalApplied(k)
  <2>1. /\ held' = [held EXCEPT ![k] = "None"] /\ loop' = [loop EXCEPT ![k] = "Listening"]
        /\ \/ UNCHANGED setup
           \/ /\ sessions[k].role = "Acceptor"
              /\ setup' = [setup EXCEPT ![k] = "Attaching"]
        /\ CompletePending(k, held[k])
        /\ UNCHANGED <<nodeVars, protocol, signalVars, channel>>
    BY <1>6 DEF RtcSignalApplied
  <2>2. /\ held[k] \in DialActions
        /\ held[k] = "WebRtc" => sessions'[k].channel \in OnceOpen
        /\ held'[k] # "WebRtc"
        /\ \A j \in Keys \ {k} : SameRtc(j)
        /\ setup'[k] = "Attaching" => sessions[k].role = "Acceptor"
    BY <1>1, <2>1 DEF TypeOK, SameRtc, nodeVars, KeyInv, RtcInv
  <2> QED BY <1>2, <1>4, <2>1, <2>2, HandlerKeyStep DEF signalVars, nodeVars
<1>7. CASE LoopEnds(k)
  <2>1. /\ held' = [held EXCEPT ![k] = "None"] /\ loop' = [loop EXCEPT ![k] = "Ended"]
        /\ UNCHANGED <<nodeVars, protocol, dialVars, signalVars, rtcVars>>
    BY <1>7 DEF LoopEnds
  <2>2. /\ held'[k] # "WebRtc"
        /\ \A j \in Keys \ {k} : SameRtc(j)
        /\ setup'[k] = "Attaching" => sessions[k].role = "Acceptor"
    BY <1>1, <2>1 DEF TypeOK, SameRtc, rtcVars, nodeVars, KeyInv, RtcInv
  <2> QED BY <1>2, <1>4, <2>1, <2>2, Untouched, HandlerKeyStep DEF signalVars, nodeVars
<1> QED BY <1>3, <1>5, <1>6, <1>7

-----------------------------------------------------------------------------
(* The dial futures and the requests of peers *)

LEMMA NewSessionFacts ==
  ASSUME NEW role \in Roles, NEW intent \in Intents
  PROVE  /\ NewSession(role, intent).role = role
         /\ UsesWebRtc(intent) => PendingDialAction(NewSession(role, intent)) = "None"
BY DEF NewSession, UsesWebRtc, PendingDialAction

(* What is known of a key without a session. *)
LEMMA FreshKey ==
  ASSUME NEW k \in Keys, KeyInv(k), sessions[k] = NoSession
  PROVE  /\ sessions[k].role = "NoRole" /\ ~HasConnection(k)
         /\ caller[k] = "Idle" /\ answer[k] = "None" /\ task[k] = "None"
         /\ k \notin protocol /\ k \notin pending /\ k \notin prepares /\ k \notin senders
         /\ setup[k] = "None" /\ channel[k] = "None" /\ loop[k] = "None"
         /\ held[k] # "WebRtc"
BY DEF NoSession, KeyInv, DialInv, RtcInv, ConnectionInv, OnceOpen, Ended

LEMMA StartStep ==
  ASSUME IInv, NEW k \in Keys, NEW intent \in DialIntents,
         StartDial(k, intent) \/ StartPrepare(k, intent)
  PROVE  KeyStep(k)
<1>1. KeyInv(k) /\ TypeOK /\ Node!TypeOK /\ intent \in Intents
  BY RuntimeAssumption DEF IInv, TypeOK, RuntimeAssumption
<1>2. Allocates(k, "Dialer", intent)
  BY <1>1, AllocationMethods DEF StartDial, StartPrepare
<1>3. /\ sessions[k] = NoSession /\ sessions'[k].role = "Dialer"
      /\ UsesWebRtc(intent) => PendingDialAction(sessions'[k]) = "None"
      /\ closed' = closed /\ \A j \in Keys \ {k} : sessions'[j] = sessions[j]
      /\ \A j : HasConnection(j)' <=> HasConnection(j)
  BY <1>1, <1>2, NewSessionFacts DEF Allocates, OnlySession, Roles, HasConnection
<1>4. SameConnected(k)
  BY <1>1, <1>3, FreshKey DEF SameConnected, IsConnected
<1>5. CASE StartDial(k, intent)
  <2>1. UNCHANGED <<protocol, answer, pending, prepares, lookup, signalVars, rtcVars, loopVars>>
    BY <1>5 DEF StartDial
  <2>2. /\ \/ UsesWebRtc(intent) /\ caller'[k] = "Opening" /\ task'[k] = task[k]
           \/ caller'[k] = "Relaying" /\ task'[k] = "Relay"
        /\ \A j \in Keys \ {k} : caller'[j] = caller[j] /\ task'[j] = task[j]
    BY <1>1, <1>5 DEF StartDial, TypeOK
  <2>3. \A j \in Keys \ {k} : Same(j)
    BY <1>3, <2>1, <2>2 DEF Same, signalVars, rtcVars, loopVars
  <2>4. KeyInv(k)'
    BY <1>1, <1>3, <2>1, <2>2, FreshKey
    DEF KeyInv, DialInv, RtcInv, UndecidedInv, ConnectionInv, PrepareInv,
        signalVars, rtcVars, loopVars
  <2>5. KeepsPromise(k)
    <3>1. DialState(k) = "Idle" /\ DialState(k)' = "Waiting"
      BY <1>1, <1>3, <2>1, <2>2, FreshKey DEF DialState
    <3> QED BY <1>4, <3>1 DEF KeepsPromise, SamePromised
  <2> QED BY <1>3, <2>3, <2>4, <2>5 DEF KeyStep
<1>6. CASE StartPrepare(k, intent)
  <2>1. /\ UsesWebRtc(intent) /\ protocol' = protocol \cup {k}
        /\ caller' = [caller EXCEPT ![k] = "Opening"]
        /\ UNCHANGED <<answer, pending, prepares, lookup, task, signalVars, rtcVars, loopVars>>
    BY <1>6 DEF StartPrepare
  <2>2. caller'[k] = "Opening" /\ \A j \in Keys \ {k} : caller'[j] = caller[j]
    BY <1>1, <2>1 DEF TypeOK
  <2>3. \A j \in Keys \ {k} : Same(j)
    BY <1>3, <2>1, <2>2 DEF Same, signalVars, rtcVars, loopVars
  <2>4. KeyInv(k)'
    BY <1>1, <1>3, <2>1, <2>2, FreshKey
    DEF KeyInv, DialInv, RtcInv, UndecidedInv, ConnectionInv, PrepareInv,
        signalVars, rtcVars, loopVars
  <2>5. KeepsPromise(k)
    <3>1. DialState(k) = "Idle" /\ DialState(k)' = "Idle"
      BY <1>1, <1>3, <2>1, <2>2, FreshKey DEF DialState
    <3> QED BY <1>4, <3>1 DEF KeepsPromise, SamePromised
  <2> QED BY <1>3, <2>3, <2>4, <2>5 DEF KeyStep
<1> QED BY <1>5, <1>6

LEMMA RequestStep ==
  ASSUME IInv, NEW k \in Keys, NEW intent \in AcceptIntents, NEW created \in BOOLEAN,
         ReceiveDialRequest(k, intent, created)
  PROVE  KeyStep(k)
<1>1. KeyInv(k) /\ TypeOK /\ Node!TypeOK /\ intent \in Intents
  BY RuntimeAssumption DEF IInv, TypeOK, RuntimeAssumption
<1>2. Allocates(k, "Acceptor", intent)
  BY <1>1, AllocationMethods DEF ReceiveDialRequest
<1>3. /\ sessions[k] = NoSession /\ sessions'[k].role = "Acceptor"
      /\ closed' = closed /\ \A j \in Keys \ {k} : sessions'[j] = sessions[j]
      /\ \A j : HasConnection(j)' <=> HasConnection(j)
  BY <1>1, <1>2, NewSessionFacts DEF Allocates, OnlySession, Roles, HasConnection
<1>4. /\ senders' = senders \cup {k}
      /\ \A j \in Keys \ {k} : loop'[j] = loop[j]
      /\ UNCHANGED <<protocol, dialVars, setup, channel, held>>
  BY <1>1 DEF ReceiveDialRequest, TypeOK
<1>5. \A j \in Keys \ {k} : Same(j)
  BY <1>3, <1>4 DEF Same, dialVars
<1>6. KeyInv(k)'
  BY <1>1, <1>3, <1>4, FreshKey
  DEF KeyInv, DialInv, RtcInv, UndecidedInv, ConnectionInv, PrepareInv, dialVars
<1>7. KeepsPromise(k)
  <2>1. SameConnected(k)
    BY <1>1, <1>3, FreshKey DEF SameConnected, IsConnected
  <2> QED BY <1>4, <2>1 DEF KeepsPromise, SamePromised, DialState, dialVars
<1> QED BY <1>3, <1>5, <1>6, <1>7 DEF KeyStep

LEMMA FutureStep ==
  ASSUME IInv, NEW k \in Keys,
         BootstrapOpenFails(k) \/ BootstrapOpens(k) \/ DropDial(k) \/ DialReturns(k)
  PROVE  KeyStep(k)
<1>1. KeyInv(k) /\ TypeOK
  BY DEF IInv
<1>2. UNCHANGED <<sessions, connections, closed>>
  BY DEF BootstrapOpenFails, BootstrapOpens, DropDial, DialReturns, nodeVars
<1>3. /\ \A j : HasConnection(j)' <=> HasConnection(j)
      /\ SameConnected(k)
  BY <1>2 DEF HasConnection, SameConnected, IsConnected
<1> USE DEF TypeOK, Same, KeyInv, DialInv, RtcInv, UndecidedInv, ConnectionInv, PrepareInv,
        signalVars, rtcVars, loopVars
<1>4. CASE BootstrapOpenFails(k)
  <2>1. \A j \in Keys \ {k} : Same(j)
    BY <1>1, <1>2, <1>3, <1>4 DEF BootstrapOpenFails
  <2>2. KeyInv(k)'
    BY <1>1, <1>2, <1>3, <1>4 DEF BootstrapOpenFails
  <2>3. KeepsPromise(k)
    BY <1>1, <1>3, <1>4
    DEF BootstrapOpenFails, KeepsPromise, SamePromised, DialState, Promise!Errors
  <2> QED BY <1>2, <2>1, <2>2, <2>3 DEF KeyStep
<1>5. CASE BootstrapOpens(k)
  <2>1. \A j \in Keys \ {k} : Same(j)
    BY <1>1, <1>2, <1>3, <1>5 DEF BootstrapOpens
  <2>2. KeyInv(k)'
    BY <1>1, <1>2, <1>3, <1>5 DEF BootstrapOpens
  <2>3. KeepsPromise(k)
    BY <1>1, <1>3, <1>5 DEF BootstrapOpens, KeepsPromise, SamePromised, DialState, Promise!Errors
  <2> QED BY <1>2, <2>1, <2>2, <2>3 DEF KeyStep
<1>6. CASE DropDial(k)
  <2>1. \A j \in Keys \ {k} : Same(j)
    BY <1>1, <1>2, <1>3, <1>6 DEF DropDial
  <2>2. KeyInv(k)'
    BY <1>1, <1>2, <1>3, <1>6 DEF DropDial
  <2>3. KeepsPromise(k)
    BY <1>1, <1>3, <1>6 DEF DropDial, KeepsPromise, SamePromised, DialState, Promise!Errors
  <2> QED BY <1>2, <2>1, <2>2, <2>3 DEF KeyStep
<1>7. CASE DialReturns(k)
  <2>1. \A j \in Keys \ {k} : Same(j)
    BY <1>1, <1>2, <1>3, <1>7 DEF DialReturns
  <2>2. KeyInv(k)'
    BY <1>1, <1>2, <1>3, <1>7 DEF DialReturns
  <2>3. KeepsPromise(k)
    BY <1>1, <1>3, <1>7 DEF DialReturns, KeepsPromise, SamePromised, DialState, Promise!Errors
  <2> QED BY <1>2, <2>1, <2>2, <2>3 DEF KeyStep
<1> QED BY <1>4, <1>5, <1>6, <1>7

-----------------------------------------------------------------------------
(* The application connections *)

(* The session, its future and its connections change; nothing else does. *)
SameRest ==
  UNCHANGED <<protocol, pending, prepares, lookup, signalVars, rtcVars, loopVars>>

LEMMA AnswerEffect ==
  ASSUME TypeOK, NEW k \in Keys, NEW result, AnswerDial(k, result)
  PROVE  /\ SameRest
         /\ \A j \in Keys \ {k} :
              caller'[j] = caller[j] /\ answer'[j] = answer[j] /\ task'[j] = task[j]
         /\ task'[k] = "None"
         /\ answer'[k] = IF caller[k] = "Dropped" THEN answer[k] ELSE result
         /\ caller[k] = "Waiting"  => caller'[k] = "Answered"
         /\ caller[k] = "Relaying" => caller'[k] = "Returned"
         /\ caller[k] \notin {"Waiting", "Relaying"} => caller'[k] = caller[k]
BY DEF AnswerDial, SameRest, TypeOK

LEMMA FailedConnectionStep ==
  ASSUME IInv, NEW k \in Keys,
         StartWebRtcConnection(k) \/ WebRtcConnectionFails(k) \/ RelayConnectionFails(k)
  PROVE  KeyStep(k)
<1>1. KeyInv(k) /\ TypeOK
  BY DEF IInv
<1>2. UNCHANGED <<sessions, connections, closed>> /\ task[k] # "None"
  BY DEF StartWebRtcConnection, WebRtcConnectionFails, RelayConnectionFails, nodeVars
<1>3. /\ \A j : HasConnection(j)' <=> HasConnection(j)
      /\ SameConnected(k)
  BY <1>2 DEF HasConnection, SameConnected, IsConnected
<1>4. CASE \E result \in Promise!Errors : AnswerDial(k, result)
  <2>1. \A j \in Keys \ {k} : Same(j)
    BY <1>1, <1>2, <1>3, <1>4, AnswerEffect DEF Same, SameRest, signalVars, rtcVars, loopVars
  <2>2. KeyInv(k)'
    BY <1>1, <1>2, <1>3, <1>4, AnswerEffect
    DEF TypeOK, CallerStates, SameRest, signalVars, rtcVars, loopVars,
        KeyInv, DialInv, RtcInv, UndecidedInv, ConnectionInv, PrepareInv
  <2>3. KeepsPromise(k)
    <3>1. PICK error \in Promise!Errors : AnswerDial(k, error)
      BY <1>4
    <3>2. /\ caller[k] \in {"Waiting", "Relaying", "Dropped"} /\ answer[k] = "None"
          /\ k \notin protocol /\ protocol' = protocol
      BY <1>1, <1>2, <3>1, AnswerEffect DEF KeyInv, DialInv, SameRest
    <3>3. \/ caller[k] = "Dropped" /\ caller'[k] = "Dropped" /\ answer'[k] = "None"
          \/ caller[k] # "Dropped" /\ answer'[k] = error
      BY <1>1, <3>1, <3>2, AnswerEffect
    <3> QED BY <1>3, <3>2, <3>3 DEF KeepsPromise, SamePromised, DialState, Promise!Errors
  <2> QED BY <1>2, <2>1, <2>2, <2>3 DEF KeyStep
<1>5. CASE /\ task' = [task EXCEPT ![k] = "WebRtcConnecting"]
           /\ UNCHANGED <<protocol, caller, answer, pending, prepares, lookup,
                           signalVars, rtcVars, loopVars>>
  <2>1. \A j \in Keys \ {k} : Same(j)
    BY <1>1, <1>2, <1>3, <1>5 DEF TypeOK, Same, signalVars, rtcVars, loopVars
  <2>2. KeyInv(k)'
    BY <1>1, <1>2, <1>3, <1>5
    DEF TypeOK, signalVars, rtcVars, loopVars,
        KeyInv, DialInv, RtcInv, UndecidedInv, ConnectionInv, PrepareInv
  <2>3. KeepsPromise(k)
    BY <1>3, <1>5 DEF KeepsPromise, SamePromised, DialState
  <2> QED BY <1>2, <2>1, <2>2, <2>3 DEF KeyStep
<1> QED BY <1>4, <1>5
        DEF StartWebRtcConnection, WebRtcConnectionFails, RelayConnectionFails, Promise!Errors

(* A task is no longer there once the connection is: no second one is opened. *)
LEMMA OpenedConnectionStep ==
  ASSUME IInv, NEW k \in Keys, WebRtcConnectionOpens(k) \/ RelayConnectionOpens(k)
  PROVE  KeyStep(k) /\ Admits(k) /\ ~HasConnection(k)
<1>1. KeyInv(k) /\ TypeOK /\ Node!TypeOK
  BY DEF IInv, TypeOK
<1>2. PICK transport \in Transports :
        Node!CompleteDialAndAdmit(k, transport) /\ AnswerDial(k, "Connected")
  BY DEF WebRtcConnectionOpens, RelayConnectionOpens, Transports
<1>3. Progresses(k) /\ sessions[k].role = "Dialer" /\ Admits(k)
  BY <1>1, <1>2, AdmissionMethods
<1>4. task[k] # "None"
  BY DEF WebRtcConnectionOpens, RelayConnectionOpens
<1>5. \A j : HasConnection(j)' <=> HasConnection(j) \/ j = k
  BY <1>1, <1>3, AdmittedConnection
<1>6. \A j \in Keys \ {k} : Same(j)
  BY <1>1, <1>2, <1>3, <1>5, AnswerEffect
  DEF Same, Progresses, OnlySession, SameRest, signalVars, rtcVars, loopVars
<1>7. ~HasConnection(k)
  BY <1>1, <1>3, <1>4 DEF KeyInv, ConnectionInv
<1>8. /\ caller[k] \in {"Waiting", "Relaying", "Dropped"} /\ answer[k] = "None"
      /\ caller'[k] \in {"Answered", "Returned", "Dropped"} /\ task'[k] = "None"
      /\ caller[k] = "Waiting" => caller'[k] = "Answered"
      /\ caller[k] = "Dropped" => caller'[k] = "Dropped" /\ answer'[k] = "None"
      /\ caller[k] # "Dropped" => answer'[k] = "Connected"
      /\ k \notin protocol /\ k \notin pending /\ k \notin prepares
  <2>1. caller[k] \in CallerStates
    BY <1>1 DEF TypeOK
  <2> QED BY <1>1, <1>2, <1>4, <2>1, AnswerEffect DEF KeyInv, DialInv, CallerStates
<1>9. KeyInv(k)'
  <2>1. SameRest /\ sessions'[k].role = "Dialer"
    BY <1>1, <1>2, <1>3, AnswerEffect DEF Progresses, Keeps
  <2>2. DialInv(k)'
    BY <1>1, <1>8, <2>1 DEF SameRest, signalVars, KeyInv, DialInv
  <2>3. RtcInv(k)'
    BY <1>1, <1>3, <1>8, <2>1
    DEF SameRest, rtcVars, loopVars, KeyInv, RtcInv, Progresses, Keeps
  <2>4. UndecidedInv(k)' /\ PrepareInv(k)'
    BY <1>8, <2>1 DEF SameRest, UndecidedInv, PrepareInv
  <2>5. ConnectionInv(k)'
    BY <1>8, <2>1 DEF ConnectionInv
  <2> QED BY <2>2, <2>3, <2>4, <2>5 DEF KeyInv
<1>10. KeepsPromise(k)
  <2>1. protocol' = protocol /\ sessions'[k].role = "Dialer"
    BY <1>1, <1>2, <1>3, AnswerEffect DEF SameRest, Progresses, Keeps
  <2>2. ~IsConnected(k) /\ IsConnected(k)'
    BY <1>5, <1>7, <2>1 DEF IsConnected
  <2> QED BY <1>8, <2>1, <2>2 DEF KeepsPromise, SamePromised, DialState
<1> QED BY <1>3, <1>6, <1>7, <1>9, <1>10 DEF KeyStep, Progresses, OnlySession

LEMMA AcceptedStep ==
  ASSUME IInv, NEW k \in Keys, NEW admitted \in BOOLEAN, FacadeAccepts(k, admitted)
  PROVE  KeyStep(k) /\ (connections' = connections \/ (Admits(k) /\ ~HasConnection(k)))
<1>1. KeyInv(k) /\ TypeOK /\ Node!TypeOK
  BY DEF IInv, TypeOK
<1>2. /\ Progresses(k) /\ sessions[k].role = "Acceptor"
      /\ sessions[k].resolved = "None" /\ sessions'[k].resolved # "None"
      /\ Admits(k) \/ connections' = connections
  BY <1>1, AdmissionMethods DEF FacadeAccepts
<1>3. UNCHANGED <<protocol, dialVars, signalVars, rtcVars, loopVars>>
  BY DEF FacadeAccepts
<1>4. ~HasConnection(k)
  BY <1>1, <1>2 DEF KeyInv, ConnectionInv
<1>5. \A j \in Keys \ {k} : HasConnection(j)' <=> HasConnection(j)
  BY <1>1, <1>2, AdmittedConnection DEF HasConnection
<1>6. \A j \in Keys \ {k} : Same(j)
  BY <1>2, <1>3, <1>5 DEF Same, Progresses, OnlySession, dialVars, signalVars, rtcVars, loopVars
<1>7. KeyInv(k)'
  <2>1. sessions'[k].role = "Acceptor" /\ caller[k] = "Idle"
    BY <1>1, <1>2 DEF KeyInv, DialInv, Progresses, Keeps
  <2> QED BY <1>1, <1>2, <1>3, <2>1
          DEF dialVars, signalVars, rtcVars, loopVars, Progresses, Keeps,
              KeyInv, DialInv, RtcInv, UndecidedInv, ConnectionInv, PrepareInv
<1>8. KeepsPromise(k)
  <2>1. SameConnected(k)
    BY <1>2 DEF SameConnected, IsConnected, Progresses, Keeps
  <2> QED BY <1>3, <2>1 DEF KeepsPromise, SamePromised, DialState, dialVars
<1> QED BY <1>2, <1>4, <1>6, <1>7, <1>8 DEF KeyStep, Progresses, OnlySession

-----------------------------------------------------------------------------
(* Closing *)

SameRuntime == UNCHANGED <<protocol, senders, dialVars, rtcVars, loopVars>>

(* The session of k is closed, under the runtime's hands. *)
LEMMA ClosedSession ==
  ASSUME IInv, SameRuntime, SameOwners, NEW k \in Keys,
         Keeps(sessions[k], sessions'[k]),
         closed' \/ (HasConnection(k) /\ closed' = closed)
  PROVE  KeyInv(k)' /\ SamePromised(k)
<1>1. KeyInv(k)
  BY DEF IInv
<1>2. HasConnection(k)' <=> HasConnection(k)
  BY SameOwnersSameConnections
<1>3. sessions'[k].role = sessions[k].role /\ sessions'[k].intent = sessions[k].intent
  BY DEF Keeps
<1> USE DEF SameRuntime, dialVars, rtcVars, loopVars
<1>4. DialInv(k)' /\ RtcInv(k)'
  BY <1>1, <1>3 DEF KeyInv, DialInv, RtcInv, Keeps
<1>5. UndecidedInv(k)'
  <2>1. HasConnection(k)
          => caller[k] # "Opening" /\ k \notin pending /\ k \notin prepares
    BY <1>1 DEF IInv, TypeOK, KeyInv, ConnectionInv, DialInv
  <2> QED BY <2>1 DEF UndecidedInv
<1>6. ConnectionInv(k)'
  BY <1>1, <1>2, <1>3 DEF KeyInv, ConnectionInv, Keeps
<1>7. PrepareInv(k)'
  BY <1>1, <1>3 DEF KeyInv, PrepareInv, Keeps, AllowsRelayFallback
<1>8. SamePromised(k)
  BY <1>2, <1>3 DEF SamePromised, DialState, SameConnected, IsConnected
<1> QED BY <1>4, <1>5, <1>6, <1>7, <1>8 DEF KeyInv

LEMMA CloseConnectionStep ==
  ASSUME IInv, NEW c \in 1..Len(connections), CloseConnection(c)
  PROVE  SameOwners /\ \A k \in Keys : KeyInv(k)' /\ SamePromised(k)
<1> DEFINE owner == connections[c].session
<1>1. TypeOK /\ Node!TypeOK /\ sessions \in [Keys -> Session \cup {NoSession}]
  BY SessionsTyped DEF IInv, TypeOK
<1>2. SameOwners /\ SameRuntime /\ closed' = closed
  BY <1>1, ClosingKeepsOwners
  DEF CloseConnection, Node!CloseConnection, SameRuntime, signalVars
<1>3. \/ sessions' = sessions
      \/ sessions' = [sessions EXCEPT ![owner] = CloseSession(sessions[owner])]
  BY SameOperations DEF CloseConnection, Node!CloseConnection, Node!SetSession
<1>4. ASSUME NEW k \in Keys, k # owner \/ sessions' = sessions
      PROVE  KeyInv(k)' /\ SamePromised(k)
  <2>1. sessions'[k] = sessions[k]
    BY <1>1, <1>3, <1>4
  <2>2. Same(k)
    BY <1>2, <2>1, SameOwnersSameConnections
    DEF Same, SameRuntime, dialVars, rtcVars, loopVars
  <2> QED BY <1>2, <2>2, SameKeepsInv, SamePromise DEF IInv
<1>5. ASSUME NEW k \in Keys, k = owner, sessions' # sessions
      PROVE  KeyInv(k)' /\ SamePromised(k)
  <2>1. HasConnection(k) /\ KeyInv(k)
    BY <1>5 DEF HasConnection, IInv
  <2>2. sessions[k] \in Session
    BY <1>1, <2>1 DEF KeyInv, ConnectionInv, NoSession
  <2>3. sessions'[k] = CloseSession(sessions[k])
    BY <1>1, <1>3, <1>5
  <2>4. Keeps(sessions[k], sessions'[k])
    <3>1. "Closed" \in Reasons /\ "Relay" # "None"
      BY DEF Reasons
    <3>2. Keeps(sessions[k], CloseSession(sessions[k]))
      BY <2>2, <3>1, OperationsKeep
    <3> QED BY <2>3, <3>2
  <2> QED BY <1>2, <2>1, <2>4, ClosedSession
<1> QED BY <1>2, <1>4, <1>5

LEMMA CloseNodeStep ==
  ASSUME IInv, CloseNode
  PROVE  SameOwners /\ \A k \in Keys : KeyInv(k)' /\ SamePromised(k)
<1>1. TypeOK /\ Node!TypeOK /\ sessions \in [Keys -> Session \cup {NoSession}]
  BY SessionsTyped DEF IInv, TypeOK
<1>2. SameOwners /\ SameRuntime /\ closed'
  BY <1>1, ClosingKeepsOwners DEF CloseNode, Node!CloseNode, SameRuntime
<1>3. ASSUME NEW k \in Keys
      PROVE  Keeps(sessions[k], sessions'[k])
  <2>1. sessions'[k] = IF sessions[k] # NoSession THEN CloseForNode(sessions[k]) ELSE NoSession
    BY SameOperations DEF CloseNode, Node!CloseNode, Node!Allocated, Node!NoSession, NoSession
  <2>2. CASE sessions[k] = NoSession
    BY <2>1, <2>2 DEF Keeps
  <2>3. CASE sessions[k] \in Session
    <3>1. sessions[k] # NoSession
      BY <2>3 DEF Session, NoSession, Roles
    <3> QED BY <2>1, <2>3, <3>1, OperationsKeep DEF Reasons
  <2> QED BY <1>1, <2>2, <2>3
<1>4. ASSUME NEW k \in Keys
      PROVE  KeyInv(k)' /\ SamePromised(k)
  BY <1>2, <1>3, ClosedSession
<1> QED BY <1>2, <1>4

-----------------------------------------------------------------------------
(* One connection per session *)

LEMMA SameOwnersKeepOne ==
  ASSUME OneConnectionPerSession, SameOwners
  PROVE  OneConnectionPerSession'
BY DEF OneConnectionPerSession, SameOwners

LEMMA AdmissionKeepsOne ==
  ASSUME OneConnectionPerSession, Node!TypeOK, NEW k \in Keys, Admits(k), ~HasConnection(k)
  PROVE  OneConnectionPerSession'
<1>1. connections \in Seq(Node!Connection)
  BY SessionsTyped
<1>2. PICK transport, isClosed :
        connections' = Append(connections, [session |-> k, transport |-> transport,
                                            closed |-> isClosed])
  BY DEF Admits
<1>3. /\ \A c \in 1..Len(connections) : connections'[c] = connections[c]
      /\ connections'[Len(connections) + 1].session = k
      /\ \A c \in 1..Len(connections') : c \in 1..Len(connections) \/ c = Len(connections) + 1
  BY <1>1, <1>2
<1> QED BY <1>3 DEF OneConnectionPerSession, HasConnection

-----------------------------------------------------------------------------
(* Types *)

RuntimeTypes ==
  /\ caller \in [Keys -> CallerStates]
  /\ answer \in [Keys -> Answers]
  /\ protocol \subseteq Keys
  /\ pending \subseteq Keys /\ prepares \subseteq Keys /\ lookup \subseteq Keys
  /\ task \in [Keys -> Tasks]
  /\ senders \subseteq Keys
  /\ told \in [Keys -> Reasons \cup {"None"}]
  /\ setup \in [Keys -> Setups]
  /\ peer \in [Keys -> Peers]
  /\ channel \in [Keys -> RtcChannels]
  /\ loop \in [Keys -> Loops]
  /\ held \in [Keys -> DialActions]

DialTypes ==
  /\ caller \in [Keys -> CallerStates]
  /\ answer \in [Keys -> Answers]
  /\ pending \subseteq Keys /\ prepares \subseteq Keys /\ lookup \subseteq Keys
  /\ task \in [Keys -> Tasks]

LEMMA TypesSplit ==
  /\ TypeOK <=> Node!TypeOK /\ RuntimeTypes
  /\ RuntimeTypes => DialTypes
BY DEF TypeOK, RuntimeTypes, DialTypes

LEMMA NodeTypes ==
  NodeProofs!IInv => Node!TypeOK
BY DEF NodeProofs!IInv, Node!TypeOK, NodeProofs!Session, Node!Session, NodeProofs!NoSession,
       Node!NoSession, NodeProofs!Connection, Node!Connection, NodeProofs!Transports,
       Node!Transports, NodeProofs!Roles, Node!Roles, NodeProofs!Intents, Node!Intents,
       NodeProofs!Channels, Node!Channels, NodeProofs!Lifecycles, Node!Lifecycles,
       NodeProofs!Reasons, Node!Reasons

LEMMA CompletionTypes ==
  ASSUME DialTypes, NEW k \in Keys, NEW action \in DialActions, CompletePending(k, action)
  PROVE  DialTypes'
<1> USE DEF DialTypes
<1>1. CASE UNCHANGED dialVars
  BY <1>1 DEF dialVars
<1>2. CASE SpawnOrAnswer(k, action) /\ pending' = pending \ {k} /\ UNCHANGED <<prepares, lookup>>
  BY <1>2 DEF SpawnOrAnswer, CallerStates, Answers, Tasks
<1>3. CASE /\ AnswerPrepare(k, action) /\ prepares' = prepares \ {k}
           /\ UNCHANGED <<pending, task>> /\ action \in DialActions \ {"None"}
  <2>1. /\ caller' \in [Keys -> CallerStates]
        /\ lookup' \subseteq Keys
    BY <1>3 DEF AnswerPrepare, CallerStates
  <2>2. answer' \in [Keys -> Answers]
    BY <1>3 DEF AnswerPrepare, Answers, DialActions
  <2> QED BY <1>3, <2>1, <2>2
<1> QED BY <1>1, <1>2, <1>3 DEF CompletePending

(* The types of the rest, where a handler completed a dial. *)
OtherTypes ==
  /\ protocol \subseteq Keys /\ senders \subseteq Keys
  /\ told \in [Keys -> Reasons \cup {"None"}]
  /\ setup \in [Keys -> Setups]
  /\ peer \in [Keys -> Peers]
  /\ channel \in [Keys -> RtcChannels]
  /\ loop \in [Keys -> Loops]
  /\ held \in [Keys -> DialActions]

LEMMA ClosePeerTypes ==
  ASSUME OtherTypes, NEW k \in Keys, ClosePeer(k)
  PROVE  peer' \in [Keys -> Peers] /\ channel' \in [Keys -> RtcChannels]
BY DEF OtherTypes, ClosePeer, Peers, RtcChannels

LEMMA SendTypes ==
  ASSUME OtherTypes, NEW k \in Keys, NEW reason \in Reasons, SendTerminal(k, reason)
  PROVE  told' \in [Keys -> Reasons \cup {"None"}] /\ senders' \subseteq Keys
BY DEF OtherTypes, SendTerminal

LEMMA FailureTypes ==
  ASSUME OtherTypes, DialTypes, NEW k \in Keys, DecideFailure(k)
  PROVE  /\ peer' \in [Keys -> Peers] /\ channel' \in [Keys -> RtcChannels]
         /\ told' \in [Keys -> Reasons \cup {"None"}] /\ senders' \subseteq Keys
         /\ DialTypes'
<1>1. FailureReason(sessions[k]) \in Reasons
  BY DEF FailureReason, Reasons
<1> QED BY <1>1, ClosePeerTypes, SendTypes, CompletionTypes, ActionFacts
        DEF DecideFailure, TerminalLifecycle

LEMMA SameDialTypes ==
  ASSUME DialTypes, UNCHANGED dialVars
  PROVE  DialTypes'
BY DEF DialTypes, dialVars

LEMMA HandlerTypes ==
  ASSUME OtherTypes, DialTypes, NEW k \in Keys,
         \/ Setup(k) \/ \E opened \in BOOLEAN : AcceptorAttaches(k, opened)
         \/ DataChannelOpens(k) \/ DataChannelFails(k) \/ DataChannelCloses(k)
         \/ \E reason \in Reasons : ReceiveTerminal(k, reason)
         \/ ReceiveRtcSignal(k) \/ RtcSignalApplied(k) \/ LoopEnds(k)
  PROVE  OtherTypes' /\ DialTypes'
<1> USE DEF OtherTypes, signalVars, rtcVars, loopVars
<1>1. CASE SetupAttaches(k)
  BY <1>1, SameDialTypes DEF SetupAttaches, Setups, Peers, RtcChannels
<1>2. CASE SetupDone(k)
  BY <1>2, SameDialTypes DEF SetupDone, Setups
<1>3. CASE SetupFails(k)
  <2>1. setup' \in [Keys -> Setups] /\ UNCHANGED <<protocol, loop, held>>
    BY <1>3 DEF SetupFails, Setups
  <2>2. CASE closed
    BY <1>3, <2>1, <2>2, ClosePeerTypes, SameDialTypes DEF SetupFails
  <2>3. CASE ~closed
    BY <1>3, <2>1, <2>3, FailureTypes DEF SetupFails
  <2> QED BY <2>2, <2>3
<1>4. ASSUME NEW opened \in BOOLEAN, AcceptorAttaches(k, opened)
      PROVE  OtherTypes' /\ DialTypes'
  <2>1. channel' \in [Keys -> RtcChannels]
    BY <1>4 DEF AcceptorAttaches, RtcChannels
  <2> QED BY <1>4, <2>1, SameDialTypes DEF AcceptorAttaches, Setups
<1>5. CASE DataChannelOpens(k)
  <2>1. DialTypes'
    BY <1>5, CompletionTypes, SameDialTypes, ActionFacts DEF DataChannelOpens, OpenChannel
  <2> QED BY <1>5, <2>1 DEF DataChannelOpens, RtcChannels
<1>6. CASE DataChannelFails(k)
  BY <1>6, FailureTypes DEF DataChannelFails
<1>7. CASE DataChannelCloses(k)
  <2>1. DialTypes' /\ "Closed" \in Reasons
    BY <1>7, CompletionTypes, ActionFacts DEF DataChannelCloses, Reasons
  <2> QED BY <1>7, <2>1, SendTypes DEF DataChannelCloses, RtcChannels, Peers
<1>8. ASSUME NEW reason \in Reasons, ReceiveTerminal(k, reason)
      PROVE  OtherTypes' /\ DialTypes'
  BY <1>8, CompletionTypes, ActionFacts DEF ReceiveTerminal
<1>9. CASE ReceiveRtcSignal(k)
  BY <1>9, SameDialTypes, ActionFacts DEF ReceiveRtcSignal, Loops
<1>10. CASE RtcSignalApplied(k)
  <2>1. DialTypes'
    BY <1>10, CompletionTypes DEF RtcSignalApplied
  <2> QED BY <1>10, <2>1 DEF RtcSignalApplied, Loops, Setups, DialActions
<1>11. CASE LoopEnds(k)
  BY <1>11, SameDialTypes DEF LoopEnds, Loops, DialActions
<1> QED BY <1>1, <1>2, <1>3, <1>4, <1>5, <1>6, <1>7, <1>8, <1>9, <1>10, <1>11 DEF Setup

LEMMA TypeStep ==
  ASSUME RuntimeTypes, [Next]_vars
  PROVE  RuntimeTypes'
<1>1. OtherTypes /\ DialTypes
  BY DEF RuntimeTypes, OtherTypes, DialTypes
<1>2. ASSUME OtherTypes', DialTypes'
      PROVE  RuntimeTypes'
  BY <1>2 DEF RuntimeTypes, OtherTypes, DialTypes
<1>3. CASE UNCHANGED vars
  BY <1>3 DEF vars, RuntimeTypes, dialVars, signalVars, rtcVars, loopVars
<1>4. ASSUME NEW k \in Keys,
             \/ Setup(k) \/ \E opened \in BOOLEAN : AcceptorAttaches(k, opened)
             \/ DataChannelOpens(k) \/ DataChannelFails(k) \/ DataChannelCloses(k)
             \/ \E reason \in Reasons : ReceiveTerminal(k, reason)
             \/ ReceiveRtcSignal(k) \/ RtcSignalApplied(k) \/ LoopEnds(k)
      PROVE  RuntimeTypes'
  BY <1>1, <1>2, <1>4, HandlerTypes
<1> USE DEF RuntimeTypes, dialVars, signalVars, rtcVars, loopVars
<1>5. ASSUME NEW k \in Keys, NEW intent \in DialIntents,
             StartDial(k, intent) \/ StartPrepare(k, intent)
      PROVE  RuntimeTypes'
  BY <1>5 DEF StartDial, StartPrepare, CallerStates, Tasks
<1>6. ASSUME NEW k \in Keys,
             BootstrapOpenFails(k) \/ BootstrapOpens(k) \/ DropDial(k) \/ DialReturns(k)
      PROVE  RuntimeTypes'
  BY <1>6 DEF BootstrapOpenFails, BootstrapOpens, DropDial, DialReturns, CallerStates,
              Answers, Tasks, Loops, Setups
<1>7. ASSUME NEW k \in Keys, NEW result \in Answers, AnswerDial(k, result)
      PROVE  RuntimeTypes'
  BY <1>7 DEF AnswerDial, CallerStates, Tasks
<1>8. ASSUME NEW k \in Keys,
             StartWebRtcConnection(k) \/ WebRtcConnection(k) \/ RelayConnection(k)
      PROVE  RuntimeTypes'
  <2>1. \/ \E result \in Answers : AnswerDial(k, result)
        \/ /\ task' = [task EXCEPT ![k] = "WebRtcConnecting"]
           /\ UNCHANGED <<protocol, caller, answer, pending, prepares, lookup,
                           signalVars, rtcVars, loopVars>>
    BY <1>8 DEF StartWebRtcConnection, WebRtcConnection, WebRtcConnectionOpens,
       WebRtcConnectionFails, RelayConnection, RelayConnectionOpens, RelayConnectionFails, Answers
  <2> QED BY <1>7, <2>1 DEF Tasks
<1>9. ASSUME NEW k \in Keys, NEW admitted \in BOOLEAN, FacadeAccepts(k, admitted)
      PROVE  RuntimeTypes'
  BY <1>9 DEF FacadeAccepts
<1>10. ASSUME NEW k \in Keys, NEW intent \in AcceptIntents, NEW created \in BOOLEAN,
              ReceiveDialRequest(k, intent, created)
       PROVE  RuntimeTypes'
  BY <1>10 DEF ReceiveDialRequest, Loops, Peers
<1>11. ASSUME NEW c \in 1..Len(connections), CloseConnection(c)
       PROVE  RuntimeTypes'
  BY <1>11 DEF CloseConnection
<1>12. CASE CloseNode
  BY <1>12 DEF CloseNode, Reasons
<1>13. ASSUME NEW k \in Keys, ProtocolGateAccepts(k)
       PROVE  RuntimeTypes'
  BY <1>9, <1>13 DEF ProtocolGateAccepts
<1> QED BY <1>3, <1>4, <1>5, <1>6, <1>8, <1>9, <1>10, <1>11, <1>12, <1>13 DEF Next

-----------------------------------------------------------------------------
(* The invariant holds *)

LEMMA InvariantInit ==
  Init => IInv
<1> SUFFICES ASSUME Init PROVE IInv
  OBVIOUS
<1>1. NodeProofs!Init
  BY DEF Init, Node!Init, NodeProofs!Init, Node!NoSession, NodeProofs!NoSession
<1>2. NodeProofs!IInv
  BY <1>1, NodeProofs!InvariantInit, NodeAssumed
<1>3. TypeOK
  BY <1>2, NodeTypes, TypesSplit
  DEF Init, RuntimeTypes, CallerStates, Answers, Tasks, Setups, Peers, RtcChannels, Loops,
      DialActions
<1>4. Len(connections) = 0 /\ \A k \in Keys : sessions[k] = NoSession
  BY DEF Init, Node!Init, Node!NoSession, NoSession
<1>5. ASSUME NEW k \in Keys
      PROVE  KeyInv(k)
  <2>1. ~HasConnection(k) /\ sessions[k].role = "NoRole"
    BY <1>4 DEF HasConnection, NoSession
  <2> QED BY <2>1
          DEF Init, KeyInv, DialInv, RtcInv, UndecidedInv, ConnectionInv, PrepareInv
<1>6. OneConnectionPerSession
  BY <1>4 DEF OneConnectionPerSession
<1> QED BY <1>2, <1>3, <1>5, <1>6 DEF IInv

(* The steps that admit no connection. *)
Quiet(k) ==
  \/ Setup(k) \/ \E opened \in BOOLEAN : AcceptorAttaches(k, opened)
  \/ DataChannelOpens(k) \/ DataChannelFails(k) \/ DataChannelCloses(k)
  \/ \E reason \in Reasons : ReceiveTerminal(k, reason)
  \/ ReceiveRtcSignal(k) \/ RtcSignalApplied(k) \/ LoopEnds(k)
  \/ \E intent \in DialIntents : StartDial(k, intent) \/ StartPrepare(k, intent)
  \/ \E intent \in AcceptIntents, created \in BOOLEAN : ReceiveDialRequest(k, intent, created)
  \/ BootstrapOpenFails(k) \/ BootstrapOpens(k) \/ DropDial(k) \/ DialReturns(k)
  \/ StartWebRtcConnection(k) \/ WebRtcConnectionFails(k) \/ RelayConnectionFails(k)

LEMMA QuietAdmitsNothing ==
  ASSUME NEW k \in Keys, Quiet(k)
  PROVE  connections' = connections
<1>1. ASSUME \/ Node!AttachDataChannel(k) \/ Node!MarkDataChannelOpen(k)
             \/ Node!AttachOpenDataChannel(k)
             \/ Node!DecideWebRtcFailure(k) \/ Node!DecideWebRtcClosed(k)
             \/ \E reason : Node!ApplyRemoteTerminal(k, reason)
             \/ \E intent : Node!AllocateDial(k, intent) \/ Node!AllocateAcceptSession(k, intent)
      PROVE  connections' = connections
  BY <1>1 DEF Node!AttachDataChannel, Node!MarkDataChannelOpen, Node!AttachOpenDataChannel,
     Node!UpdateSession, Node!DecideWebRtcFailure, Node!DecideWebRtcClosed,
     Node!EmitTerminalDecision, Node!ApplyRemoteTerminal, Node!AllocateDial,
     Node!AllocateAcceptSession
<1>2. ASSUME \/ Setup(k) \/ \E opened \in BOOLEAN : AcceptorAttaches(k, opened)
             \/ DataChannelOpens(k) \/ DataChannelFails(k) \/ DataChannelCloses(k)
      PROVE  connections' = connections
  BY <1>1, <1>2 DEF Setup, SetupAttaches, SetupDone, SetupFails, DecideFailure,
     TerminalLifecycle, AcceptorAttaches, DataChannelOpens, OpenChannel, DataChannelFails,
     DataChannelCloses, nodeVars
<1>3. ASSUME \/ \E reason \in Reasons : ReceiveTerminal(k, reason)
             \/ ReceiveRtcSignal(k) \/ RtcSignalApplied(k) \/ LoopEnds(k)
             \/ \E intent \in DialIntents : StartDial(k, intent) \/ StartPrepare(k, intent)
             \/ \E intent \in AcceptIntents, created \in BOOLEAN :
                  ReceiveDialRequest(k, intent, created)
      PROVE  connections' = connections
  BY <1>1, <1>3 DEF ReceiveTerminal, ReceiveRtcSignal, RtcSignalApplied, LoopEnds, StartDial,
     StartPrepare, ReceiveDialRequest, nodeVars
<1>4. ASSUME \/ BootstrapOpenFails(k) \/ BootstrapOpens(k) \/ DropDial(k) \/ DialReturns(k)
             \/ StartWebRtcConnection(k) \/ WebRtcConnectionFails(k) \/ RelayConnectionFails(k)
      PROVE  connections' = connections
  BY <1>4 DEF BootstrapOpenFails, BootstrapOpens, DropDial, DialReturns,
     StartWebRtcConnection, WebRtcConnectionFails, RelayConnectionFails, nodeVars
<1> QED BY <1>2, <1>3, <1>4 DEF Quiet

(* A step is of one dial, or it closes a connection or the node and changes
   nothing of what was promised. *)
LEMMA KeysStep ==
  ASSUME IInv, Next
  PROVE  /\ \A j \in Keys : KeyInv(j)'
         /\ OneConnectionPerSession'
         /\ (\E k \in Keys : KeyStep(k)) \/ \A k \in Keys : SamePromised(k)
<1> DEFINE Kept == /\ \A j \in Keys : KeyInv(j)'
                   /\ OneConnectionPerSession'
                   /\ (\E k \in Keys : KeyStep(k)) \/ \A k \in Keys : SamePromised(k)
<1>1. TypeOK /\ Node!TypeOK /\ OneConnectionPerSession
  BY DEF IInv, TypeOK
<1>2. ASSUME NEW k \in Keys, KeyStep(k), connections' = connections
      PROVE  Kept
  BY <1>1, <1>2, KeyStepKeepsInv DEF OneConnectionPerSession
<1>3. ASSUME NEW k \in Keys, KeyStep(k), Admits(k), ~HasConnection(k)
      PROVE  Kept
  BY <1>1, <1>3, KeyStepKeepsInv, AdmissionKeepsOne
<1>4. ASSUME NEW k \in Keys, Quiet(k)
      PROVE  Kept
  <2>1. KeyStep(k)
    BY <1>4, SetupStep, AcceptorStep, ChannelStep, LoopStep, StartStep, RequestStep,
       FutureStep, FailedConnectionStep DEF Quiet
  <2> QED BY <1>2, <1>4, <2>1, QuietAdmitsNothing
<1>5. ASSUME NEW k \in Keys, WebRtcConnectionOpens(k) \/ RelayConnectionOpens(k)
      PROVE  Kept
  BY <1>3, <1>5, OpenedConnectionStep
<1>6. ASSUME NEW k \in Keys, NEW admitted \in BOOLEAN, FacadeAccepts(k, admitted)
      PROVE  Kept
  BY <1>2, <1>3, <1>6, AcceptedStep
<1>7. ASSUME NEW c \in 1..Len(connections), CloseConnection(c)
      PROVE  Kept
  BY <1>1, <1>7, CloseConnectionStep, SameOwnersKeepOne
<1>8. CASE CloseNode
  BY <1>1, <1>8, CloseNodeStep, SameOwnersKeepOne
<1>9. ASSUME NEW k \in Keys, ProtocolGateAccepts(k)
      PROVE  Kept
  BY <1>6, <1>9 DEF ProtocolGateAccepts
<1> QED BY <1>4, <1>5, <1>6, <1>7, <1>8, <1>9
        DEF Next, Quiet, WebRtcConnection, RelayConnection

LEMMA InvariantStep ==
  ASSUME IInv, [Next]_vars
  PROVE  IInv'
<1>1. NodeProofs!IInv'
  BY NodeInvariant DEF IInv
<1>2. TypeOK'
  <2>1. RuntimeTypes'
    BY TypesSplit, TypeStep DEF IInv
  <2>2. Node!TypeOK'
    BY <1>1, NodeTypes, PTL
  <2> QED BY <2>1, <2>2, TypesSplit, PTL
<1>3. (\A j \in Keys : KeyInv(j)') /\ OneConnectionPerSession'
  <2>1. CASE UNCHANGED vars
    <3>1. closed' = closed /\ \A j : HasConnection(j)' <=> HasConnection(j)
      BY <2>1 DEF vars, nodeVars, HasConnection
    <3>2. \A j \in Keys : Same(j)
      BY <2>1, <3>1 DEF vars, nodeVars, dialVars, signalVars, rtcVars, loopVars, Same
    <3>3. OneConnectionPerSession'
      BY <2>1 DEF IInv, vars, nodeVars, OneConnectionPerSession
    <3> QED BY <3>1, <3>2, <3>3, SameKeepsInv DEF IInv
  <2> QED BY <2>1, KeysStep
<1> QED BY <1>1, <1>2, <1>3 DEF IInv

LEMMA InvariantHolds ==
  Spec => []IInv
<1>1. Init => IInv
  BY InvariantInit
<1>2. IInv /\ [Next]_vars => IInv'
  BY InvariantStep
<1> QED BY <1>1, <1>2, PTL DEF Spec

-----------------------------------------------------------------------------
(* What the runtime guarantees *)

(* Every field of the runtime keeps its type, the node's included. *)
THEOREM RuntimeTypeCorrect ==
  Spec => []TypeOK
<1>1. IInv => TypeOK
  BY DEF IInv
<1> QED BY <1>1, InvariantHolds, PTL

(* A dial or a prepare that still waits in its map has nothing to act on yet,
   for any number of dials and whatever handlers, terminal signals and stale
   snapshots cross (complete_pending_dial_from_session). *)
THEOREM DecidedDialsNeverLinger ==
  Spec => []DecidedDialsLeaveTheMap
<1>1. IInv => DecidedDialsLeaveTheMap
  BY DEF IInv, TypeOK, KeyInv, UndecidedInv, DecidedDialsLeaveTheMap
<1> QED BY <1>1, InvariantHolds, PTL

(* A dial or an accepted session gives the application one connection at
   most: the task that opens it is gone when it is admitted, and an accepted
   session is resolved by it. *)
THEOREM SessionsConnectOnce ==
  Spec => []OneConnectionPerSession
<1>1. IInv => OneConnectionPerSession
  BY DEF IInv
<1> QED BY <1>1, InvariantHolds, PTL

(* Nothing is left in the maps for a dial nobody waits for. *)
THEOREM EntriesEndWithTheirDial ==
  Spec => []NoEntryOutlivesItsDial
<1>1. IInv => NoEntryOutlivesItsDial
  BY DEF IInv, KeyInv, DialInv, NoEntryOutlivesItsDial
<1> QED BY <1>1, InvariantHolds, PTL

(* A connect of a protocol that requires WebRTC is let through with a session
   only, whose channel had opened (before_connect). *)
THEOREM WebRtcOnlyConnectsHaveSessions ==
  Spec => []WebRtcOnlyConnectHasSession
<1>1. IInv => WebRtcOnlyConnectHasSession
  BY DEF IInv, TypeOK, KeyInv, PrepareInv, WebRtcOnlyConnectHasSession, HookAccepts,
         AllowsRelayFallback, OnceOpen
<1> QED BY <1>1, InvariantHolds, PTL

(* The guarantees of the node hold of the node inside the runtime: no
   WebRTC-only session is connected over the relay, usable sessions are
   announced, and a WebRTC connection was admitted over an open channel. *)
THEOREM NodeGuaranteesHold ==
  Spec => [](/\ Node!WebRtcOnlyNeverRelays
             /\ Node!UsableSessionsAdvertised
             /\ Node!WebRtcConnectionHadChannel)
<1>1. Init => NodeProofs!Init
  BY DEF Init, Node!Init, NodeProofs!Init, Node!NoSession, NodeProofs!NoSession
<1>2. [Next]_vars => [NodeProofs!Next]_NodeProofs!nodeVars
  BY RuntimeStepIsNodeStep, SameNode DEF nodeVars, NodeProofs!nodeVars
<1>3. Spec => NodeProofs!Spec
  BY <1>1, <1>2, PTL DEF Spec, NodeProofs!Spec
<1>4. /\ NodeProofs!Spec => []NodeProofs!WebRtcOnlyNeverRelays
      /\ NodeProofs!Spec => []NodeProofs!UsableSessionsAdvertised
      /\ NodeProofs!Spec => []NodeProofs!WebRtcConnectionHadChannel
  BY NodeAssumed, NodeProofs!WebRtcOnlyStaysOffTheRelay,
     NodeProofs!UsableSessionsStayAdvertised, NodeProofs!WebRtcConnectionsHadChannel
<1>5. /\ NodeProofs!WebRtcOnlyNeverRelays => Node!WebRtcOnlyNeverRelays
      /\ NodeProofs!UsableSessionsAdvertised => Node!UsableSessionsAdvertised
      /\ NodeProofs!WebRtcConnectionHadChannel => Node!WebRtcConnectionHadChannel
  BY DEF NodeProofs!WebRtcOnlyNeverRelays, Node!WebRtcOnlyNeverRelays,
         NodeProofs!UsableSessionsAdvertised, Node!UsableSessionsAdvertised,
         NodeProofs!WebRtcConnectionHadChannel, Node!WebRtcConnectionHadChannel,
         NodeProofs!Advertisable, Node!Advertisable, NodeProofs!UsesWebRtc, Node!UsesWebRtc,
         NodeProofs!Ended, Node!Ended
<1> QED BY <1>3, <1>4, <1>5, PTL

-----------------------------------------------------------------------------
(* The runtime keeps the promise *)

promised == [k \in Keys |-> DialState(k)]
connectedKeys == {k \in Keys : IsConnected(k)}

(* The promise, of the values the runtime gives its variables. *)
LEMMA PromiseMeaning ==
  /\ UNCHANGED <<promised, connectedKeys>> => UNCHANGED Promise!promiseVars
  /\ Promise!Init <=> promised = [k \in Keys |-> "Idle"] /\ connectedKeys = {}
  /\ \A k \in Keys :
       /\ Promise!Start(k) <=>
            /\ promised[k] = "Idle" /\ promised' = [promised EXCEPT ![k] = "Waiting"]
            /\ connectedKeys' = connectedKeys
       /\ Promise!Connect(k) <=>
            /\ promised[k] = "Waiting" /\ promised' = [promised EXCEPT ![k] = "Connected"]
            /\ connectedKeys' = connectedKeys \cup {k}
       /\ Promise!Drop(k) <=>
            /\ promised[k] = "Waiting" /\ promised' = [promised EXCEPT ![k] = "Dropped"]
            /\ connectedKeys' = connectedKeys
       /\ Promise!ConnectDropped(k) <=>
            /\ promised[k] = "Dropped" /\ k \notin connectedKeys
            /\ connectedKeys' = connectedKeys \cup {k} /\ promised' = promised
       /\ \A error \in Promise!Errors : Promise!Reject(k, error) <=>
            /\ promised[k] = "Waiting" /\ promised' = [promised EXCEPT ![k] = error]
            /\ connectedKeys' = connectedKeys
BY DEF Promise!promiseVars, Promise!Init, Promise!Start, Promise!Connect, Promise!Drop,
       Promise!ConnectDropped, Promise!Reject, promised, connectedKeys, DialState, IsConnected,
       HasConnection

LEMMA PromiseStep ==
  ASSUME IInv, [Next]_vars
  PROVE  [Promise!Next]_Promise!promiseVars
<1>1. CASE UNCHANGED vars
  <2>1. promised' = promised /\ connectedKeys' = connectedKeys
    BY <1>1 DEF vars, nodeVars, dialVars, promised, connectedKeys, DialState, IsConnected,
                HasConnection
  <2> QED BY <2>1, PromiseMeaning
<1>2. ASSUME \A k \in Keys : SamePromised(k)
      PROVE  promised' = promised /\ connectedKeys' = connectedKeys
  BY <1>2 DEF promised, connectedKeys, SamePromised, SameConnected
<1>3. ASSUME NEW k \in Keys, KeyStep(k)
      PROVE  [Promise!Next]_Promise!promiseVars
  <2>1. \A j \in Keys \ {k} : SamePromised(j)
    BY <1>3, SamePromise DEF KeyStep
  <2>2. /\ promised' = [promised EXCEPT ![k] = DialState(k)']
        /\ SameConnected(k) => connectedKeys' = connectedKeys
        /\ IsConnected(k)' => connectedKeys' = connectedKeys \cup {k}
        /\ promised[k] = DialState(k)
        /\ k \in connectedKeys <=> IsConnected(k)
    BY <2>1 DEF promised, connectedKeys, SamePromised, SameConnected
  <2>3. CASE SamePromised(k)
    BY <1>2, <2>1, <2>3, PromiseMeaning
  <2>4. CASE DialState(k) = "Idle" /\ DialState(k)' = "Waiting" /\ SameConnected(k)
    BY <2>2, <2>4, PromiseMeaning DEF Promise!Next
  <2>5. CASE DialState(k) = "Waiting" /\ DialState(k)' = "Dropped" /\ SameConnected(k)
    BY <2>2, <2>5, PromiseMeaning DEF Promise!Next
  <2>6. CASE DialState(k) = "Waiting" /\ DialState(k)' \in Promise!Errors /\ SameConnected(k)
    BY <2>2, <2>6, PromiseMeaning DEF Promise!Next
  <2>7. CASE DialState(k) = "Waiting" /\ DialState(k)' = "Connected" /\ IsConnected(k)'
    BY <2>2, <2>7, PromiseMeaning DEF Promise!Next
  <2>8. CASE /\ DialState(k) = "Dropped" /\ DialState(k)' = "Dropped"
             /\ ~IsConnected(k) /\ IsConnected(k)'
    <3>1. promised' = promised
      BY <2>2, <2>8 DEF promised
    <3> QED BY <2>2, <2>8, <3>1, PromiseMeaning DEF Promise!Next
  <2> QED BY <1>3, <2>3, <2>4, <2>5, <2>6, <2>7, <2>8 DEF KeyStep, KeepsPromise
<1> QED BY <1>1, <1>2, <1>3, KeysStep, PromiseMeaning

(* The runtime implements the promise, for any number of dials: a dial is
   answered once, "connected" in the step that admits its one connection, and
   a dial answered with an error leaves no connection behind (dial.rs). *)
THEOREM DialPromiseIsKept ==
  Spec => KeepsDialPromise
<1>1. Init => Promise!Init
  <2> SUFFICES ASSUME Init PROVE Promise!Init
    OBVIOUS
  <2>1. \A k \in Keys : DialState(k) = "Idle" /\ ~IsConnected(k)
    BY DEF Init, Node!Init, DialState, IsConnected, HasConnection
  <2> QED BY <2>1, PromiseMeaning DEF promised, connectedKeys
<1>2. IInv /\ [Next]_vars => [Promise!Next]_Promise!promiseVars
  BY PromiseStep
<1> QED BY <1>1, <1>2, InvariantHolds, PTL DEF Spec, KeepsDialPromise, Promise!Spec

-----------------------------------------------------------------------------
(* The peer hears the first decision *)

(* The sessions a data channel exists or is being set up for. *)
OnWebRtc(k) ==
  \/ caller[k] = "Opening" \/ setup[k] \in {"Spawned", "Signalling"}
  \/ channel[k] # "None" \/ sessions[k].channel = "AwaitingTransfer"

TellInv(k) ==
  /\ told[k] # "None" => sessions[k].sent # "None"
  /\ OnWebRtc(k) => UsesWebRtc(sessions[k].intent)

TellsFirst(k) ==
  (/\ sessions[k].sent = "None" /\ sessions'[k].sent # "None"
   /\ k \in senders /\ ~closed')
    => told'[k] = sessions'[k].sent

Tells(k) == TellInv(k)' /\ TellsFirst(k)

(* A change of a session that is no decision of this side. *)
Undecided(s, t) ==
  /\ t.intent = s.intent /\ t.sent = s.sent
  /\ t.channel = "AwaitingTransfer" => s.channel = "AwaitingTransfer"

(* What a step that decides nothing for k respects. *)
Steady(k) ==
  /\ told'[k] = told[k] /\ Undecided(sessions[k], sessions'[k])
  /\ OnWebRtc(k)' => OnWebRtc(k)

LEMMA SteadyTells ==
  ASSUME NEW k, TellInv(k), Steady(k)
  PROVE  Tells(k)
BY DEF Tells, TellsFirst, TellInv, Steady, Undecided

LEMMA OtherKeysTell ==
  ASSUME NEW k \in Keys, KeyStep(k), NEW j \in Keys \ {k}, TellInv(j), told'[j] = told[j]
  PROVE  Tells(j)
<1>1. Steady(j)
  BY DEF KeyStep, Same, Steady, Undecided, OnWebRtc
<1> QED BY <1>1, SteadyTells

LEMMA OperationsUndecided ==
  ASSUME NEW s \in Session, NEW transport, NEW reason \in Reasons
  PROVE  /\ Undecided(s, AttachTransferredChannel(s))
         /\ Undecided(s, MarkTransferredChannelOpen(s))
         /\ Undecided(s, MarkTransferredChannelOpen(AttachTransferredChannel(s)))
         /\ Undecided(s, RecordTerminalReceived(s, reason))
         /\ Undecided(s, ResolveTransport(s, transport))
         /\ Undecided(s, CloseSession(s))
<1> USE DEF Session, Undecided
<1>1. ASSUME NEW t \in Session, t.intent = s.intent, t.channel = s.channel
      PROVE  /\ ApplyTerminalReason(t, reason).intent = s.intent
             /\ ApplyTerminalReason(t, reason).sent = t.sent
             /\ ApplyTerminalReason(t, reason).channel = "AwaitingTransfer"
                  => s.channel = "AwaitingTransfer"
  BY <1>1 DEF ApplyTerminalReason, CloseSession, Fail, EndAs, SelectRelay
<1>2. Undecided(s, RecordTerminalReceived(s, reason))
  <2>1. [s EXCEPT !.received = reason] \in Session
    OBVIOUS
  <2> QED BY <1>1, <2>1 DEF RecordTerminalReceived
<1>3. /\ Undecided(s, AttachTransferredChannel(s))
      /\ Undecided(s, MarkTransferredChannelOpen(s))
      /\ Undecided(s, MarkTransferredChannelOpen(AttachTransferredChannel(s)))
  BY DEF AttachTransferredChannel, MarkTransferredChannelOpen
<1>4. Undecided(s, ResolveTransport(s, transport))
  BY DEF ResolveTransport
<1>5. Undecided(s, CloseSession(s))
  BY DEF CloseSession, EndAs
<1> QED BY <1>2, <1>3, <1>4, <1>5

LEMMA OperationsDecide ==
  ASSUME NEW s \in Session, NEW reason \in Reasons
  PROVE  /\ RecordTerminalSent(s, reason).sent = reason
         /\ RecordTerminalSent(s, reason).intent = s.intent
         /\ RecordTerminalSent(s, reason).channel = "AwaitingTransfer"
              => s.channel = "AwaitingTransfer"
         /\ CloseForNode(s).sent = IF SignalsNodeClose(s) THEN "Closed" ELSE s.sent
         /\ CloseForNode(s).intent = s.intent
         /\ CloseForNode(s).channel # "AwaitingTransfer"
<1>1. [s EXCEPT !.sent = reason] \in Session
  BY DEF Session
<1>2. ASSUME NEW t \in Session, t.intent = s.intent, t.channel = s.channel
      PROVE  /\ ApplyTerminalReason(t, reason).intent = s.intent
             /\ ApplyTerminalReason(t, reason).sent = t.sent
             /\ ApplyTerminalReason(t, reason).channel = "AwaitingTransfer"
                  => s.channel = "AwaitingTransfer"
  BY <1>2 DEF ApplyTerminalReason, CloseSession, Fail, EndAs, SelectRelay, Session
<1>3. /\ CloseForNode(s).sent = IF SignalsNodeClose(s) THEN "Closed" ELSE s.sent
      /\ CloseForNode(s).intent = s.intent
      /\ CloseForNode(s).channel # "AwaitingTransfer"
  BY DEF CloseForNode, CloseSession, EndAs, Session
<1>4. /\ [s EXCEPT !.sent = reason].sent = reason
      /\ [s EXCEPT !.sent = reason].intent = s.intent
      /\ [s EXCEPT !.sent = reason].channel = s.channel
  BY DEF Session
<1> QED BY <1>1, <1>2, <1>3, <1>4 DEF RecordTerminalSent

(* The methods of the node that decide nothing. *)
LEMMA MethodsUndecided ==
  ASSUME Node!TypeOK, NEW k \in Keys,
         \/ Node!AttachDataChannel(k) \/ Node!MarkDataChannelOpen(k)
         \/ Node!AttachOpenDataChannel(k)
         \/ \E reason \in Reasons : Node!ApplyRemoteTerminal(k, reason)
         \/ \E transport \in Transports : Node!CompleteDialAndAdmit(k, transport)
         \/ \E admitted \in BOOLEAN : Node!AcceptWebRtcConnection(k, admitted)
  PROVE  Undecided(sessions[k], sessions'[k])
<1> DEFINE s == sessions[k]
<1>1. /\ sessions \in [Keys -> Session \cup {NoSession}]
      /\ Node!NoSession = NoSession
  BY SessionsTyped DEF Node!NoSession, NoSession
<1>2. s \in Session
  BY <1>1 DEF NoSession, Node!AttachDataChannel, Node!MarkDataChannelOpen,
     Node!AttachOpenDataChannel, Node!UpdateSession, Node!Allocated, Node!ApplyRemoteTerminal,
     Node!CompleteDialAndAdmit, Node!AcceptWebRtcConnection, Node!MatchesIncoming
<1>3. ASSUME NEW t, sessions' = [sessions EXCEPT ![k] = t], Undecided(s, t)
      PROVE  Undecided(sessions[k], sessions'[k])
  BY <1>1, <1>3
<1> USE <1>1, <1>2, <1>3, SameOperations, OperationsUndecided
    DEF Node!UpdateSession, Node!SetSession
<1>4. "Closed" \in Reasons /\ "WebRtc" \in Transports
  BY DEF Reasons, Transports
<1>5. CASE Node!AttachDataChannel(k) \/ Node!MarkDataChannelOpen(k)
  BY <1>4, <1>5 DEF Node!AttachDataChannel, Node!MarkDataChannelOpen
<1>6. CASE Node!AttachOpenDataChannel(k)
  BY <1>4, <1>6 DEF Node!AttachOpenDataChannel
<1>7. ASSUME NEW reason \in Reasons, Node!ApplyRemoteTerminal(k, reason)
      PROVE  Undecided(sessions[k], sessions'[k])
  BY <1>7 DEF Node!ApplyRemoteTerminal
<1>8. ASSUME NEW transport \in Transports, Node!CompleteDialAndAdmit(k, transport)
      PROVE  Undecided(sessions[k], sessions'[k])
  BY <1>4, <1>8 DEF Node!CompleteDialAndAdmit
<1>9. ASSUME NEW admitted \in BOOLEAN, Node!AcceptWebRtcConnection(k, admitted)
      PROVE  Undecided(sessions[k], sessions'[k])
  BY <1>4, <1>9 DEF Node!AcceptWebRtcConnection
<1> QED BY <1>5, <1>6, <1>7, <1>8, <1>9

(* A dial or a request stores a new session. *)
LEMMA NewSessionTells ==
  ASSUME IInv, NEW k \in Keys, TellInv(k),
         \/ \E intent \in DialIntents : StartDial(k, intent) \/ StartPrepare(k, intent)
         \/ \E intent \in AcceptIntents, created \in BOOLEAN :
              ReceiveDialRequest(k, intent, created)
  PROVE  Tells(k) /\ told' = told
<1>1. KeyInv(k) /\ TypeOK /\ Node!TypeOK
  BY DEF IInv, TypeOK
<1>2. PICK intent \in Intents, role \in Roles :
        /\ Allocates(k, role, intent) /\ told' = told
        /\ caller'[k] = "Opening" => caller[k] = "Opening" \/ UsesWebRtc(intent)
        /\ UNCHANGED <<setup, channel>>
  <2>1. ASSUME NEW intent \in DialIntents, StartDial(k, intent) \/ StartPrepare(k, intent)
        PROVE  /\ intent \in Intents /\ Allocates(k, "Dialer", intent) /\ told' = told
               /\ caller'[k] = "Opening" => caller[k] = "Opening" \/ UsesWebRtc(intent)
               /\ UNCHANGED <<setup, channel>>
    <3>1. intent \in Intents
      BY RuntimeAssumption DEF RuntimeAssumption
    <3> QED BY <1>1, <2>1, <3>1, AllocationMethods
            DEF StartDial, StartPrepare, TypeOK, signalVars, rtcVars
  <2>2. ASSUME NEW intent \in AcceptIntents, NEW created \in BOOLEAN,
               ReceiveDialRequest(k, intent, created)
        PROVE  /\ intent \in Intents /\ Allocates(k, "Acceptor", intent) /\ told' = told
               /\ caller' = caller /\ UNCHANGED <<setup, channel>>
    <3>1. intent \in Intents
      BY RuntimeAssumption DEF RuntimeAssumption
    <3> QED BY <1>1, <2>2, <3>1, AllocationMethods DEF ReceiveDialRequest, dialVars
  <2> QED BY <2>1, <2>2 DEF Roles
<1>3. /\ sessions[k] = NoSession /\ sessions'[k].sent = "None"
      /\ sessions'[k].intent = intent
      /\ sessions'[k].channel = "AwaitingTransfer" => UsesWebRtc(intent)
  BY <1>2 DEF Allocates, NewSession
<1>4. setup[k] = "None" /\ channel[k] = "None" /\ caller[k] = "Idle"
  BY <1>1, <1>3 DEF NoSession, KeyInv, DialInv, RtcInv
<1>5. told[k] = "None"
  BY <1>3 DEF TellInv, NoSession
<1> QED BY <1>2, <1>3, <1>4, <1>5 DEF Tells, TellsFirst, TellInv, OnWebRtc

(* The completion of a dial opens none. *)
LEMMA CompletionOpensNothing ==
  ASSUME IInv, NEW k \in Keys, NEW action \in DialActions, CompletePending(k, action)
  PROVE  caller'[k] = "Opening" => caller[k] = "Opening"
<1>1. SameDial(k) \/ Taken(k, action)
  BY Completion DEF IInv, KeyInv
<1> QED BY <1>1 DEF SameDial, Taken

(* The steps that leave the sessions alone. *)
LEMMA SessionlessTells ==
  ASSUME IInv, NEW k \in Keys, TellInv(k),
         \/ BootstrapOpenFails(k) \/ BootstrapOpens(k) \/ DropDial(k) \/ DialReturns(k)
         \/ StartWebRtcConnection(k) \/ WebRtcConnectionFails(k) \/ RelayConnectionFails(k)
         \/ SetupDone(k) \/ ReceiveRtcSignal(k) \/ RtcSignalApplied(k) \/ LoopEnds(k)
  PROVE  Tells(k) /\ told' = told
<1>1. TypeOK
  BY DEF IInv
<1>2. SUFFICES UNCHANGED <<sessions, told>> /\ (OnWebRtc(k)' => OnWebRtc(k))
  BY SteadyTells DEF Steady, Undecided
<1> USE DEF TypeOK, OnWebRtc, nodeVars, signalVars, rtcVars, loopVars, dialVars
<1>3. CASE BootstrapOpenFails(k) \/ BootstrapOpens(k) \/ DropDial(k) \/ DialReturns(k)
  BY <1>1, <1>3 DEF BootstrapOpenFails, BootstrapOpens, DropDial, DialReturns
<1>4. CASE StartWebRtcConnection(k) \/ WebRtcConnectionFails(k) \/ RelayConnectionFails(k)
  BY <1>1, <1>4 DEF StartWebRtcConnection, WebRtcConnectionFails, RelayConnectionFails,
     AnswerDial
<1>5. CASE SetupDone(k) \/ ReceiveRtcSignal(k) \/ LoopEnds(k)
  BY <1>1, <1>5 DEF SetupDone, ReceiveRtcSignal, LoopEnds
<1>6. CASE RtcSignalApplied(k)
  <2>1. caller'[k] = "Opening" => caller[k] = "Opening"
    BY <1>1, <1>6, CompletionOpensNothing DEF RtcSignalApplied
  <2>2. UNCHANGED <<sessions, told, channel>>
    BY <1>6 DEF RtcSignalApplied
  <2>3. setup'[k] \in {setup[k], "Attaching"}
    BY <1>1, <1>6 DEF RtcSignalApplied
  <2> QED BY <2>1, <2>2, <2>3
<1> QED BY <1>3, <1>4, <1>5, <1>6

(* The steps that change a session without a decision of this side. *)
LEMMA UndecidedTells ==
  ASSUME IInv, NEW k \in Keys, TellInv(k),
         \/ SetupAttaches(k) \/ \E opened \in BOOLEAN : AcceptorAttaches(k, opened)
         \/ DataChannelOpens(k)
         \/ \E reason \in Reasons : ReceiveTerminal(k, reason)
         \/ WebRtcConnectionOpens(k) \/ RelayConnectionOpens(k)
         \/ \E admitted \in BOOLEAN : FacadeAccepts(k, admitted)
  PROVE  Tells(k) /\ told' = told
<1>1. TypeOK /\ Node!TypeOK
  BY DEF IInv, TypeOK
<1>2. SUFFICES /\ told' = told /\ Undecided(sessions[k], sessions'[k])
               /\ OnWebRtc(k)' => OnWebRtc(k)
  BY SteadyTells DEF Steady
<1>3. Undecided(sessions[k], sessions[k])
  BY DEF Undecided
<1> USE DEF TypeOK, OnWebRtc, nodeVars, signalVars, rtcVars, loopVars, dialVars
<1>4. CASE SetupAttaches(k)
  BY <1>1, <1>4, MethodsUndecided DEF SetupAttaches, Undecided
<1>5. ASSUME NEW opened \in BOOLEAN, AcceptorAttaches(k, opened)
      PROVE  /\ told' = told /\ Undecided(sessions[k], sessions'[k])
             /\ OnWebRtc(k)' => OnWebRtc(k)
  BY <1>1, <1>3, <1>5, MethodsUndecided
  DEF AcceptorAttaches, Undecided, CanAttachTransferredChannel
<1>6. CASE DataChannelOpens(k)
  <2>1. Undecided(sessions[k], sessions'[k]) /\ told' = told /\ setup' = setup
    BY <1>1, <1>3, <1>6, MethodsUndecided DEF DataChannelOpens, OpenChannel
  <2>2. caller'[k] = "Opening" => caller[k] = "Opening"
    BY <1>6, ActionFacts, CompletionOpensNothing DEF DataChannelOpens, OpenChannel
  <2> QED BY <1>1, <1>6, <2>1, <2>2 DEF DataChannelOpens, Undecided
<1>7. ASSUME NEW reason \in Reasons, ReceiveTerminal(k, reason)
      PROVE  /\ told' = told /\ Undecided(sessions[k], sessions'[k])
             /\ OnWebRtc(k)' => OnWebRtc(k)
  <2>1. Undecided(sessions[k], sessions'[k])
    BY <1>1, <1>7, MethodsUndecided DEF ReceiveTerminal
  <2>2. caller'[k] = "Opening" => caller[k] = "Opening"
    BY <1>7, ActionFacts, CompletionOpensNothing DEF ReceiveTerminal
  <2> QED BY <1>1, <1>7, <2>1, <2>2 DEF ReceiveTerminal, Undecided
<1>8. CASE WebRtcConnectionOpens(k) \/ RelayConnectionOpens(k)
  <2>1. "WebRtc" \in Transports /\ "IrohRelay" \in Transports
    BY DEF Transports
  <2>2. Undecided(sessions[k], sessions'[k])
    BY <1>1, <1>8, <2>1, MethodsUndecided DEF WebRtcConnectionOpens, RelayConnectionOpens
  <2> QED BY <1>1, <1>8, <2>2
          DEF WebRtcConnectionOpens, RelayConnectionOpens, AnswerDial, Undecided
<1>9. ASSUME NEW admitted \in BOOLEAN, FacadeAccepts(k, admitted)
      PROVE  /\ told' = told /\ Undecided(sessions[k], sessions'[k])
             /\ OnWebRtc(k)' => OnWebRtc(k)
  BY <1>1, <1>9, MethodsUndecided DEF FacadeAccepts, Undecided
<1> QED BY <1>4, <1>5, <1>6, <1>7, <1>8, <1>9

(* A decision of this side is handed to the writer in the same step. *)
LEMMA DecisionTells ==
  ASSUME IInv, NEW k \in Keys, TellInv(k), NEW reason \in Reasons,
         Node!EmitTerminalDecision(k, reason), SendTerminal(k, reason),
         channel[k] # "None" \/ setup[k] \in {"Spawned", "Signalling"}
  PROVE  /\ Tells(k)
         /\ \A j \in Keys \ {k} : told'[j] = told[j]
<1>1. TypeOK /\ Node!TypeOK /\ sessions \in [Keys -> Session \cup {NoSession}]
  BY SessionsTyped DEF IInv, TypeOK
<1>2. sessions[k] \in Session
  BY <1>1 DEF Node!EmitTerminalDecision, Node!Allocated, Node!NoSession, NoSession
<1>3. /\ sessions' = [sessions EXCEPT ![k] = RecordTerminalSent(sessions[k], reason)]
      /\ UsesWebRtc(sessions[k].intent)
  BY SameOperations DEF Node!EmitTerminalDecision, Node!SetSession, TellInv, OnWebRtc
<1>4. sessions'[k].sent = reason /\ sessions'[k].intent = sessions[k].intent
  BY <1>1, <1>2, <1>3, OperationsDecide
<1>5. told' = IF k \in senders /\ told[k] = "None" THEN [told EXCEPT ![k] = reason] ELSE told
  BY <1>3 DEF SendTerminal
<1>6. TellInv(k)'
  BY <1>3, <1>4 DEF TellInv, Reasons
<1>7. TellsFirst(k)
  BY <1>1, <1>4, <1>5 DEF TellsFirst, TellInv, TypeOK
<1> QED BY <1>1, <1>5, <1>6, <1>7 DEF Tells, TypeOK

LEMMA DecidingTells ==
  ASSUME IInv, NEW k \in Keys, TellInv(k),
         SetupFails(k) \/ DataChannelFails(k) \/ DataChannelCloses(k)
  PROVE  Tells(k) /\ \A j \in Keys \ {k} : told'[j] = told[j]
<1>1. FailureReason(sessions[k]) \in Reasons /\ "Closed" \in Reasons
  BY DEF FailureReason, Reasons
<1>2. ASSUME DecideFailure(k), channel[k] # "None" \/ setup[k] \in {"Spawned", "Signalling"}
      PROVE  Tells(k) /\ \A j \in Keys \ {k} : told'[j] = told[j]
  BY <1>1, <1>2, DecisionTells, SameOperations
  DEF DecideFailure, TerminalLifecycle, Node!DecideWebRtcFailure
<1>3. CASE SetupFails(k)
  <2>1. CASE closed
    <3>1. told' = told /\ sessions' = sessions /\ caller' = caller
      BY <1>3, <2>1 DEF SetupFails, nodeVars, dialVars, signalVars
    <3>2. setup'[k] = "Done" /\ channel'[k] # "None" => channel[k] # "None"
      BY <1>3, <2>1 DEF SetupFails, ClosePeer, IInv, TypeOK
    <3>3. setup'[k] = "Done"
      BY <1>3 DEF SetupFails, IInv, TypeOK
    <3>4. Steady(k)
      BY <3>1, <3>2, <3>3 DEF Steady, Undecided, OnWebRtc
    <3> QED BY <3>1, <3>4, SteadyTells
  <2> QED BY <1>2, <1>3, <2>1 DEF SetupFails
<1>4. CASE DataChannelFails(k)
  BY <1>2, <1>4 DEF DataChannelFails
<1>5. CASE DataChannelCloses(k)
  BY <1>1, <1>5, DecisionTells DEF DataChannelCloses, Node!DecideWebRtcClosed
<1> QED BY <1>3, <1>4, <1>5

(* The close of a connection is no decision, and the node closed is silent. *)
LEMMA ClosingTells ==
  ASSUME IInv, NEW j \in Keys, TellInv(j),
         CloseNode \/ \E c \in 1..Len(connections) : CloseConnection(c)
  PROVE  Tells(j)
<1>1. TypeOK /\ Node!TypeOK /\ sessions \in [Keys -> Session \cup {NoSession}]
  BY SessionsTyped DEF IInv, TypeOK
<1>2. "Closed" \in Reasons
  BY DEF Reasons
<1>3. ASSUME NEW c \in 1..Len(connections), CloseConnection(c)
      PROVE  Tells(j)
  <2> DEFINE owner == connections[c].session
  <2>1. \/ sessions'[j] = sessions[j]
        \/ j = owner /\ sessions'[j] = CloseSession(sessions[j])
    BY <1>1, <1>3, SameOperations DEF CloseConnection, Node!CloseConnection, Node!SetSession
  <2>2. j = owner => sessions[j] \in Session
    <3>1. KeyInv(j) /\ (j = owner => HasConnection(j))
      BY DEF HasConnection, IInv
    <3> QED BY <1>1, <3>1 DEF KeyInv, ConnectionInv, NoSession
  <2>3. Undecided(sessions[j], sessions'[j])
    BY <1>2, <2>1, <2>2, OperationsUndecided DEF Undecided
  <2>4. Steady(j)
    BY <1>3, <2>3
    DEF CloseConnection, Steady, Undecided, OnWebRtc, dialVars, signalVars, rtcVars
  <2> QED BY <2>4, SteadyTells
<1>4. CASE CloseNode
  <2>1. sessions'[j] = IF sessions[j] # NoSession THEN CloseForNode(sessions[j]) ELSE NoSession
    BY <1>4, SameOperations
    DEF CloseNode, Node!CloseNode, Node!Allocated, Node!NoSession, NoSession
  <2>2. closed' /\ UNCHANGED <<caller, setup, channel>>
    BY <1>4 DEF CloseNode, Node!CloseNode, dialVars, rtcVars
  <2>3. \/ told'[j] = told[j]
        \/ sessions[j] # NoSession /\ SignalsNodeClose(sessions[j])
    BY <1>4 DEF CloseNode, Node!Allocated, Node!NoSession, NoSession
  <2>4. sessions[j] # NoSession => sessions[j] \in Session
    BY <1>1
  <2>5. /\ sessions'[j].intent = sessions[j].intent
        /\ sessions[j].sent # "None" => sessions'[j].sent # "None"
        /\ sessions[j] # NoSession /\ SignalsNodeClose(sessions[j])
             => sessions'[j].sent # "None"
        /\ sessions'[j].channel # "AwaitingTransfer"
    BY <1>2, <2>1, <2>4, OperationsDecide DEF NoSession
  <2> QED BY <2>2, <2>3, <2>5 DEF Tells, TellsFirst, TellInv, OnWebRtc
<1> QED BY <1>3, <1>4

LEMMA TellStep ==
  ASSUME IInv, \A j \in Keys : TellInv(j), [Next]_vars
  PROVE  \A j \in Keys : Tells(j)
<1> DEFINE AllTell == \A j \in Keys : Tells(j)
<1>1. ASSUME NEW k \in Keys, KeyStep(k), Tells(k), \A j \in Keys \ {k} : told'[j] = told[j]
      PROVE  AllTell
  BY <1>1, OtherKeysTell
<1>2. CASE UNCHANGED vars
  <2>1. ASSUME NEW j \in Keys
        PROVE  Steady(j)
    BY <1>2 DEF vars, nodeVars, dialVars, signalVars, rtcVars, Steady, Undecided, OnWebRtc
  <2> QED BY <2>1, SteadyTells
<1>3. ASSUME NEW k \in Keys, Quiet(k)
      PROVE  AllTell
  <2>1. KeyStep(k)
    BY <1>3, SetupStep, AcceptorStep, ChannelStep, LoopStep, StartStep, RequestStep,
       FutureStep, FailedConnectionStep DEF Quiet
  <2>2. Tells(k) /\ \A j \in Keys \ {k} : told'[j] = told[j]
    BY <1>3, NewSessionTells, SessionlessTells, UndecidedTells, DecidingTells
    DEF Quiet, Setup
  <2> QED BY <1>1, <2>1, <2>2
<1>4. ASSUME NEW k \in Keys, WebRtcConnectionOpens(k) \/ RelayConnectionOpens(k)
      PROVE  AllTell
  BY <1>1, <1>4, OpenedConnectionStep, UndecidedTells
<1>5. ASSUME NEW k \in Keys, NEW admitted \in BOOLEAN, FacadeAccepts(k, admitted)
      PROVE  AllTell
  BY <1>1, <1>5, AcceptedStep, UndecidedTells
<1>6. CASE CloseNode \/ \E c \in 1..Len(connections) : CloseConnection(c)
  BY <1>6, ClosingTells
<1>7. ASSUME NEW k \in Keys, ProtocolGateAccepts(k)
      PROVE  AllTell
  BY <1>5, <1>7 DEF ProtocolGateAccepts
<1> QED BY <1>2, <1>3, <1>4, <1>5, <1>6, <1>7
        DEF Next, Quiet, WebRtcConnection, RelayConnection

(* The first terminal decision of a session whose writer is registered is the one
   its peer is told, for any number of dials: a decision is handed over in the step
   that makes it, and nothing was handed over before (rtc.rs, data_channel.rs). *)
THEOREM FirstDecisionsReachPeers ==
  Spec => FirstDecisionReachesPeer
<1> DEFINE AllTellInv == \A k \in Keys : TellInv(k)
<1>1. Init => AllTellInv
  BY DEF Init, Node!Init, Node!NoSession, TellInv, OnWebRtc
<1>2. IInv /\ AllTellInv /\ [Next]_vars =>
        /\ AllTellInv'
        /\ \A k \in Keys : TellsFirst(k)
  BY TellStep DEF Tells
<1>3. (\A k \in Keys : TellsFirst(k)) =>
        \A k \in Keys :
          (/\ sessions[k].sent = "None" /\ sessions'[k].sent # "None"
           /\ k \in senders /\ ~closed')
            => told'[k] = sessions'[k].sent
  BY DEF TellsFirst
<1> QED BY <1>1, <1>2, <1>3, InvariantHolds, PTL DEF Spec, FirstDecisionReachesPeer
=============================================================================
