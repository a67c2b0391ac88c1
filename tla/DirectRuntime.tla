----------------------------- MODULE DirectRuntime -----------------------------
(***************************************************************************)
(* The browser runtime around the node (browser_runtime/direct): the dial  *)
(* futures of the application, the preparations of the protocol transport  *)
(* (a session for a custom protocol, without an application connection),   *)
(* the maps in which both wait, the RTC setup task, the loop that receives *)
(* bootstrap signals, the handlers of the data channel, and the tasks that *)
(* open the application connection once a dial was decided.  The node is   *)
(* BrowserNode; every step that touches it is one of its actions.          *)
(*                                                                         *)
(* All of it runs on the one thread of the page, so a step reaches from    *)
(* one await to the next.  The peer, the browser's WebRTC stack and the    *)
(* Iroh endpoints are the environment: they answer, fail or stay silent.   *)
(***************************************************************************)
EXTENDS SessionState, Naturals, Sequences

CONSTANTS Keys, DialIntents, MaxConnections,
          AcceptIntents   \* the intents of the dial requests peers send

ASSUME RuntimeAssumption ==
  /\ "None" \notin Keys
  /\ DialIntents \subseteq Intents /\ AcceptIntents \subseteq Intents
  /\ MaxConnections \in Nat

VARIABLES sessions, connections, advertised, closed

nodeVars == <<sessions, connections, advertised, closed>>

Node == INSTANCE BrowserNode

VARIABLES
  caller,     \* key -> state of the application's dial future, or of the prepare
  answer,     \* key -> what it was or will be answered with
  protocol,   \* keys allocated by a prepare
  pending,    \* keys with an entry in pending_dials
  prepares,   \* keys with an entry in pending_protocol_transport_prepares
  lookup,     \* keys whose session address protocol_transport_lookup holds
  task,       \* key -> the task opening the application connection
  senders,    \* keys with an entry in signal_senders
  told,       \* key -> the terminal reason handed to the signal writer
  setup,      \* key -> progress of the RTC setup (dialer) or attach (acceptor) task
  peer,       \* key -> the RTCPeerConnection
  channel,    \* key -> the RTCDataChannel whose handlers are installed
  loop,       \* key -> the bootstrap receiver loop
  held        \* key -> dial action of the snapshot the loop holds across an await

dialVars == <<caller, answer, pending, prepares, lookup, task>>
signalVars == <<senders, told>>
rtcVars  == <<setup, peer, channel>>
loopVars == <<loop, held>>
vars == <<nodeVars, protocol, dialVars, signalVars, rtcVars, loopVars>>

CallerStates == {"Idle", "Opening", "Waiting", "Relaying", "Answered", "Returned", "Dropped"}
Answers == {"None", "Connected", "Prepared", "RelayAllowed",
            "RelayFailed", "WebRtcDialFailed", "Failed", "Closed"}
Tasks   == {"None", "WebRtcSpawned", "WebRtcConnecting", "Relay"}
Setups  == {"None", "Spawned", "Signalling", "Attaching", "Done"}
Peers   == {"None", "Up", "Closed"}
RtcChannels == {"None", "Connecting", "Open", "Ended", "Closed"}
Loops   == {"None", "Listening", "InRtc", "Ended"}

TypeOK ==
  /\ Node!TypeOK
  /\ caller \in [Keys -> CallerStates]
  /\ answer \in [Keys -> Answers]
  /\ protocol \subseteq Keys
  /\ pending \subseteq Keys /\ prepares \subseteq Keys /\ lookup \subseteq Keys
  /\ task \in [Keys -> Tasks]
  /\ senders \subseteq Keys
  /\ told \in [Keys -> Reasons \cup {"None"}]
  /\ setup \in [Keys -> Setups]
  /\ peer \in [Keys -> Peers]
  /\ channel \in [Keys -> RtcChannels]
  /\ loop \in [Keys -> Loops]
  /\ held \in [Keys -> DialActions]

Init ==
  /\ Node!Init
  /\ caller  = [k \in Keys |-> "Idle"]
  /\ answer  = [k \in Keys |-> "None"]
  /\ protocol = {}
  /\ pending = {} /\ prepares = {} /\ lookup = {}
  /\ task    = [k \in Keys |-> "None"]
  /\ senders = {}
  /\ told    = [k \in Keys |-> "None"]
  /\ setup   = [k \in Keys |-> "None"]
  /\ peer    = [k \in Keys |-> "None"]
  /\ channel = [k \in Keys |-> "None"]
  /\ loop    = [k \in Keys |-> "None"]
  /\ held    = [k \in Keys |-> "None"]

-----------------------------------------------------------------------------
(* Steps shared by several handlers *)

(* A task is spawned for the dial or its future is answered. *)
SpawnOrAnswer(k, action) ==
  IF action \in {"WebRtc", "Relay"}
  THEN /\ task' = [task EXCEPT ![k] = IF action = "WebRtc" THEN "WebRtcSpawned" ELSE "Relay"]
       /\ UNCHANGED <<caller, answer>>
  ELSE /\ caller' = [caller EXCEPT ![k] = "Answered"]
       /\ answer' = [answer EXCEPT ![k] = IF action = "Fail" THEN "Failed" ELSE "Closed"]
       /\ UNCHANGED task

(* Mutant: the address of the session does not get into the lookup. *)
PrepareUnrecorded(k, action) ==
  /\ caller' = [caller EXCEPT ![k] = "Answered"]
  /\ answer' = [answer EXCEPT ![k] = IF action = "WebRtc" THEN "Prepared" ELSE "Failed"]
  /\ UNCHANGED lookup

(* The session's address gets into the lookup of the WebRTC endpoint before
   the prepare is answered. *)
AnswerPrepare(k, action) ==
  /\ lookup' = IF action = "WebRtc" /\ ~closed THEN lookup \cup {k} ELSE lookup
  /\ caller' = [caller EXCEPT ![k] = "Answered"]
  /\ answer' = [answer EXCEPT ![k] =
       CASE action = "WebRtc" -> IF closed THEN "Closed" ELSE "Prepared"
         [] action = "Relay"  -> IF AllowsRelayFallback(sessions[k].intent)
                                 THEN "RelayAllowed" ELSE "Failed"
         [] action = "Fail"   -> "Failed"
         [] action = "Closed" -> "Closed"]

(* Mutant: the entry is read and left in the map. *)
CompleteAndKeep(k, action) ==
  /\ IF action # "None" /\ k \in pending
     THEN SpawnOrAnswer(k, action)
     ELSE UNCHANGED <<caller, answer, task>>
  /\ UNCHANGED <<pending, prepares, lookup>>

(* complete_pending_dial_from_session and its counterpart for prepares, which
   every handler calls one after the other: the entry is taken out of its map.
   No key is in both. *)
CompletePending(k, action) ==
  CASE action # "None" /\ k \in pending ->
         /\ pending' = pending \ {k}
         /\ SpawnOrAnswer(k, action)
         /\ UNCHANGED <<prepares, lookup>>
    [] action # "None" /\ k \notin pending /\ k \in prepares ->
         /\ prepares' = prepares \ {k}
         /\ AnswerPrepare(k, action)
         /\ UNCHANGED <<pending, task>>
    [] action = "None" \/ k \notin pending \cup prepares -> UNCHANGED dialVars

(* send_outbound_signals for one terminal signal.  The writer of a session
   stops after the first terminal; without a registered writer the signal is
   lost. *)
SendTerminal(k, reason) ==
  /\ told' = IF k \in senders /\ told[k] = "None" /\ UsesWebRtc(sessions[k].intent)
             THEN [told EXCEPT ![k] = reason] ELSE told
  /\ UNCHANGED senders

ClosePeer(k) ==
  /\ peer' = [peer EXCEPT ![k] = IF @ = "Up" THEN "Closed" ELSE @]
  /\ channel' = [channel EXCEPT ![k] = IF @ \in {"Connecting", "Open"} THEN "Ended" ELSE @]

(* A terminal decision of this side and all that follows it in the same step:
   the peer connection is closed, the peer is told, a pending dial completed. *)
TerminalLifecycle(k, decision, reason) ==
  /\ decision
  /\ ClosePeer(k)
  /\ SendTerminal(k, reason)
  /\ CompletePending(k, PendingDialAction(sessions'[k]))

DecideFailure(k) ==
  TerminalLifecycle(k, Node!DecideWebRtcFailure(k), FailureReason(sessions[k]))

(* mark_transferred_channel_open and the completion of a pending dial. *)
OpenChannel(k) ==
  /\ Node!MarkDataChannelOpen(k)
  /\ CompletePending(k, PendingDialAction(sessions'[k]))

-----------------------------------------------------------------------------
(* The dial future of the application, and the prepare of a protocol *)

(* A WebRTC dial goes on to open the bootstrap stream; a relay dial connects
   in the future itself. *)
StartDial(k, intent) ==
  /\ Node!AllocateDial(k, intent)
  /\ IF UsesWebRtc(intent)
     THEN /\ caller' = [caller EXCEPT ![k] = "Opening"]
          /\ UNCHANGED task
     ELSE /\ caller' = [caller EXCEPT ![k] = "Relaying"]
          /\ task' = [task EXCEPT ![k] = "Relay"]
  /\ UNCHANGED <<protocol, answer, pending, prepares, lookup, signalVars, rtcVars, loopVars>>

(* before_connect of the protocol transport: only a protocol set to use
   WebRTC is prepared. *)
StartPrepare(k, intent) ==
  /\ UsesWebRtc(intent)
  /\ Node!AllocateDial(k, intent)
  /\ protocol' = protocol \cup {k}
  /\ caller' = [caller EXCEPT ![k] = "Opening"]
  /\ UNCHANGED <<answer, pending, prepares, lookup, task, signalVars, rtcVars, loopVars>>

(* Connecting, opening the channel or sending the dial request failed: the
   future returns and leaves the session as it is. *)
BootstrapOpenFails(k) ==
  /\ caller[k] = "Opening"
  /\ caller' = [caller EXCEPT ![k] = "Returned"]
  /\ answer' = [answer EXCEPT ![k] = "Failed"]
  /\ UNCHANGED <<nodeVars, protocol, pending, prepares, lookup, task,
                 signalVars, rtcVars, loopVars>>

(* The dial request is sent; whether the node was closed meanwhile is not
   asked. *)
BootstrapOpens(k) ==
  /\ caller[k] = "Opening"
  /\ caller' = [caller EXCEPT ![k] = "Waiting"]
  /\ IF k \in protocol
     THEN prepares' = prepares \cup {k} /\ UNCHANGED pending
     ELSE pending' = pending \cup {k} /\ UNCHANGED prepares
  /\ senders' = senders \cup {k}
  /\ loop' = [loop EXCEPT ![k] = "Listening"]
  /\ setup' = [setup EXCEPT ![k] = "Spawned"]
  /\ UNCHANGED <<nodeVars, protocol, answer, lookup, task, told, peer, channel, held>>

(* Mutant: the writer of an answered dial stays registered. *)
DialReturnsUncleaned(k) ==
  /\ caller[k] = "Answered"
  /\ caller' = [caller EXCEPT ![k] = "Returned"]
  /\ UNCHANGED <<nodeVars, protocol, answer, pending, prepares, lookup, task,
                 signalVars, rtcVars, loopVars>>

(* The end of the future runs its cleanup guard; a prepare closes its own
   bootstrap endpoint before. *)
DialReturns(k) ==
  /\ caller[k] = "Answered"
  /\ caller' = [caller EXCEPT ![k] = "Returned"]
  /\ senders' = senders \ {k}
  /\ UNCHANGED <<nodeVars, protocol, answer, pending, prepares, lookup, task,
                 told, rtcVars, loopVars>>

(* The application drops the future: a relay dial ends with it, the spawned
   tasks of a WebRTC dial do not.  A prepare is a task of its own, which
   nobody drops. *)
DropDial(k) ==
  /\ caller[k] \in {"Opening", "Waiting", "Relaying", "Answered"} /\ k \notin protocol
  /\ caller' = [caller EXCEPT ![k] = "Dropped"]
  /\ pending' = pending \ {k}
  /\ senders' = senders \ {k}
  /\ task' = IF caller[k] = "Relaying" THEN [task EXCEPT ![k] = "None"] ELSE task
  /\ UNCHANGED <<nodeVars, protocol, answer, prepares, lookup, told, rtcVars, loopVars>>

-----------------------------------------------------------------------------
(* The application connection *)

(* A dropped future has nobody to answer. *)
AnswerDial(k, result) ==
  /\ task' = [task EXCEPT ![k] = "None"]
  /\ answer' = [answer EXCEPT ![k] = IF caller[k] = "Dropped" THEN @ ELSE result]
  /\ caller' = [caller EXCEPT ![k] = CASE @ = "Waiting"  -> "Answered"
                                       [] @ = "Relaying" -> "Returned"
                                       [] OTHER          -> @]
  /\ UNCHANGED <<protocol, pending, prepares, lookup, signalVars, rtcVars, loopVars>>

(* Mutant: the task of a closed node ends before it answers. *)
StartUnanswered(k) ==
  /\ task[k] = "WebRtcSpawned"
  /\ IF closed THEN task' = [task EXCEPT ![k] = "None"] /\ UNCHANGED <<caller, answer>>
     ELSE IF sessions[k].channel = "Open"
          THEN task' = [task EXCEPT ![k] = "WebRtcConnecting"] /\ UNCHANGED <<caller, answer>>
          ELSE /\ task' = [task EXCEPT ![k] = "None"]
               /\ answer' = [answer EXCEPT ![k] = "WebRtcDialFailed"]
               /\ caller' = [caller EXCEPT ![k] = "Answered"]
  /\ UNCHANGED <<nodeVars, protocol, pending, prepares, lookup, signalVars, rtcVars, loopVars>>

StartWebRtcConnection(k) ==
  /\ task[k] = "WebRtcSpawned"
  /\ IF ~closed /\ sessions[k].channel = "Open"
     THEN /\ task' = [task EXCEPT ![k] = "WebRtcConnecting"]
          /\ UNCHANGED <<nodeVars, protocol, caller, answer, pending, prepares, lookup,
                         signalVars, rtcVars, loopVars>>
     ELSE AnswerDial(k, IF closed THEN "Closed" ELSE "WebRtcDialFailed") /\ UNCHANGED nodeVars

WebRtcConnectionOpens(k) ==
  /\ task[k] = "WebRtcConnecting"
  /\ Node!CompleteDialAndAdmit(k, "WebRtc")
  /\ AnswerDial(k, "Connected")

(* The connect failed or selected another path, or the session can no longer
   be resolved as WebRTC.  An endpoint that another dial closed under this one
   is reported like a closed node. *)
WebRtcConnectionFails(k) ==
  /\ task[k] = "WebRtcConnecting"
  /\ \/ AnswerDial(k, IF closed THEN "Closed" ELSE "WebRtcDialFailed")
     \/ /\ \E other \in Keys \ {k} : sessions[other].role = "Dialer"
        /\ AnswerDial(k, "Closed")
  /\ UNCHANGED nodeVars

RelayConnectionOpens(k) ==
  /\ task[k] = "Relay"
  /\ Node!CompleteDialAndAdmit(k, "IrohRelay")
  /\ AnswerDial(k, "Connected")

RelayConnectionFails(k) ==
  /\ task[k] = "Relay"
  /\ AnswerDial(k, IF closed THEN "Closed" ELSE "RelayFailed")
  /\ UNCHANGED nodeVars

FacadeAccepts(k, admitted) ==
  /\ Node!AcceptWebRtcConnection(k, admitted)
  /\ UNCHANGED <<protocol, dialVars, signalVars, rtcVars, loopVars>>

(* A connection of a registered protocol goes to its own handler and never to
   the accept queue of the node. *)
ProtocolGateAccepts(k) == FacadeAccepts(k, FALSE)

-----------------------------------------------------------------------------
(* RTC setup of the dialer, attach task of the acceptor *)

(* The peer connection and its channel are created and the channel attached. *)
SetupAttaches(k) ==
  /\ setup[k] = "Spawned"
  /\ Node!AttachDataChannel(k)
  /\ setup' = [setup EXCEPT ![k] = "Signalling"]
  /\ peer' = [peer EXCEPT ![k] = "Up"]
  /\ channel' = [channel EXCEPT ![k] = "Connecting"]
  /\ UNCHANGED <<protocol, dialVars, signalVars, loopVars>>

(* The offer was sent and the local candidates up to the last. *)
SetupDone(k) ==
  /\ setup[k] = "Signalling"
  /\ setup' = [setup EXCEPT ![k] = "Done"]
  /\ UNCHANGED <<nodeVars, protocol, dialVars, signalVars, peer, channel, loopVars>>

(* Creation or attachment was refused, the offer failed, the local candidate
   queue was closed with the peer connection, or the writer is gone. *)
SetupFails(k) ==
  /\ setup[k] \in {"Spawned", "Signalling"}
  /\ setup' = [setup EXCEPT ![k] = "Done"]
  /\ IF closed
     THEN ClosePeer(k) /\ UNCHANGED <<nodeVars, dialVars, signalVars>>
     ELSE DecideFailure(k)
  /\ UNCHANGED <<protocol, loopVars>>

(* The acceptor's channel arrived, opened already or not. *)
AcceptorAttaches(k, opened) ==
  /\ setup[k] = "Attaching"
  /\ peer[k] = "Up" /\ ~closed
  /\ setup' = [setup EXCEPT ![k] = "Done"]
  /\ UNCHANGED <<protocol, peer, dialVars, signalVars, loopVars>>
  /\ IF CanAttachTransferredChannel(sessions[k])
     THEN /\ channel' = [channel EXCEPT ![k] = IF opened THEN "Open" ELSE "Connecting"]
          /\ IF opened
             THEN Node!AttachOpenDataChannel(k)
             ELSE Node!AttachDataChannel(k)
     ELSE UNCHANGED <<nodeVars, channel>>

-----------------------------------------------------------------------------
(* Data channel events; after a close of the node the handlers do nothing *)

DataChannelOpens(k) ==
  /\ channel[k] = "Connecting" /\ ~closed
  /\ channel' = [channel EXCEPT ![k] = "Open"]
  /\ IF CanMarkTransferredChannelOpen(sessions[k])
     THEN OpenChannel(k)
     ELSE UNCHANGED <<nodeVars, dialVars>>
  /\ UNCHANGED <<protocol, setup, peer, signalVars, loopVars>>

(* An error event, or a send the pump could not make. *)
DataChannelFails(k) ==
  /\ channel[k] \in {"Connecting", "Open"} /\ ~closed
  /\ DecideFailure(k)
  /\ UNCHANGED <<protocol, setup, loopVars>>

(* Mutant: the peer is not told that the channel closed. *)
DataChannelClosesSilently(k) ==
  /\ channel[k] \in {"Connecting", "Open", "Ended"} /\ ~closed
  /\ Node!DecideWebRtcClosed(k)
  /\ channel' = [channel EXCEPT ![k] = "Closed"]
  /\ peer' = [peer EXCEPT ![k] = IF @ = "Up" THEN "Closed" ELSE @]
  /\ CompletePending(k, PendingDialAction(sessions'[k]))
  /\ UNCHANGED <<protocol, setup, signalVars, loopVars>>

(* A close event may still arrive for a channel that ended before. *)
DataChannelCloses(k) ==
  /\ channel[k] \in {"Connecting", "Open", "Ended"} /\ ~closed
  /\ Node!DecideWebRtcClosed(k)
  /\ channel' = [channel EXCEPT ![k] = "Closed"]
  /\ peer' = [peer EXCEPT ![k] = IF @ = "Up" THEN "Closed" ELSE @]
  /\ SendTerminal(k, "Closed")
  /\ CompletePending(k, PendingDialAction(sessions'[k]))
  /\ UNCHANGED <<protocol, setup, loopVars>>

-----------------------------------------------------------------------------
(* Bootstrap signals *)

(* A dial request on a new bootstrap stream.  created is FALSE where the peer
   connection could not be made: the loop ends and the session stays. *)
ReceiveDialRequest(k, intent, created) ==
  /\ Node!AllocateAcceptSession(k, intent)
  /\ senders' = senders \cup {k}
  /\ IF created \/ ~UsesWebRtc(intent)
     THEN /\ loop' = [loop EXCEPT ![k] = "Listening"]
          /\ peer' = [peer EXCEPT ![k] = IF created THEN "Up" ELSE @]
     ELSE /\ loop' = [loop EXCEPT ![k] = "Ended"]
          /\ UNCHANGED peer
  /\ UNCHANGED <<protocol, dialVars, told, setup, channel, held>>

(* Mutant: the session is updated and its dial forgotten. *)
ReceiveTerminalOnly(k, reason) ==
  /\ loop[k] = "Listening"
  /\ sessions[k].received = "None"
  /\ Node!ApplyRemoteTerminal(k, reason)
  /\ UNCHANGED <<protocol, dialVars, signalVars, rtcVars, loopVars>>

(* The peer's writer sends one terminal at most.  Nothing is awaited between
   the update of the session and the completion of a pending dial. *)
ReceiveTerminal(k, reason) ==
  /\ loop[k] = "Listening"
  /\ sessions[k].received = "None"
  /\ Node!ApplyRemoteTerminal(k, reason)
  /\ CompletePending(k, PendingDialAction(sessions'[k]))
  /\ UNCHANGED <<protocol, signalVars, rtcVars, loopVars>>

(* An offer, answer or candidate: a snapshot of the session is taken before
   the peer connection is awaited... *)
ReceiveRtcSignal(k) ==
  /\ loop[k] = "Listening" /\ ~closed
  /\ sessions[k].received = "None"
  /\ peer[k] = "Up"
  /\ loop' = [loop EXCEPT ![k] = "InRtc"]
  /\ held' = [held EXCEPT ![k] = PendingDialAction(sessions[k])]
  /\ UNCHANGED <<nodeVars, protocol, dialVars, signalVars, rtcVars>>

(* ... and a pending dial is completed from it afterwards.  The answer to an
   offer goes out, and the task that waits for the channel is spawned. *)
RtcSignalApplied(k) ==
  /\ loop[k] = "InRtc"
  /\ loop' = [loop EXCEPT ![k] = "Listening"]
  /\ held' = [held EXCEPT ![k] = "None"]
  /\ \/ UNCHANGED setup
     \/ /\ sessions[k].role = "Acceptor" /\ setup[k] = "None" /\ told[k] = "None"
        /\ setup' = [setup EXCEPT ![k] = "Attaching"]
  /\ CompletePending(k, held[k])
  /\ UNCHANGED <<nodeVars, protocol, signalVars, peer, channel>>

(* The stream failed or idled out, a signal was refused, the node is closed:
   the loop ends without a word to the dial that waits. *)
LoopEnds(k) ==
  /\ loop[k] \in {"Listening", "InRtc"}
  /\ loop' = [loop EXCEPT ![k] = "Ended"]
  /\ held' = [held EXCEPT ![k] = "None"]
  /\ UNCHANGED <<nodeVars, protocol, dialVars, signalVars, rtcVars>>

-----------------------------------------------------------------------------
(* Closing *)

CloseConnection(c) ==
  /\ Node!CloseConnection(c)
  /\ UNCHANGED <<protocol, dialVars, signalVars, rtcVars, loopVars>>

(* The Closed signals of the sessions go out in the order of a hash map, up
   to the first session without a writer. *)
CloseNode ==
  LET signalling == {k \in Keys : Node!Allocated(k) /\ SignalsNodeClose(sessions[k])}
      reachable  == signalling \cap senders
  IN /\ Node!CloseNode
     /\ \E sent \in SUBSET reachable :
          /\ signalling \subseteq senders => sent = reachable
          /\ told' = [k \in Keys |-> IF k \in sent /\ told[k] = "None" THEN "Closed"
                                                                        ELSE told[k]]
     /\ UNCHANGED <<protocol, senders, dialVars, rtcVars, loopVars>>

-----------------------------------------------------------------------------

(* The tasks of a session, each with the outcomes it may have. *)
WebRtcConnection(k) == WebRtcConnectionOpens(k) \/ WebRtcConnectionFails(k)
RelayConnection(k)  == RelayConnectionOpens(k) \/ RelayConnectionFails(k)
Setup(k)            == SetupAttaches(k) \/ SetupDone(k) \/ SetupFails(k)

Next ==
  \/ \E k \in Keys :
       \/ \E intent \in DialIntents : StartDial(k, intent) \/ StartPrepare(k, intent)
       \/ BootstrapOpenFails(k) \/ BootstrapOpens(k)
       \/ DropDial(k) \/ DialReturns(k)
       \/ StartWebRtcConnection(k) \/ WebRtcConnection(k) \/ RelayConnection(k)
       \/ Setup(k) \/ RtcSignalApplied(k)
       \/ \E admitted \in BOOLEAN : FacadeAccepts(k, admitted)
       \/ ProtocolGateAccepts(k)
       \/ \E opened \in BOOLEAN : AcceptorAttaches(k, opened)
       \/ DataChannelOpens(k) \/ DataChannelFails(k) \/ DataChannelCloses(k)
       \/ \E intent \in AcceptIntents, created \in BOOLEAN :
            ReceiveDialRequest(k, intent, created)
       \/ \E reason \in Reasons : ReceiveTerminal(k, reason)
       \/ ReceiveRtcSignal(k)
       \/ LoopEnds(k)
  \/ \E c \in 1..Len(connections) : CloseConnection(c)
  \/ CloseNode

Spec == Init /\ [][Next]_vars

(* The page runs every task that is ready, and a connect either succeeds or
   fails: Iroh gives up a handshake that gets no answer.  Nothing is assumed
   of the peer, the network or the browser's WebRTC stack. *)
Fairness ==
  \A k \in Keys :
    /\ WF_vars(DialReturns(k))
    /\ WF_vars(StartWebRtcConnection(k))
    /\ WF_vars(WebRtcConnection(k))
    /\ WF_vars(RelayConnection(k))
    /\ WF_vars(Setup(k))
    /\ WF_vars(RtcSignalApplied(k))

FairSpec == Spec /\ Fairness

-----------------------------------------------------------------------------

(* What the application is promised of its dials, and where the runtime keeps
   it: a dial is answered once its outcome is fixed, also where the future has
   yet to see it; the connections made for dials are those of dialer sessions.
   A prepare is no dial of the application. *)
Promise == INSTANCE DialPromise WITH
  dial <- [k \in Keys |-> IF k \in protocol THEN "Idle"
                          ELSE IF answer[k] # "None" THEN answer[k]
                          ELSE IF caller[k] \in {"Idle", "Dropped"} THEN caller[k]
                          ELSE "Waiting"],
  connected <- {k \in Keys : /\ sessions[k].role = "Dialer"
                             /\ \E c \in 1..Len(connections) : connections[c].session = k}

(* The runtime implements the promise: a dial is answered exactly once, it is
   answered "connected" in the very step that admits its one connection, and a
   dial answered with an error never leaves a connection behind, whatever
   channel events, terminal signals, drops and closes cross it (dial.rs). *)
KeepsDialPromise == Promise!Spec

(* A dial or a prepare that still waits in its map has nothing to act on yet:
   no handler ever decides a session and leaves its dial waiting, and no stale
   snapshot the receiver loop holds across an await can complete it late
   (dial.rs complete_pending_dial_from_session). *)
DecidedDialsLeaveTheMap ==
  ~closed => \A k \in pending \cup prepares : PendingDialAction(sessions[k]) = "None"

(* The application gets at most one connection out of a dial or of an
   accepted session, whatever mixture of fallback, late channel events and
   terminal signals it went through. *)
OneConnectionPerSession ==
  \A c, d \in 1..Len(connections) :
    (connections[c].session = connections[d].session /\ connections[c].session # "None")
      => c = d

(* The entries in the two maps and in signal_senders last exactly as long as
   the future they belong to: after an answer, an error or a drop nothing is
   left behind for a dial or a prepare nobody waits for. *)
NoEntryOutlivesItsDial ==
  \A k \in Keys :
    /\ k \in pending \cup prepares => caller[k] = "Waiting" /\ task[k] = "None"
    /\ (k \in senders /\ sessions[k].role = "Dialer") => caller[k] \in {"Waiting", "Answered"}

(* What before_connect answers Iroh once the prepare returned. *)
HookAccepts(k) ==
  answer[k] \in {"Prepared", "RelayAllowed"} \/ AllowsRelayFallback(sessions[k].intent)

(* A connect of a protocol that requires WebRTC is let through only with the
   address of a session in the lookup whose data channel had opened, whichever
   of its handlers completed the prepare (node/protocol_transport.rs
   before_connect, direct/protocol_transport.rs). *)
WebRtcOnlyConnectHasSession ==
  \A k \in protocol :
    (caller[k] = "Returned" /\ sessions[k].intent = "WebRtcOnly" /\ HookAccepts(k))
      => k \in lookup /\ sessions[k].channel \in {"Open"} \cup Ended

(* While the node is open, the first terminal decision of a session whose
   signal writer is registered is the one the peer is told: no later decision
   overtakes it and none is forgotten. *)
FirstDecisionReachesPeer ==
  [][\A k \in Keys :
       (/\ sessions[k].sent = "None" /\ sessions'[k].sent # "None"
        /\ k \in senders /\ ~closed')
         => told'[k] = sessions'[k].sent]_vars

(* A dial whose entry was taken out of the map is answered, whatever happens
   to the session or the node while its connection is being opened; a prepare
   too. *)
TakenDialIsAnswered ==
  \A k \in Keys :
    (caller[k] = "Waiting" /\ k \notin pending \cup prepares)
      ~> caller[k] \in {"Returned", "Dropped"}

(* README.md:117-118: webrtc_preferred "attempt[s] WebRTC first, then fall[s]
   back to Iroh relay if WebRTC cannot be promoted".  So a preferred dial on
   an open node never ends with the failure of the WebRTC connection. *)
PreferredDialFallsBack ==
  \A k \in Keys :
    (k \notin protocol /\ sessions[k].intent = "WebRtcPreferred" /\ ~closed)
      => answer[k] # "WebRtcDialFailed"

(* browser_runtime/tests.rs:381 "in_flight_and_future_dials_reject_after_close":
   so a dial (not a prepare) that waits with its entry in pending_dials is
   answered if the node is closed after that. *)
InFlight(k) == ~closed /\ k \in pending \ protocol /\ caller[k] = "Waiting"

InFlightDialsRejectAfterClose ==
  \A k \in Keys : []((InFlight(k) /\ <>closed) => <>(caller[k] # "Waiting"))
=============================================================================
