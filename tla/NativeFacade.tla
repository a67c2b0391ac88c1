----------------------------- MODULE NativeFacade -----------------------------
(***************************************************************************)
(* Native nodes that dial each other (facade/native.rs).  Unlike the page, *)
(* they run on several threads: the state of a node is locked for each     *)
(* method, and a close may fall between any two of them.                   *)
(*                                                                         *)
(* A dial creates a session (a peer connection), exchanges the offer, the  *)
(* answer and the two ends of candidates over a bootstrap stream, and      *)
(* connects over the session's custom address.  Each end then looks at the *)
(* path it selected itself: the dialer wants that of its session, and the  *)
(* acceptor that of the first route it has for the remote and ALPN; either *)
(* closes the connection otherwise.  The acceptor hands it over through a  *)
(* bounded queue.  There is one ALPN; candidates change nothing here and   *)
(* are left out.                                                           *)
(***************************************************************************)
EXTENDS Naturals, Sequences

CONSTANTS Nodes, Dials,
          Dialer, Acceptor,   \* dial -> the node at that end
          QueueCapacity,
          DialIntents,        \* dial -> the intents it may have
          Closers             \* the nodes that are closed in a run

ASSUME NativeAssumption ==
  /\ Dialer \in [Dials -> Nodes] /\ Acceptor \in [Dials -> Nodes]
  /\ \A d \in Dials : Dialer[d] # Acceptor[d]
  /\ QueueCapacity \in Nat \ {0}
  /\ Closers \subseteq Nodes

Connections == Dials \X {"WebRtc", "Relay"}
Intents == {"IrohRelay", "WebRtcPreferred", "WebRtcOnly"}
ASSUME IntentAssumption == DialIntents \in [Dials -> SUBSET Intents]

VARIABLES
  node,      \* node -> how far its close came
  routes,    \* node -> session_routes, in the order they were pushed
  tracked,   \* node -> dials whose sessions its state holds
  taken,     \* node -> dials whose sessions its close has yet to close
  session,   \* <<node, dial>> -> the peer connection
  ice,       \* <<node, dial>> -> the task that sends local candidates
  intent,    \* dial -> its intent
  dial,      \* dial -> where the dial future is
  handler,   \* dial -> where the acceptor's bootstrap handler is
  out, back, \* dial -> signals on the way to the acceptor, to the dialer
  conn,      \* connection -> "Open" from its handshake until an end closes it
  gate,      \* connection -> what became of it at the acceptor
  queue,     \* node -> connections in the accept queue
  offered,   \* nodes whose state still holds the sender of the queue
  call       \* node -> its accept call

nodeVars == <<node, routes, tracked, taken>>
rtcVars  == <<session, ice>>
dialVars == <<intent, dial>>
sigVars  == <<handler, out, back>>
connVars == <<conn, gate>>
accVars  == <<queue, offered, call>>
vars == <<nodeVars, rtcVars, dialVars, sigVars, connVars, accVars>>

Ends == {e \in Nodes \X Dials : e[1] \in {Dialer[e[2]], Acceptor[e[2]]}}
Signals == {"Offer", "Answer", "End"}

DialPlaces == {"Idle", "Creating", "Tracked", "Opening", "Signalling", "Answered",
               "Gathering", "Connecting", "Checking", "Connected", "Relaying", "Relayed", "Failed"}
HandlerPlaces == {"None", "Requested", "Tracked", "AwaitOffer", "Answered",
                  "Gathering", "Done", "Failed"}
GatePlaces == {"None", "Handshaken", "Admitting", "Delivered", "Refused", "Aborted"}

TypeOK ==
  /\ node \in [Nodes -> {"Open", "Closing", "Unrouted", "Disconnected", "Closed"}]
  /\ routes \in [Nodes -> Seq(Dials)]
  /\ tracked \in [Nodes -> SUBSET Dials] /\ taken \in [Nodes -> SUBSET Dials]
  /\ session \in [Ends -> {"None", "Up", "Closed"}]
  /\ ice \in [Ends -> {"None", "Gathering", "Ended"}]
  /\ intent \in [Dials -> Intents] /\ dial \in [Dials -> DialPlaces]
  /\ handler \in [Dials -> HandlerPlaces]
  /\ out \in [Dials -> Seq(Signals)] /\ back \in [Dials -> Seq(Signals)]
  /\ conn \in [Connections -> {"None", "Open", "Closed"}]
  /\ gate \in [Connections -> GatePlaces]
  /\ queue \in [Nodes -> Seq(Connections)]
  /\ \A n \in Nodes : Len(queue[n]) <= QueueCapacity
  /\ offered \subseteq Nodes
  /\ call \in [Nodes -> {"Idle", "Waiting", "Failed"}]

Init ==
  /\ node = [n \in Nodes |-> "Open"]
  /\ routes = [n \in Nodes |-> << >>]
  /\ tracked = [n \in Nodes |-> {}] /\ taken = [n \in Nodes |-> {}]
  /\ session = [e \in Ends |-> "None"] /\ ice = [e \in Ends |-> "None"]
  /\ intent = [d \in Dials |-> "IrohRelay"]
  /\ dial = [d \in Dials |-> "Idle"]
  /\ handler = [d \in Dials |-> "None"]
  /\ out = [d \in Dials |-> << >>] /\ back = [d \in Dials |-> << >>]
  /\ conn = [c \in Connections |-> "None"]
  /\ gate = [c \in Connections |-> "None"]
  /\ queue = [n \in Nodes |-> << >>]
  /\ offered = Nodes
  /\ call = [n \in Nodes |-> "Idle"]

Closed(n)   == node[n] # "Open"
Routed(n)   == node[n] \in {"Open", "Closing"}
Online(n)   == node[n] \in {"Open", "Closing", "Unrouted"}
Linked(d)   == Online(Dialer[d]) /\ Online(Acceptor[d])

Goes(d, place)     == dial' = [dial EXCEPT ![d] = place] /\ UNCHANGED intent
Handles(d, place)  == handler' = [handler EXCEPT ![d] = place]

Opens(c) == conn' = [conn EXCEPT ![c] = "Open"]
(* Connection::close, or its last handle is dropped. *)
Shuts(cs) ==
  conn' = [c \in Connections |-> IF c \in cs /\ conn[c] = "Open" THEN "Closed" ELSE conn[c]]

-----------------------------------------------------------------------------
(* Sessions and routes, at either end *)

(* Mutant: the session gets into the state of a closed node. *)
TrackUnchecked(n, d) ==
  /\ tracked' = [tracked EXCEPT ![n] = @ \cup {d}]
  /\ session' = [session EXCEPT ![<<n, d>>] = "Up"]

(* track_session; FALSE where the node is closed, and the new session is
   dropped. *)
Track(n, d) ==
  /\ ~Closed(n)
  /\ tracked' = [tracked EXCEPT ![n] = @ \cup {d}]
  /\ session' = [session EXCEPT ![<<n, d>>] = "Up"]

(* Mutant: the route gets into the state of a closed node. *)
RouteUnchecked(n, d) == routes' = [routes EXCEPT ![n] = Append(@, d)]

(* track_session_route *)
TrackRoute(n, d) ==
  /\ ~Closed(n)
  /\ routes' = [routes EXCEPT ![n] = Append(@, d)]

(* The offer or answer was sent and the task for the candidates spawned. *)
SpawnIceSender(n, d) == ice' = [ice EXCEPT ![<<n, d>>] = "Gathering"]

(* Gathering ends; the end of candidates goes out unless the stream broke. *)
GatheringEnds(n, d) ==
  /\ ice[<<n, d>>] = "Gathering" /\ session[<<n, d>>] = "Up"
  /\ ice' = [ice EXCEPT ![<<n, d>>] = "Ended"]
  /\ IF ~Linked(d) THEN UNCHANGED <<out, back>>
     ELSE IF n = Dialer[d]
          THEN out'  = [out EXCEPT ![d] = Append(@, "End")] /\ UNCHANGED back
          ELSE back' = [back EXCEPT ![d] = Append(@, "End")] /\ UNCHANGED out
  /\ UNCHANGED <<nodeVars, session, dialVars, handler, connVars, accVars>>

-----------------------------------------------------------------------------
(* The dial future *)

(* The relay endpoint is asked whether it is closed, not the node. *)
AfterWebRtcFailure(d) ==
  IF intent[d] = "WebRtcPreferred" /\ Online(Dialer[d]) THEN "Relaying" ELSE "Failed"

StartDial(d, i) ==
  /\ dial[d] = "Idle"
  /\ intent' = [intent EXCEPT ![d] = i]
  /\ dial' = [dial EXCEPT ![d] =
       IF i # "IrohRelay" /\ ~Closed(Dialer[d]) THEN "Creating"
       ELSE IF i = "IrohRelay" \/ (i = "WebRtcPreferred" /\ Online(Dialer[d])) THEN "Relaying"
       ELSE "Failed"]
  /\ UNCHANGED <<nodeVars, rtcVars, sigVars, connVars, accVars>>

OffererTracked(d) ==
  /\ dial[d] = "Creating"
  /\ Track(Dialer[d], d)
  /\ Goes(d, "Tracked")
  /\ UNCHANGED <<node, routes, taken, ice, sigVars, connVars, accVars>>

OffererRouted(d) ==
  /\ dial[d] = "Tracked"
  /\ TrackRoute(Dialer[d], d)
  /\ Goes(d, "Opening")
  /\ UNCHANGED <<node, tracked, taken, rtcVars, sigVars, connVars, accVars>>

(* The bootstrap stream opened, the request and the offer are on it. *)
BootstrapOpens(d) ==
  /\ dial[d] = "Opening" /\ Linked(d) /\ Routed(Acceptor[d])
  /\ session[<<Dialer[d], d>>] = "Up"
  /\ Goes(d, "Signalling")
  /\ Handles(d, "Requested")
  /\ out' = [out EXCEPT ![d] = <<"Offer">>]
  /\ SpawnIceSender(Dialer[d], d)
  /\ UNCHANGED <<nodeVars, session, back, connVars, accVars>>

(* receive_dialer_signals: the answer comes before the end of candidates. *)
DialerReceives(d) ==
  /\ dial[d] \in {"Signalling", "Answered"} /\ back[d] # << >>
  /\ session[<<Dialer[d], d>>] = "Up"
  /\ Goes(d, IF Head(back[d]) = "Answer" THEN "Answered"
             ELSE IF dial[d] = "Answered" THEN "Gathering" ELSE dial[d])
  /\ back' = [back EXCEPT ![d] = Tail(@)]
  /\ UNCHANGED <<nodeVars, rtcVars, handler, out, connVars, accVars>>

DialerGathered(d) ==
  /\ dial[d] = "Gathering" /\ ice[<<Dialer[d], d>>] = "Ended"
  /\ Goes(d, "Connecting")
  /\ UNCHANGED <<nodeVars, rtcVars, sigVars, connVars, accVars>>

(* Creation failed, the node was closed, an operation on the stream failed or
   took too long, a description was refused, the connect failed. *)
WebRtcFails(d) ==
  /\ dial[d] \in {"Creating", "Tracked", "Opening", "Signalling", "Answered", "Connecting"}
  /\ Goes(d, AfterWebRtcFailure(d))
  /\ UNCHANGED <<nodeVars, rtcVars, sigVars, connVars, accVars>>

(* The dialer has the answer; a dial that gave up counts once the acceptor
   answered it, for its session stays up. *)
Negotiated(d) ==
  /\ dial[d] \in {"Gathering", "Connecting", "Checking", "Connected",
                  "Relaying", "Relayed", "Failed"}
  /\ ice[<<Acceptor[d], d>>] # "None"

(* Every session of the two nodes is announced to both endpoints, so the
   selected path may be that of another. *)
Paths(d) ==
  {p \in Dials : {Dialer[p], Acceptor[p]} = {Dialer[d], Acceptor[d]} /\ Negotiated(p)}

(* The handshake succeeds, over whichever session carries it. *)
ConnectOpens(d) ==
  /\ dial[d] = "Connecting" /\ Linked(d) /\ Routed(Acceptor[d])
  /\ \E p \in Paths(d) :
       session[<<Dialer[p], p>>] = "Up" /\ session[<<Acceptor[p], p>>] = "Up"
  /\ Opens(<<d, "WebRtc">>)
  /\ gate' = [gate EXCEPT ![<<d, "WebRtc">>] = "Handshaken"]
  /\ Goes(d, "Checking")
  /\ UNCHANGED <<nodeVars, rtcVars, sigVars, accVars>>

(* Mutant: a connection over the wrong path is given up and left open. *)
DialerLeavesOpen(d) ==
  /\ dial[d] = "Checking"
  /\ \/ Negotiated(d) /\ Goes(d, "Connected")
     \/ Goes(d, AfterWebRtcFailure(d))
  /\ UNCHANGED <<nodeVars, rtcVars, sigVars, connVars, accVars>>

(* require_webrtc_selected_path: the path is that of the dial's session, or it
   is another one, none of a session, or none is selected.  By then the
   acceptor may have let the connection pass. *)
DialerChecks(d) ==
  /\ dial[d] = "Checking"
  /\ \/ Negotiated(d) /\ Goes(d, "Connected") /\ UNCHANGED conn
     \/ Goes(d, AfterWebRtcFailure(d)) /\ Shuts({<<d, "WebRtc">>})
  /\ UNCHANGED <<nodeVars, rtcVars, sigVars, gate, accVars>>

(* dial_iroh; the acceptor's relay endpoint hands the connection over as is. *)
RelayConnects(d) ==
  /\ dial[d] = "Relaying" /\ Linked(d) /\ Routed(Acceptor[d])
  /\ Opens(<<d, "Relay">>)
  /\ gate' = [gate EXCEPT ![<<d, "Relay">>] = "Admitting"]
  /\ Goes(d, "Relayed")
  /\ UNCHANGED <<nodeVars, rtcVars, sigVars, accVars>>

RelayFails(d) ==
  /\ dial[d] = "Relaying"
  /\ Goes(d, "Failed")
  /\ UNCHANGED <<nodeVars, rtcVars, sigVars, connVars, accVars>>

-----------------------------------------------------------------------------
(* handle_bootstrap_connection *)

AnswererTracked(d) ==
  /\ handler[d] = "Requested"
  /\ Track(Acceptor[d], d)
  /\ Handles(d, "Tracked")
  /\ UNCHANGED <<node, routes, taken, ice, dialVars, out, back, connVars, accVars>>

AnswererRouted(d) ==
  /\ handler[d] = "Tracked"
  /\ TrackRoute(Acceptor[d], d)
  /\ Handles(d, "AwaitOffer")
  /\ UNCHANGED <<node, tracked, taken, rtcVars, dialVars, out, back, connVars, accVars>>

(* receive_answerer_signals *)
OfferAnswered(d) ==
  /\ handler[d] = "AwaitOffer" /\ out[d] # << >> /\ Head(out[d]) = "Offer"
  /\ Linked(d) /\ session[<<Acceptor[d], d>>] = "Up"
  /\ out' = [out EXCEPT ![d] = Tail(@)]
  /\ back' = [back EXCEPT ![d] = Append(@, "Answer")]
  /\ SpawnIceSender(Acceptor[d], d)
  /\ Handles(d, "Answered")
  /\ UNCHANGED <<nodeVars, session, dialVars, connVars, accVars>>

EndReceived(d) ==
  /\ handler[d] = "Answered" /\ out[d] # << >> /\ Head(out[d]) = "End"
  /\ session[<<Acceptor[d], d>>] = "Up"
  /\ out' = [out EXCEPT ![d] = Tail(@)]
  /\ Handles(d, "Gathering")
  /\ UNCHANGED <<nodeVars, rtcVars, dialVars, back, connVars, accVars>>

HandlerDone(d) ==
  /\ handler[d] = "Gathering" /\ ice[<<Acceptor[d], d>>] = "Ended"
  /\ Handles(d, "Done")
  /\ UNCHANGED <<nodeVars, rtcVars, dialVars, out, back, connVars, accVars>>

HandlerFails(d) ==
  /\ handler[d] \in {"Requested", "Tracked", "AwaitOffer", "Answered"}
  /\ Handles(d, "Failed")
  /\ UNCHANGED <<nodeVars, rtcVars, dialVars, out, back, connVars, accVars>>

(* A handler that returned and a task that ended dropped their halves of the
   stream, and with them the connection: what is on the way may be lost. *)
SignalsLost(d) ==
  /\ handler[d] \in {"Done", "Failed"} /\ ice[<<Acceptor[d], d>>] # "Gathering"
  /\ \E m \in 0..Len(back[d]) - 1 : back' = [back EXCEPT ![d] = SubSeq(@, 1, m)]
  /\ UNCHANGED <<nodeVars, rtcVars, dialVars, handler, out, connVars, accVars>>

-----------------------------------------------------------------------------
(* The gate of the acceptor and its queue *)

(* matching_acceptor_session and require_webrtc_selected_path.  The routes of
   the node's own dials count too.  The acceptor selects its path for itself; a
   connection the dialer closed has none, or passes before the close is seen. *)
Named(d) ==
  {i \in 1..Len(routes[Acceptor[d]]) :
     LET r == routes[Acceptor[d]][i]
     IN {Dialer[r], Acceptor[r]} = {Dialer[d], Acceptor[d]}}

Matches(d) ==
  \E i \in Named(d) : (\A j \in Named(d) : i <= j) /\ routes[Acceptor[d]][i] \in Paths(d)

GateChecks(d) ==
  /\ gate[<<d, "WebRtc">>] = "Handshaken"
  /\ \/ /\ Matches(d)
        /\ gate' = [gate EXCEPT ![<<d, "WebRtc">>] = "Admitting"]
        /\ UNCHANGED conn
     \/ /\ gate' = [gate EXCEPT ![<<d, "WebRtc">>] = "Refused"]
        /\ Shuts({<<d, "WebRtc">>})
  /\ UNCHANGED <<nodeVars, rtcVars, dialVars, sigVars, accVars>>

Receivable(n) == n \in offered \/ call[n] = "Waiting"

(* FacadeAcceptHandler waits for a slot; without a receiver the connection is
   closed. *)
Enqueue(c) ==
  LET n == Acceptor[c[1]]
  IN /\ gate[c] = "Admitting"
     /\ IF Receivable(n)
        THEN /\ Len(queue[n]) < QueueCapacity
             /\ queue' = [queue EXCEPT ![n] = Append(@, c)]
             /\ gate' = [gate EXCEPT ![c] = "Delivered"]
             /\ UNCHANGED conn
        ELSE /\ gate' = [gate EXCEPT ![c] = "Refused"]
             /\ Shuts({c})
             /\ UNCHANGED queue
     /\ UNCHANGED <<nodeVars, rtcVars, dialVars, sigVars, offered, call>>

(* accept *)
Accept(n) ==
  /\ call[n] = "Idle" /\ ~Closed(n)
  /\ call' = [call EXCEPT ![n] = "Waiting"]
  /\ UNCHANGED <<nodeVars, rtcVars, dialVars, sigVars, connVars, queue, offered>>

CallEnds(n, place) ==
  /\ call' = [call EXCEPT ![n] = place]
  /\ UNCHANGED <<nodeVars, rtcVars, dialVars, sigVars, gate, offered>>

(* With its last holder the receiver goes, and the connections it holds. *)
ReceiverDropped(n, held) ==
  /\ queue' = [queue EXCEPT ![n] = << >>]
  /\ Shuts({held[i] : i \in 1..Len(held)})

AcceptReturns(n) ==
  /\ call[n] = "Waiting" /\ queue[n] # << >>
  /\ IF n \in offered THEN queue' = [queue EXCEPT ![n] = Tail(@)] /\ UNCHANGED conn
                      ELSE ReceiverDropped(n, Tail(queue[n]))
  /\ CallEnds(n, "Idle")

(* Every sender is gone: the one of the state and those of the handlers. *)
AcceptFails(n) ==
  /\ call[n] = "Waiting" /\ queue[n] = << >>
  /\ n \notin offered /\ ~Routed(n)
  /\ CallEnds(n, "Failed")
  /\ UNCHANGED <<queue, conn>>

DropAccept(n) ==
  /\ call[n] = "Waiting"
  /\ IF n \in offered THEN UNCHANGED <<queue, conn>> ELSE ReceiverDropped(n, queue[n])
  /\ CallEnds(n, "Idle")

-----------------------------------------------------------------------------
(* close *)

(* Mutant: the accept queues stay in the state. *)
CloseKeepsQueues(n) ==
  /\ node[n] = "Open" /\ node' = [node EXCEPT ![n] = "Closing"]
  /\ taken' = [taken EXCEPT ![n] = tracked[n]]
  /\ tracked' = [tracked EXCEPT ![n] = {}]
  /\ routes' = [routes EXCEPT ![n] = << >>]
  /\ UNCHANGED <<rtcVars, dialVars, sigVars, connVars, accVars>>

Close(n) ==
  /\ node[n] = "Open" /\ node' = [node EXCEPT ![n] = "Closing"]
  /\ taken' = [taken EXCEPT ![n] = tracked[n]]
  /\ tracked' = [tracked EXCEPT ![n] = {}]
  /\ routes' = [routes EXCEPT ![n] = << >>]
  /\ offered' = offered \ {n}
  /\ IF call[n] = "Waiting" THEN UNCHANGED <<queue, conn>> ELSE ReceiverDropped(n, queue[n])
  /\ UNCHANGED <<rtcVars, dialVars, sigVars, gate, call>>

Before(n) ==
  {c \in Connections : Acceptor[c[1]] = n /\ gate[c] \in {"Handshaken", "Admitting"}}

(* The routers end the tasks of their handlers. *)
RoutersShutDown(n) ==
  /\ node[n] = "Closing" /\ node' = [node EXCEPT ![n] = "Unrouted"]
  /\ handler' = [d \in Dials |->
       IF Acceptor[d] = n /\ handler[d] \notin {"None", "Done"} THEN "Failed" ELSE handler[d]]
  /\ gate' = [c \in Connections |-> IF c \in Before(n) THEN "Aborted" ELSE gate[c]]
  /\ Shuts(Before(n))
  /\ UNCHANGED <<routes, tracked, taken, rtcVars, dialVars, out, back, accVars>>

EndpointsClose(n) ==
  /\ node[n] = "Unrouted" /\ node' = [node EXCEPT ![n] = "Disconnected"]
  /\ Shuts({c \in Connections : n \in {Dialer[c[1]], Acceptor[c[1]]}})
  /\ UNCHANGED <<routes, tracked, taken, rtcVars, dialVars, sigVars, gate, accVars>>

(* Mutant: the peer connection is closed and its candidate queue is not. *)
SessionClosesQuietly(n, d) ==
  /\ node[n] = "Disconnected" /\ d \in taken[n]
  /\ taken' = [taken EXCEPT ![n] = @ \ {d}]
  /\ session' = [session EXCEPT ![<<n, d>>] = "Closed"]
  /\ UNCHANGED <<node, routes, tracked, ice, dialVars, sigVars, connVars, accVars>>

(* NativeWebRtcSession::close: the candidate queue is closed, which ends the
   task that sends from it, and then the peer connection. *)
SessionCloses(n, d) ==
  /\ node[n] = "Disconnected" /\ d \in taken[n]
  /\ taken' = [taken EXCEPT ![n] = @ \ {d}]
  /\ session' = [session EXCEPT ![<<n, d>>] = "Closed"]
  /\ ice' = [ice EXCEPT ![<<n, d>>] = IF @ = "Gathering" THEN "Ended" ELSE @]
  /\ UNCHANGED <<node, routes, tracked, dialVars, sigVars, connVars, accVars>>

CloseReturns(n) ==
  /\ node[n] = "Disconnected" /\ taken[n] = {}
  /\ node' = [node EXCEPT ![n] = "Closed"]
  /\ UNCHANGED <<routes, tracked, taken, rtcVars, dialVars, sigVars, connVars, accVars>>

-----------------------------------------------------------------------------

Dialing(d) ==
  \/ OffererTracked(d) \/ OffererRouted(d) \/ BootstrapOpens(d)
  \/ DialerReceives(d) \/ DialerGathered(d) \/ WebRtcFails(d)
  \/ ConnectOpens(d) \/ DialerChecks(d)
  \/ RelayConnects(d) \/ RelayFails(d)

Handling(d) ==
  \/ AnswererTracked(d) \/ AnswererRouted(d) \/ OfferAnswered(d)
  \/ EndReceived(d) \/ HandlerDone(d) \/ HandlerFails(d)

Accepting(n) == AcceptReturns(n) \/ AcceptFails(n)

Closing(n) ==
  \/ RoutersShutDown(n) \/ EndpointsClose(n) \/ CloseReturns(n)
  \/ \E d \in Dials : SessionCloses(n, d)

(* A node nobody dials accepts nothing, and is not asked to. *)
Dialled == {Acceptor[d] : d \in Dials}

Next ==
  \/ \E d \in Dials :
       \/ \E i \in DialIntents[d] : StartDial(d, i)
       \/ Dialing(d) \/ Handling(d) \/ SignalsLost(d) \/ GateChecks(d)
  \/ \E e \in Ends : GatheringEnds(e[1], e[2])
  \/ \E c \in Connections : Enqueue(c)
  \/ \E n \in Dialled : Accept(n)
  \/ \E n \in Nodes : Accepting(n) \/ DropAccept(n) \/ Closing(n)
  \/ \E n \in Closers : Close(n)

Spec == Init /\ [][Next]_vars

(* The tasks of both nodes run; the bootstrap stream has a timeout on every
   operation, so a dial that waits for a signal goes on or fails; a connect
   ends; the ICE agent of an open peer connection stops gathering. *)
Fairness ==
  /\ \A d \in Dials : WF_vars(Dialing(d)) /\ WF_vars(Handling(d))
  /\ \A e \in Ends : WF_vars(GatheringEnds(e[1], e[2]))
  /\ \A n \in Nodes : WF_vars(Accepting(n)) /\ WF_vars(Closing(n))

FairSpec == Spec /\ Fairness

-----------------------------------------------------------------------------

(* A node whose close returned has no open session of its state left, though
   dials and bootstrap handlers create sessions across the close on other
   threads (native.rs:195 "Closes the endpoint, accept loop, and active native
   WebRTC sessions").  A session it never took into its state is dropped. *)
ClosedNodeHasNoSession ==
  \A n \in Nodes : node[n] = "Closed" =>
    \A d \in Dials : <<n, d>> \in Ends => session[<<n, d>>] # "Up"

(* Between the close of a node and the end of its routers no WebRTC connection
   passes the gate any more, whichever handlers still run (matching on routes
   that close cleared and nobody fills again). *)
ClosedNodePromotesNothing ==
  [][\A d \in Dials :
       (Closed(Acceptor[d]) /\ gate[<<d, "WebRtc">>] = "Handshaken")
         => gate'[<<d, "WebRtc">>] # "Admitting"]_vars

(* Of the two connections a dial may open one at most is open, and none where
   its caller got an error: the acceptor may have admitted the WebRTC connection
   over the path it selected, queued it and handed it to its application before
   the dialer sees another path and goes on to the relay, and is not left
   serving both (native.rs dial_webrtc, dial). *)
OneLiveConnectionPerDial ==
  \A d \in Dials :
    LET open == {kind \in {"WebRtc", "Relay"} : conn[<<d, kind>>] = "Open"}
    IN open # {"WebRtc", "Relay"} /\ (dial[d] = "Failed" => open = {})

(* Whatever the acceptor does, and across the close of either node, a dial
   ends with a connection or an error; no task waits on the other for ever. *)
DialEnds ==
  \A d \in Dials : dial[d] # "Idle" ~> dial[d] \in {"Connected", "Relayed", "Failed"}

(* An accept call that waits on a node which is closed returns. *)
AcceptEndsWithNode ==
  \A n \in Nodes : (Closed(n) /\ call[n] = "Waiting") ~> call[n] # "Waiting"
=============================================================================
