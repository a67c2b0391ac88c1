--------------------------- MODULE NativeFacadeProofs ---------------------------
(***************************************************************************)
(* Native nodes for any nodes, dials, intents and queue capacity: what the *)
(* close of a node leaves behind, and what the gate of an acceptor lets    *)
(* through.                                                                *)
(***************************************************************************)
EXTENDS NativeFacade, SequenceTheorems, TLAPS

(* An open session is in the state of its node, or in the hands of its close. *)
SessionsAreKept ==
  \A n \in Nodes, d \in Dials :
    <<n, d>> \in Ends /\ session[<<n, d>>] = "Up" => d \in tracked[n] \cup taken[n]

(* A close takes the sessions and clears the routes, and nothing refills them. *)
CloseEmpties ==
  \A n \in Nodes :
    /\ Closed(n) => tracked[n] = {} /\ routes[n] = << >>
    /\ node[n] \in {"Open", "Closed"} => taken[n] = {}

(* A connection is open only while its dial holds it: the WebRTC one from its
   handshake until the dialer gives it up, the relay's once it is returned. *)
OpenIsHeld ==
  \A d \in Dials :
    /\ conn[<<d, "WebRtc">>] = "Open" => dial[d] \in {"Checking", "Connected"}
    /\ conn[<<d, "Relay">>] = "Open" => dial[d] = "Relayed"

IInv == TypeOK /\ SessionsAreKept /\ CloseEmpties /\ OpenIsHeld

-----------------------------------------------------------------------------
(* Types *)

LEMMA EndTypes ==
  ASSUME NativeAssumption, NEW d \in Dials
  PROVE  /\ Dialer[d] \in Nodes /\ Acceptor[d] \in Nodes
         /\ <<Dialer[d], d>> \in Ends /\ <<Acceptor[d], d>> \in Ends
         /\ <<d, "WebRtc">> \in Connections /\ <<d, "Relay">> \in Connections
BY DEF NativeAssumption, Ends, Connections

LEMMA ShutsTypes ==
  ASSUME TypeOK, NEW cs, Shuts(cs) \/ UNCHANGED conn
  PROVE  /\ conn' \in [Connections -> {"None", "Open", "Closed"}]
         /\ \A c \in Connections : conn'[c] = "Open" => conn[c] = "Open" /\ (Shuts(cs) => c \notin cs)
BY DEF TypeOK, Shuts

LEMMA DialingTypes ==
  ASSUME NativeAssumption, TypeOK, NEW d \in Dials, Dialing(d)
  PROVE  TypeOK'
<1> USE EndTypes DEF TypeOK, nodeVars, rtcVars, dialVars, sigVars, connVars, accVars, Goes, Handles
<1>1. CASE OffererTracked(d)
  BY <1>1 DEF OffererTracked, Track, DialPlaces
<1>2. CASE OffererRouted(d)
  <2>1. routes' \in [Nodes -> Seq(Dials)]
    BY <1>2 DEF OffererRouted, TrackRoute
  <2> QED BY <1>2, <2>1 DEF OffererRouted, DialPlaces
<1>3. CASE BootstrapOpens(d)
  <2>1. <<"Offer">> \in Seq(Signals)
    BY DEF Signals
  <2> QED BY <1>3, <2>1 DEF BootstrapOpens, SpawnIceSender, DialPlaces, HandlerPlaces
<1>4. CASE DialerReceives(d)
  <2>1. back' \in [Dials -> Seq(Signals)]
    BY <1>4 DEF DialerReceives
  <2> QED BY <1>4, <2>1 DEF DialerReceives, DialPlaces
<1>5. CASE DialerGathered(d)
  BY <1>5 DEF DialerGathered, DialPlaces
<1>6. CASE WebRtcFails(d)
  BY <1>6 DEF WebRtcFails, AfterWebRtcFailure, DialPlaces
<1>7. CASE ConnectOpens(d)
  BY <1>7 DEF ConnectOpens, Opens, DialPlaces, GatePlaces
<1>10. CASE DialerChecks(d)
  <2>1. conn' \in [Connections -> {"None", "Open", "Closed"}]
    BY <1>10, ShutsTypes DEF DialerChecks
  <2>2. dial' \in [Dials -> DialPlaces]
    <3>1. AfterWebRtcFailure(d) \in DialPlaces /\ "Connected" \in DialPlaces
      BY DEF AfterWebRtcFailure, DialPlaces
    <3>2. PICK place \in DialPlaces : dial' = [dial EXCEPT ![d] = place]
      BY <1>10, <3>1 DEF DialerChecks
    <3> QED BY <3>2
  <2> QED BY <1>10, <2>1, <2>2 DEF DialerChecks
<1>8. CASE RelayConnects(d)
  BY <1>8 DEF RelayConnects, Opens, DialPlaces, GatePlaces
<1>9. CASE RelayFails(d)
  BY <1>9 DEF RelayFails, DialPlaces
<1> QED BY <1>1, <1>2, <1>3, <1>4, <1>5, <1>6, <1>7, <1>8, <1>9, <1>10 DEF Dialing

LEMMA HandlingTypes ==
  ASSUME NativeAssumption, TypeOK, NEW d \in Dials, Handling(d)
  PROVE  TypeOK'
<1> USE EndTypes DEF TypeOK, nodeVars, rtcVars, dialVars, sigVars, connVars, accVars, Goes, Handles
<1>1. CASE AnswererTracked(d)
  BY <1>1 DEF AnswererTracked, Track, HandlerPlaces
<1>2. CASE AnswererRouted(d)
  <2>1. routes' \in [Nodes -> Seq(Dials)]
    BY <1>2 DEF AnswererRouted, TrackRoute
  <2> QED BY <1>2, <2>1 DEF AnswererRouted, HandlerPlaces
<1>3. CASE OfferAnswered(d)
  <2>1. out' \in [Dials -> Seq(Signals)]
    BY <1>3 DEF OfferAnswered
  <2>2. back' \in [Dials -> Seq(Signals)]
    <3>1. Append(back[d], "Answer") \in Seq(Signals)
      BY DEF Signals
    <3> QED BY <1>3, <3>1 DEF OfferAnswered
  <2> QED BY <1>3, <2>1, <2>2 DEF OfferAnswered, SpawnIceSender, HandlerPlaces
<1>4. CASE EndReceived(d)
  <2>1. out' \in [Dials -> Seq(Signals)]
    BY <1>4 DEF EndReceived
  <2> QED BY <1>4, <2>1 DEF EndReceived, HandlerPlaces
<1>5. CASE HandlerDone(d)
  BY <1>5 DEF HandlerDone, HandlerPlaces
<1>6. CASE HandlerFails(d)
  BY <1>6 DEF HandlerFails, HandlerPlaces
<1> QED BY <1>1, <1>2, <1>3, <1>4, <1>5, <1>6 DEF Handling

LEMMA GateTypes ==
  ASSUME NativeAssumption, TypeOK
  PROVE  /\ \A d \in Dials : GateChecks(d) \/ SignalsLost(d) => TypeOK'
         /\ \A c \in Connections : Enqueue(c) => TypeOK'
<1> USE EndTypes DEF TypeOK, nodeVars, rtcVars, dialVars, sigVars, connVars, accVars
<1>1. ASSUME NEW d \in Dials, GateChecks(d) PROVE TypeOK'
  <2>1. conn' \in [Connections -> {"None", "Open", "Closed"}]
    BY <1>1, ShutsTypes DEF GateChecks
  <2>2. PICK place \in {"Admitting", "Refused"} : gate' = [gate EXCEPT ![<<d, "WebRtc">>] = place]
    BY <1>1 DEF GateChecks
  <2> QED BY <1>1, <2>1, <2>2 DEF GateChecks, GatePlaces
<1>2. ASSUME NEW d \in Dials, SignalsLost(d) PROVE TypeOK'
  <2>1. PICK m \in 0..Len(back[d]) - 1 : back' = [back EXCEPT ![d] = SubSeq(@, 1, m)]
    BY <1>2 DEF SignalsLost
  <2>2. SubSeq(back[d], 1, m) \in Seq(Signals)
    <3>1. \A i \in 1..m : back[d][i] \in Signals
      OBVIOUS
    <3> QED BY <3>1, SubSeqProperties
  <2>3. back' \in [Dials -> Seq(Signals)]
    BY <2>1, <2>2
  <2> QED BY <1>2, <2>3 DEF SignalsLost
<1>3. ASSUME NEW c \in Connections, Enqueue(c) PROVE TypeOK'
  <2>1. c[1] \in Dials /\ Acceptor[c[1]] \in Nodes
    BY DEF Connections
  <2>2. CASE Receivable(Acceptor[c[1]])
    <3> DEFINE n == Acceptor[c[1]]
    <3>1. /\ Len(queue[n]) < QueueCapacity /\ queue' = [queue EXCEPT ![n] = Append(queue[n], c)]
          /\ queue[n] \in Seq(Connections)
      BY <1>3, <2>1, <2>2 DEF Enqueue
    <3>2. /\ Append(queue[n], c) \in Seq(Connections)
          /\ Len(Append(queue[n], c)) = Len(queue[n]) + 1 /\ Len(queue[n]) \in Nat
      BY <3>1, AppendProperties
    <3>3. Len(Append(queue[n], c)) <= QueueCapacity
      BY <3>1, <3>2 DEF NativeAssumption
    <3> HIDE DEF n
    <3>4. queue \in [Nodes -> Seq(Connections)] /\ \A m \in Nodes : Len(queue[m]) <= QueueCapacity
      BY DEF TypeOK
    <3>5. queue' \in [Nodes -> Seq(Connections)]
      BY <2>1, <3>1, <3>2, <3>4
    <3>6. \A m \in Nodes : Len(queue'[m]) <= QueueCapacity
      BY <2>1, <3>1, <3>3, <3>4
    <3>7. gate' \in [Connections -> GatePlaces] /\ conn' \in [Connections -> {"None", "Open", "Closed"}]
      BY <1>3, <2>2 DEF Enqueue, GatePlaces
    <3>8. UNCHANGED <<nodeVars, rtcVars, dialVars, sigVars, offered, call>>
      BY <1>3 DEF Enqueue
    <3> QED BY <3>5, <3>6, <3>7, <3>8
  <2>3. CASE ~Receivable(Acceptor[c[1]])
    <3>1. conn' \in [Connections -> {"None", "Open", "Closed"}]
      BY <1>3, <2>3, ShutsTypes DEF Enqueue
    <3>2. gate' \in [Connections -> GatePlaces] /\ UNCHANGED queue
      BY <1>3, <2>3 DEF Enqueue, GatePlaces
    <3>3. UNCHANGED <<nodeVars, rtcVars, dialVars, sigVars, offered, call>>
      BY <1>3 DEF Enqueue
    <3> QED BY <3>1, <3>2, <3>3
  <2> QED BY <2>2, <2>3
<1> QED BY <1>1, <1>2, <1>3

LEMMA ShorterQueue ==
  ASSUME NativeAssumption, TypeOK, NEW n \in Nodes, NEW q \in {queue[n], << >>},
         queue' = [queue EXCEPT ![n] = q]
  PROVE  /\ queue' \in [Nodes -> Seq(Connections)]
         /\ \A m \in Nodes : Len(queue'[m]) <= QueueCapacity
<1>1. q \in Seq(Connections) /\ Len(q) <= QueueCapacity
  <2>1. << >> \in Seq(Connections) /\ Len(<< >>) = 0 /\ 0 <= QueueCapacity
    BY DEF NativeAssumption
  <2>2. CASE q = << >>
    BY <2>1, <2>2
  <2>3. CASE q = queue[n]
    BY <2>3 DEF TypeOK
  <2> QED BY <2>2, <2>3
<1> QED BY <1>1 DEF TypeOK

LEMMA DroppedTypes ==
  ASSUME NativeAssumption, TypeOK, NEW n \in Nodes, NEW held, ReceiverDropped(n, held)
  PROVE  /\ queue' \in [Nodes -> Seq(Connections)]
         /\ \A m \in Nodes : Len(queue'[m]) <= QueueCapacity
         /\ conn' \in [Connections -> {"None", "Open", "Closed"}]
BY ShorterQueue, ShutsTypes DEF ReceiverDropped

LEMMA AcceptTypes ==
  ASSUME NativeAssumption, TypeOK, NEW n \in Nodes,
         Accept(n) \/ Accepting(n) \/ DropAccept(n)
  PROVE  TypeOK'
<1> USE DEF nodeVars, rtcVars, dialVars, sigVars, connVars, accVars, CallEnds
<1>1. CASE Accept(n)
  BY <1>1 DEF Accept, TypeOK
<1>2. CASE AcceptReturns(n)
  <2>1. /\ queue' \in [Nodes -> Seq(Connections)]
        /\ \A m \in Nodes : Len(queue'[m]) <= QueueCapacity
        /\ conn' \in [Connections -> {"None", "Open", "Closed"}]
    <3>1. CASE n \in offered
      <4>1. /\ queue[n] \in Seq(Connections) /\ queue[n] # << >>
            /\ queue' = [queue EXCEPT ![n] = Tail(queue[n])] /\ conn' = conn
        BY <1>2, <3>1 DEF AcceptReturns, TypeOK
      <4>2. /\ Tail(queue[n]) \in Seq(Connections) /\ Len(Tail(queue[n])) = Len(queue[n]) - 1
            /\ Len(queue[n]) \in Nat /\ Len(queue[n]) <= QueueCapacity
        BY <4>1, HeadTailProperties DEF TypeOK
      <4>3. Len(Tail(queue[n])) <= QueueCapacity
        BY <4>2 DEF NativeAssumption
      <4> QED BY <4>1, <4>2, <4>3 DEF TypeOK
    <3>2. CASE n \notin offered
      BY <1>2, <3>2, DroppedTypes DEF AcceptReturns
    <3> QED BY <3>1, <3>2
  <2> QED BY <1>2, <2>1 DEF AcceptReturns, TypeOK
<1>3. CASE AcceptFails(n)
  BY <1>3 DEF AcceptFails, TypeOK
<1>4. CASE DropAccept(n)
  <2>1. /\ queue' \in [Nodes -> Seq(Connections)]
        /\ \A m \in Nodes : Len(queue'[m]) <= QueueCapacity
        /\ conn' \in [Connections -> {"None", "Open", "Closed"}]
    BY <1>4, DroppedTypes DEF DropAccept, TypeOK
  <2> QED BY <1>4, <2>1 DEF DropAccept, TypeOK
<1> QED BY <1>1, <1>2, <1>3, <1>4 DEF Accepting

LEMMA CloseTypes ==
  ASSUME NativeAssumption, TypeOK, NEW n \in Nodes, Close(n) \/ Closing(n)
  PROVE  TypeOK'
<1> USE DEF nodeVars, rtcVars, dialVars, sigVars, connVars, accVars
<1>1. CASE Close(n)
  <2>1. /\ queue' \in [Nodes -> Seq(Connections)]
        /\ \A m \in Nodes : Len(queue'[m]) <= QueueCapacity
        /\ conn' \in [Connections -> {"None", "Open", "Closed"}]
    BY <1>1, DroppedTypes DEF Close, TypeOK
  <2>2. routes' \in [Nodes -> Seq(Dials)]
    <3>1. << >> \in Seq(Dials)
      OBVIOUS
    <3> QED BY <1>1, <3>1 DEF Close, TypeOK
  <2> QED BY <1>1, <2>1, <2>2 DEF Close, TypeOK
<1>2. CASE RoutersShutDown(n)
  <2>1. \A d \in Dials : handler'[d] \in HandlerPlaces
    BY <1>2 DEF RoutersShutDown, TypeOK, HandlerPlaces
  <2>2. \A c \in Connections : gate'[c] \in GatePlaces
    BY <1>2 DEF RoutersShutDown, TypeOK, GatePlaces
  <2>3. /\ handler' \in [Dials -> HandlerPlaces] /\ gate' \in [Connections -> GatePlaces]
        /\ conn' \in [Connections -> {"None", "Open", "Closed"}]
    BY <1>2, <2>1, <2>2, ShutsTypes DEF RoutersShutDown
  <2> QED BY <1>2, <2>3 DEF RoutersShutDown, TypeOK
<1>3. CASE EndpointsClose(n)
  BY <1>3, ShutsTypes DEF EndpointsClose, TypeOK
<1>4. CASE CloseReturns(n)
  BY <1>4 DEF CloseReturns, TypeOK
<1>5. ASSUME NEW d \in Dials, SessionCloses(n, d) PROVE TypeOK'
  BY <1>5 DEF SessionCloses, TypeOK
<1> QED BY <1>1, <1>2, <1>3, <1>4, <1>5 DEF Closing

LEMMA TypeStep ==
  ASSUME NativeAssumption, IntentAssumption, TypeOK, [Next]_vars
  PROVE  TypeOK'
<1> USE DEF nodeVars, rtcVars, dialVars, sigVars, connVars, accVars
<1>1. ASSUME NEW d \in Dials, NEW i \in DialIntents[d], StartDial(d, i) PROVE TypeOK'
  <2>1. i \in Intents
    BY DEF IntentAssumption
  <2> QED BY <1>1, <2>1 DEF StartDial, TypeOK, DialPlaces
<1>2. ASSUME NEW e \in Ends, GatheringEnds(e[1], e[2]) PROVE TypeOK'
  <2>1. e[1] \in Nodes /\ e[2] \in Dials
    BY DEF Ends
  <2>2. /\ Append(out[e[2]], "End") \in Seq(Signals) /\ Append(back[e[2]], "End") \in Seq(Signals)
    BY <2>1 DEF TypeOK, Signals
  <2>3. out' \in [Dials -> Seq(Signals)] /\ back' \in [Dials -> Seq(Signals)]
    <3>1. CASE ~Linked(e[2])
      BY <1>2, <3>1 DEF GatheringEnds, TypeOK
    <3>2. CASE Linked(e[2]) /\ e[1] = Dialer[e[2]]
      <4>1. out' = [out EXCEPT ![e[2]] = Append(out[e[2]], "End")] /\ back' = back
        BY <1>2, <3>2 DEF GatheringEnds
      <4> QED BY <2>1, <2>2, <4>1 DEF TypeOK
    <3>3. CASE Linked(e[2]) /\ e[1] # Dialer[e[2]]
      <4>1. back' = [back EXCEPT ![e[2]] = Append(back[e[2]], "End")] /\ out' = out
        BY <1>2, <3>3 DEF GatheringEnds
      <4> QED BY <2>1, <2>2, <4>1 DEF TypeOK
    <3> QED BY <3>1, <3>2, <3>3
  <2> QED BY <1>2, <2>1, <2>3 DEF GatheringEnds, TypeOK
<1>3. ASSUME NEW n \in Nodes, Accept(n) \/ Accepting(n) \/ DropAccept(n) PROVE TypeOK'
  BY <1>3, AcceptTypes
<1>4. ASSUME NEW n \in Nodes, Close(n) \/ Closing(n) PROVE TypeOK'
  BY <1>4, CloseTypes
<1>5. ASSUME UNCHANGED vars PROVE TypeOK'
  BY <1>5 DEF vars, TypeOK
<1>6. Dialled \subseteq Nodes /\ Closers \subseteq Nodes
  BY DEF Dialled, NativeAssumption
<1> QED BY <1>1, <1>2, <1>3, <1>4, <1>5, <1>6, DialingTypes, HandlingTypes, GateTypes DEF Next

-----------------------------------------------------------------------------
(* Sessions and the close of their node *)

TracksOrRoutes(d) ==
  OffererTracked(d) \/ OffererRouted(d) \/ AnswererTracked(d) \/ AnswererRouted(d)

LEMMA NodeSteps ==
  ASSUME [Next]_vars
  PROVE  \/ UNCHANGED <<node, routes, tracked, taken, session>>
         \/ \E d \in Dials : TracksOrRoutes(d)
         \/ \E n \in Nodes : Closing(n)
         \/ \E n \in Closers : Close(n)
<1> DEFINE Keeps == UNCHANGED <<node, routes, tracked, taken, session>>
<1> USE DEF nodeVars, rtcVars
<1>1. ASSUME NEW d \in Dials, Dialing(d) PROVE Keeps \/ TracksOrRoutes(d)
  BY <1>1 DEF Dialing, TracksOrRoutes, BootstrapOpens, DialerReceives, DialerGathered, WebRtcFails,
              ConnectOpens, DialerChecks, RelayConnects, RelayFails
<1>2. ASSUME NEW d \in Dials, Handling(d) PROVE Keeps \/ TracksOrRoutes(d)
  BY <1>2 DEF Handling, TracksOrRoutes, OfferAnswered, EndReceived, HandlerDone, HandlerFails
<1>3. ASSUME NEW d \in Dials,
             (\E i \in DialIntents[d] : StartDial(d, i)) \/ SignalsLost(d) \/ GateChecks(d)
      PROVE  Keeps
  BY <1>3 DEF StartDial, SignalsLost, GateChecks
<1>4. ASSUME NEW n, Accept(n) \/ Accepting(n) \/ DropAccept(n) PROVE Keeps
  BY <1>4 DEF Accept, Accepting, AcceptReturns, AcceptFails, DropAccept, CallEnds
<1>5. ASSUME NEW e \in Ends, GatheringEnds(e[1], e[2]) PROVE Keeps
  BY <1>5 DEF GatheringEnds
<1>6. ASSUME NEW c \in Connections, Enqueue(c) PROVE Keeps
  BY <1>6 DEF Enqueue
<1>7. UNCHANGED vars => Keeps
  BY DEF vars
<1> HIDE DEF Keeps
<1>8. Next => \/ Keeps
              \/ \E d \in Dials : TracksOrRoutes(d)
              \/ \E n \in Nodes : Closing(n)
              \/ \E n \in Closers : Close(n)
  BY <1>1, <1>2, <1>3, <1>4, <1>5, <1>6 DEF Next
<1> QED BY <1>7, <1>8 DEF Keeps

LEMMA SessionStep ==
  ASSUME NativeAssumption, TypeOK, SessionsAreKept, CloseEmpties, [Next]_vars
  PROVE  SessionsAreKept' /\ CloseEmpties'
<1> USE DEF SessionsAreKept, CloseEmpties, Closed
<1>1. CASE UNCHANGED <<node, routes, tracked, taken, session>>
  BY <1>1
<1>2. ASSUME NEW n \in Nodes, NEW d \in Dials, Track(n, d), UNCHANGED <<node, routes, taken>>
      PROVE  SessionsAreKept' /\ CloseEmpties'
  <2>1. node[n] = "Open"
    BY <1>2 DEF Track
  <2>2. SessionsAreKept'
    <3> SUFFICES ASSUME NEW m \in Nodes, NEW e \in Dials, <<m, e>> \in Ends,
                        session'[<<m, e>>] = "Up"
                 PROVE  e \in tracked'[m] \cup taken'[m]
      OBVIOUS
    <3>1. CASE m = n /\ e = d
      BY <1>2, <3>1 DEF Track, TypeOK
    <3>2. CASE <<m, e>> # <<n, d>>
      <4>1. session'[<<m, e>>] = session[<<m, e>>] /\ tracked[m] \subseteq tracked'[m]
        BY <1>2, <3>2 DEF Track, TypeOK
      <4> QED BY <1>2, <4>1
    <3> QED BY <3>1, <3>2
  <2>3. CloseEmpties'
    BY <1>2, <2>1 DEF Track, TypeOK
  <2> QED BY <2>2, <2>3
<1>3. ASSUME NEW n \in Nodes, NEW d \in Dials, TrackRoute(n, d), UNCHANGED <<node, tracked, taken, session>>
      PROVE  SessionsAreKept' /\ CloseEmpties'
  BY <1>3 DEF TrackRoute, TypeOK
<1>4. ASSUME NEW d \in Dials, TracksOrRoutes(d) PROVE SessionsAreKept' /\ CloseEmpties'
  BY <1>2, <1>3, <1>4, EndTypes
     DEF TracksOrRoutes, OffererTracked, OffererRouted, AnswererTracked, AnswererRouted, rtcVars
<1>5. ASSUME NEW n \in Nodes, Close(n) PROVE SessionsAreKept' /\ CloseEmpties'
  <2>1. /\ node[n] = "Open" /\ node' = [node EXCEPT ![n] = "Closing"]
        /\ taken' = [taken EXCEPT ![n] = tracked[n]]
        /\ tracked' = [tracked EXCEPT ![n] = {}] /\ routes' = [routes EXCEPT ![n] = << >>]
        /\ session' = session
    BY <1>5 DEF Close, rtcVars
  <2>2. CloseEmpties'
    BY <2>1 DEF TypeOK
  <2>3. SessionsAreKept'
    <3> SUFFICES ASSUME NEW m \in Nodes, NEW e \in Dials, <<m, e>> \in Ends,
                        session'[<<m, e>>] = "Up"
                 PROVE  e \in tracked'[m] \cup taken'[m]
      OBVIOUS
    <3>1. e \in tracked[m] \cup taken[m]
      BY <2>1
    <3>2. CASE m = n
      <4>1. taken[n] = {}
        BY <2>1, <3>2
      <4> QED BY <2>1, <3>1, <3>2, <4>1 DEF TypeOK
    <3>3. CASE m # n
      BY <2>1, <3>1, <3>3 DEF TypeOK
    <3> QED BY <3>2, <3>3
  <2> QED BY <2>2, <2>3
<1>6. ASSUME NEW n \in Nodes, Closing(n) PROVE SessionsAreKept' /\ CloseEmpties'
  <2>1. CASE RoutersShutDown(n) \/ EndpointsClose(n) \/ CloseReturns(n)
    <3>1. UNCHANGED <<routes, tracked, taken, session>>
      BY <2>1 DEF RoutersShutDown, EndpointsClose, CloseReturns, rtcVars
    <3>2. PICK place \in {"Unrouted", "Disconnected", "Closed"} :
            /\ node' = [node EXCEPT ![n] = place] /\ node[n] # "Open"
            /\ place = "Closed" => taken[n] = {}
      BY <2>1 DEF RoutersShutDown, EndpointsClose, CloseReturns
    <3> QED BY <3>1, <3>2 DEF TypeOK
  <2>2. ASSUME NEW d \in Dials, SessionCloses(n, d) PROVE SessionsAreKept' /\ CloseEmpties'
    <3>1. /\ node[n] = "Disconnected" /\ taken' = [taken EXCEPT ![n] = taken[n] \ {d}]
          /\ session' = [session EXCEPT ![<<n, d>>] = "Closed"]
          /\ UNCHANGED <<node, routes, tracked>>
      BY <2>2 DEF SessionCloses
    <3>2. CloseEmpties'
      BY <3>1 DEF TypeOK
    <3>3. SessionsAreKept'
      <4> SUFFICES ASSUME NEW m \in Nodes, NEW e \in Dials, <<m, e>> \in Ends,
                          session'[<<m, e>>] = "Up"
                   PROVE  e \in tracked'[m] \cup taken'[m]
        OBVIOUS
      <4>1. session[<<m, e>>] = "Up" /\ <<m, e>> # <<n, d>>
        BY <3>1 DEF TypeOK
      <4> QED BY <3>1, <4>1 DEF TypeOK
    <3> QED BY <3>2, <3>3
  <2> QED BY <1>6, <2>1, <2>2 DEF Closing
<1> QED BY <1>1, <1>4, <1>5, <1>6, NodeSteps DEF NativeAssumption

-----------------------------------------------------------------------------
(* The connections of a dial and the gate *)

LEMMA ConnSteps ==
  ASSUME NativeAssumption, TypeOK, [Next]_vars
  PROVE  \/ dial' = dial /\ \A c \in Connections : conn'[c] = "Open" => conn[c] = "Open"
         \/ \E d \in Dials : Dialing(d) \/ \E i \in DialIntents[d] : StartDial(d, i)
<1> DEFINE Keeps == dial' = dial /\ \A c \in Connections : conn'[c] = "Open" => conn[c] = "Open"
<1> USE DEF dialVars, connVars
<1>1. ASSUME dial' = dial, UNCHANGED conn PROVE Keeps
  BY <1>1
<1>2. ASSUME dial' = dial, NEW cs, Shuts(cs) PROVE Keeps
  BY <1>2, ShutsTypes
<1> HIDE DEF Keeps
<1>3. ASSUME NEW d \in Dials, Handling(d) \/ SignalsLost(d) PROVE Keeps
  BY <1>1, <1>3 DEF Handling, AnswererTracked, AnswererRouted, OfferAnswered, EndReceived,
                    HandlerDone, HandlerFails, SignalsLost
<1>4. ASSUME NEW d \in Dials, GateChecks(d) PROVE Keeps
  BY <1>1, <1>2, <1>4 DEF GateChecks
<1>5. ASSUME NEW c \in Connections, Enqueue(c) PROVE Keeps
  BY <1>1, <1>2, <1>5 DEF Enqueue
<1>6. ASSUME NEW n, Accept(n) \/ Accepting(n) \/ DropAccept(n) PROVE Keeps
  <2>1. dial' = dial
    BY <1>6 DEF Accept, Accepting, AcceptReturns, AcceptFails, DropAccept, CallEnds
  <2>2. UNCHANGED conn \/ \E cs : Shuts(cs)
    BY <1>6 DEF Accept, Accepting, AcceptReturns, AcceptFails, DropAccept, CallEnds, ReceiverDropped
  <2> QED BY <1>1, <1>2, <2>1, <2>2
<1>7. ASSUME NEW e \in Ends, GatheringEnds(e[1], e[2]) PROVE Keeps
  BY <1>1, <1>7 DEF GatheringEnds
<1>8. ASSUME NEW n \in Nodes, Close(n) \/ Closing(n) PROVE Keeps
  <2>1. dial' = dial
    BY <1>8 DEF Close, Closing, RoutersShutDown, EndpointsClose, CloseReturns, SessionCloses
  <2>2. UNCHANGED conn \/ \E cs : Shuts(cs)
    BY <1>8 DEF Close, Closing, RoutersShutDown, EndpointsClose, CloseReturns, SessionCloses,
                ReceiverDropped
  <2> QED BY <1>1, <1>2, <2>1, <2>2
<1>9. UNCHANGED vars => Keeps
  BY <1>1 DEF vars
<1>10. Next => Keeps \/ \E d \in Dials : Dialing(d) \/ \E i \in DialIntents[d] : StartDial(d, i)
  <2>1. Closers \subseteq Nodes
    BY DEF NativeAssumption
  <2> QED BY <1>3, <1>4, <1>5, <1>6, <1>7, <1>8, <2>1 DEF Next
<1> QED BY <1>9, <1>10 DEF Keeps

(* The dialer opens a connection only from a place where it has none, and goes
   on from the check of its WebRTC connection only once that is closed. *)
LEMMA ConnStep ==
  ASSUME NativeAssumption, TypeOK, OpenIsHeld, [Next]_vars
  PROVE  OpenIsHeld'
<1> USE EndTypes DEF dialVars, connVars
<1>1. CASE dial' = dial /\ \A c \in Connections : conn'[c] = "Open" => conn[c] = "Open"
  BY <1>1 DEF OpenIsHeld
<1>2. ASSUME NEW d \in Dials, NEW place, dial' = [dial EXCEPT ![d] = place],
             \A e \in Dials : e # d =>
               \A kind \in {"WebRtc", "Relay"} :
                 conn'[<<e, kind>>] = "Open" => conn[<<e, kind>>] = "Open",
             conn'[<<d, "WebRtc">>] = "Open" => place \in {"Checking", "Connected"},
             conn'[<<d, "Relay">>] = "Open" => place = "Relayed"
      PROVE  OpenIsHeld'
  <2>1. dial'[d] = place /\ \A e \in Dials : e # d => dial'[e] = dial[e]
    BY <1>2 DEF TypeOK
  <2> QED BY <1>2, <2>1 DEF OpenIsHeld
<1>3. ASSUME NEW d \in Dials, dial[d] \notin {"Checking", "Connected", "Relayed"},
             UNCHANGED conn, NEW place, dial' = [dial EXCEPT ![d] = place]
      PROVE  OpenIsHeld'
  <2>1. conn[<<d, "WebRtc">>] # "Open" /\ conn[<<d, "Relay">>] # "Open"
    BY <1>3 DEF OpenIsHeld
  <2> QED BY <1>2, <1>3, <2>1
<1>4. ASSUME NEW d \in Dials, NEW i \in DialIntents[d], StartDial(d, i) PROVE OpenIsHeld'
  <2>1. dial[d] = "Idle" /\ UNCHANGED conn /\ \E place : dial' = [dial EXCEPT ![d] = place]
    BY <1>4 DEF StartDial
  <2> QED BY <1>3, <2>1
<1>5. ASSUME NEW d \in Dials, OffererTracked(d) \/ OffererRouted(d) \/ BootstrapOpens(d)
                              \/ DialerReceives(d) \/ DialerGathered(d) \/ WebRtcFails(d) \/ RelayFails(d)
      PROVE  OpenIsHeld'
  <2>1. /\ dial[d] \notin {"Checking", "Connected", "Relayed"} /\ UNCHANGED conn
        /\ \E place : dial' = [dial EXCEPT ![d] = place]
    BY <1>5 DEF OffererTracked, OffererRouted, BootstrapOpens, DialerReceives, DialerGathered,
                WebRtcFails, RelayFails, Goes
  <2> QED BY <1>3, <2>1
<1>6. ASSUME NEW d \in Dials, ConnectOpens(d) PROVE OpenIsHeld'
  <2>1. /\ dial[d] = "Connecting" /\ conn' = [conn EXCEPT ![<<d, "WebRtc">>] = "Open"]
        /\ dial' = [dial EXCEPT ![d] = "Checking"]
    BY <1>6 DEF ConnectOpens, Opens, Goes
  <2>2. \A c \in Connections : c # <<d, "WebRtc">> => conn'[c] = conn[c]
    BY <2>1 DEF TypeOK
  <2>3. conn'[<<d, "Relay">>] # "Open"
    BY <2>1, <2>2 DEF OpenIsHeld
  <2>4. \A e \in Dials, kind \in {"WebRtc", "Relay"} :
          e # d => conn'[<<e, kind>>] = conn[<<e, kind>>]
    BY <2>2 DEF Connections
  <2> QED BY <1>2, <2>1, <2>3, <2>4
<1>7. ASSUME NEW d \in Dials, RelayConnects(d) PROVE OpenIsHeld'
  <2>1. /\ dial[d] = "Relaying" /\ conn' = [conn EXCEPT ![<<d, "Relay">>] = "Open"]
        /\ dial' = [dial EXCEPT ![d] = "Relayed"]
    BY <1>7 DEF RelayConnects, Opens, Goes
  <2>2. \A c \in Connections : c # <<d, "Relay">> => conn'[c] = conn[c]
    BY <2>1 DEF TypeOK
  <2>3. conn'[<<d, "WebRtc">>] # "Open"
    BY <2>1, <2>2 DEF OpenIsHeld
  <2>4. \A e \in Dials, kind \in {"WebRtc", "Relay"} :
          e # d => conn'[<<e, kind>>] = conn[<<e, kind>>]
    BY <2>2 DEF Connections
  <2> QED BY <1>2, <2>1, <2>3, <2>4
<1>8. ASSUME NEW d \in Dials, DialerChecks(d) PROVE OpenIsHeld'
  <2>1. dial[d] = "Checking" /\ conn[<<d, "Relay">>] # "Open"
    BY <1>8 DEF DialerChecks, OpenIsHeld
  <2>2. CASE Goes(d, "Connected") /\ UNCHANGED conn
    BY <1>2, <2>1, <2>2 DEF Goes
  <2>3. CASE Goes(d, AfterWebRtcFailure(d)) /\ Shuts({<<d, "WebRtc">>})
    <3>1. /\ \A c \in Connections : conn'[c] = "Open" => conn[c] = "Open"
          /\ conn'[<<d, "WebRtc">>] # "Open"
      BY <2>3, ShutsTypes
    <3>2. conn'[<<d, "Relay">>] # "Open"
      BY <2>1, <3>1
    <3> QED BY <1>2, <2>3, <3>1, <3>2 DEF Goes, Connections
  <2> QED BY <1>8, <2>2, <2>3 DEF DialerChecks
<1> QED BY <1>1, <1>4, <1>5, <1>6, <1>7, <1>8, ConnSteps DEF Dialing

(* What the gate of a closed node can still do to a connection it has before it. *)
LEMMA GateStep ==
  ASSUME NativeAssumption, TypeOK, CloseEmpties, [Next]_vars
  PROVE  \A d \in Dials :
           Closed(Acceptor[d]) /\ gate[<<d, "WebRtc">>] = "Handshaken"
             => gate'[<<d, "WebRtc">>] # "Admitting"
<1> SUFFICES ASSUME NEW d \in Dials, Closed(Acceptor[d]), gate[<<d, "WebRtc">>] = "Handshaken"
             PROVE  gate'[<<d, "WebRtc">>] # "Admitting"
  OBVIOUS
<1> DEFINE Stays == gate'[<<d, "WebRtc">>] # "Admitting"
<1> USE EndTypes DEF TypeOK, connVars
<1>1. ASSUME NEW e \in Dials, Dialing(e) PROVE Stays
  <2>1. CASE RelayConnects(e)
    BY <2>1 DEF RelayConnects
  <2>2. CASE ConnectOpens(e)
    BY <2>2 DEF ConnectOpens
  <2>3. CASE ~RelayConnects(e) /\ ~ConnectOpens(e)
    BY <1>1, <2>3 DEF Dialing, OffererTracked, OffererRouted, BootstrapOpens, DialerReceives,
                      DialerGathered, WebRtcFails, DialerChecks, RelayFails
  <2> QED BY <2>1, <2>2, <2>3
<1>2. ASSUME NEW e \in Dials, Handling(e) \/ SignalsLost(e) \/ \E i \in DialIntents[e] : StartDial(e, i)
      PROVE  Stays
  BY <1>2 DEF Handling, AnswererTracked, AnswererRouted, OfferAnswered, EndReceived, HandlerDone,
              HandlerFails, SignalsLost, StartDial
<1>3. ASSUME NEW e \in Dials, GateChecks(e) PROVE Stays
  <2>1. CASE e = d
    <3>1. routes[Acceptor[d]] = << >> /\ Len(routes[Acceptor[d]]) = 0
      BY DEF CloseEmpties
    <3>2. ~Matches(d)
      BY <3>1 DEF Matches, Named
    <3> QED BY <1>3, <2>1, <3>2 DEF GateChecks
  <2>2. CASE e # d
    <3>1. PICK place : gate' = [gate EXCEPT ![<<e, "WebRtc">>] = place]
      BY <1>3 DEF GateChecks
    <3>2. <<e, "WebRtc">> # <<d, "WebRtc">>
      BY <2>2
    <3>3. gate'[<<d, "WebRtc">>] = gate[<<d, "WebRtc">>]
      BY <3>1, <3>2, Zenon
    <3> QED BY <3>3
  <2> QED BY <2>1, <2>2
<1>4. ASSUME NEW c \in Connections, Enqueue(c) PROVE Stays
  BY <1>4 DEF Enqueue
<1>5. ASSUME NEW n, Accept(n) \/ Accepting(n) \/ DropAccept(n) PROVE Stays
  BY <1>5 DEF Accept, Accepting, AcceptReturns, AcceptFails, DropAccept, CallEnds
<1>6. ASSUME NEW e \in Ends, GatheringEnds(e[1], e[2]) PROVE Stays
  BY <1>6 DEF GatheringEnds
<1>7. ASSUME NEW n \in Nodes, Close(n) \/ Closing(n) PROVE Stays
  <2>1. CASE RoutersShutDown(n)
    BY <2>1 DEF RoutersShutDown
  <2>2. CASE ~RoutersShutDown(n)
    BY <1>7, <2>2 DEF Close, Closing, EndpointsClose, CloseReturns, SessionCloses
  <2> QED BY <2>1, <2>2
<1>8. UNCHANGED vars => Stays
  BY DEF vars
<1> HIDE DEF Stays
<1>9. Next => Stays
  <2>1. Closers \subseteq Nodes
    BY DEF NativeAssumption
  <2> QED BY <1>1, <1>2, <1>3, <1>4, <1>5, <1>6, <1>7, <2>1 DEF Next
<1> QED BY <1>8, <1>9 DEF Stays

-----------------------------------------------------------------------------
(* The theorems *)

LEMMA InvariantHolds ==
  Spec => []IInv
<1>1. Init => IInv
  <2> SUFFICES ASSUME Init PROVE IInv
    OBVIOUS
  <2>1. /\ << >> \in Seq(Dials) /\ << >> \in Seq(Signals) /\ << >> \in Seq(Connections)
        /\ Len(<< >>) <= QueueCapacity
    BY NativeAssumption DEF NativeAssumption
  <2>2. TypeOK
    <3>1. /\ queue \in [Nodes -> Seq(Connections)]
          /\ \A n \in Nodes : Len(queue[n]) <= QueueCapacity
      BY <2>1 DEF Init
    <3> QED BY <2>1, <3>1 DEF Init, TypeOK, DialPlaces, HandlerPlaces, GatePlaces, Intents
  <2>3. SessionsAreKept /\ CloseEmpties
    BY DEF Init, SessionsAreKept, CloseEmpties, Closed
  <2>4. OpenIsHeld
    BY DEF Init, OpenIsHeld, Connections
  <2> QED BY <2>2, <2>3, <2>4 DEF IInv
<1>2. IInv /\ [Next]_vars => IInv'
  BY NativeAssumption, IntentAssumption, TypeStep, SessionStep, ConnStep DEF IInv
<1> QED BY <1>1, <1>2, PTL DEF Spec

(* The state of both nodes, of every dial and of every handler is of its type, and no
   accept queue ever holds more than its capacity. *)
THEOREM NativeTypeCorrect ==
  Spec => []TypeOK
<1>1. IInv => TypeOK
  BY DEF IInv
<1> QED BY <1>1, InvariantHolds, PTL

(* For any nodes and dials: a close that returned has closed every session its node
   ever took into its state, whatever dials and handlers created sessions across it
   (native.rs close, track_session). *)
THEOREM ClosedNodesHaveNoSession ==
  Spec => []ClosedNodeHasNoSession
<1>1. IInv => ClosedNodeHasNoSession
  BY DEF IInv, SessionsAreKept, CloseEmpties, Closed, ClosedNodeHasNoSession
<1> QED BY <1>1, InvariantHolds, PTL

(* For any nodes and dials: of the WebRTC and the relay connection of a dial one at
   most is open, and none once the dial failed, whatever paths either end selected. *)
THEOREM OneConnectionIsLive ==
  Spec => []OneLiveConnectionPerDial
<1>1. IInv => OneLiveConnectionPerDial
  BY DEF IInv, OpenIsHeld, OneLiveConnectionPerDial
<1> QED BY <1>1, InvariantHolds, PTL

(* For any nodes and dials: the gate of a closed node lets no WebRTC connection pass. *)
THEOREM ClosedNodesPromoteNothing ==
  Spec => ClosedNodePromotesNothing
<1>1. IInv /\ [Next]_vars =>
        [\A d \in Dials :
           (Closed(Acceptor[d]) /\ gate[<<d, "WebRtc">>] = "Handshaken")
             => gate'[<<d, "WebRtc">>] # "Admitting"]_vars
  BY NativeAssumption, GateStep DEF IInv
<1> QED BY <1>1, InvariantHolds, PTL DEF Spec, ClosedNodePromotesNothing
=============================================================================
