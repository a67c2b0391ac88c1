--------------------------- MODULE NativePumpProofs ---------------------------
(***************************************************************************)
(* The send side of one session, over either pump, for any senders,        *)
(* capacity, packet sizes and thresholds.  A step of the path does one of  *)
(* six things to the packets; what the invariants need of the pump's place *)
(* is stated with each.                                                    *)
(***************************************************************************)
EXTENDS NativePump, SequenceTheorems, TLAPS

Shapes ==
  /\ queue \in Seq(Packets) /\ held \in Seq(Packets) /\ sent \in Seq(Nat)
  /\ accepted \in Nat /\ buffered \in Nat

(* NothingLostOrOvertaken, place by place. *)
Numbered ==
  pump # "Stopped" =>
    /\ accepted = Len(sent) + Len(held) + Len(queue)
    /\ \A i \in 1..Len(sent) : sent[i] = i
    /\ \A i \in 1..Len(held) : held[i].id = Len(sent) + i
    /\ \A i \in 1..Len(queue) : queue[i].id = Len(sent) + Len(held) + i

(* There is a pump as soon as there is a route, and no route without one. *)
PumpServesRoute ==
  /\ route \in {"Absent", "Registered", "Removed"}
  /\ route = "Absent" <=> pump = "None"
  /\ pump = "Stopped" => route = "Removed"

Fits(packet) == buffered + packet.size <= HighThreshold \/ buffered <= LowThreshold

(* A packet about to be sent fits, and an event that was heard still counts. *)
Roomy ==
  /\ pump = "Sending" => Fits(held[1])
  /\ heard /\ pump \in {"Armed", "Waiting", "Notified"} => buffered <= LowThreshold

Holding == {"Draining"} \cup NativePlaces
Free    == {"None", "Opening", "Receiving", "Stopped"}

HeldOK ==
  /\ pump \in Holding \cup Free
  /\ Len(held) = IF pump \in Holding THEN 1 ELSE 0

HubOK ==
  /\ hubClosed \in BOOLEAN
  /\ sender \in [Senders -> {"Idle", "Polling", "Waiting"}]
  /\ stored \in Senders \cup {"None"} /\ queuedFor \in Senders \cup {"None"}
  /\ Len(queue) <= OutboundCapacity
  /\ channel \in {"Connecting", "Open", "Closing", "Closed"}
  /\ stack \in {"Browser", "Native"} /\ heard \in BOOLEAN

IInv ==
  HubOK /\ Shapes /\ Numbered /\ PumpServesRoute /\ Roomy /\ HeldOK /\ BufferBounded

-----------------------------------------------------------------------------
(* What a step does to the packets *)

Rests ==
  /\ UNCHANGED <<queue, accepted, held, sent>>
  /\ buffered' \in Nat /\ buffered' <= buffered
  /\ pump = "Stopped" => pump' = "Stopped"
  /\ {pump, pump'} \subseteq Holding \/ {pump, pump'} \subseteq Free

Accepts ==
  /\ \E size \in Sizes : queue' = Append(queue, [id |-> accepted + 1, size |-> size])
  /\ accepted' = accepted + 1
  /\ UNCHANGED <<held, sent, buffered, pump>>

Stops ==
  /\ pump' = "Stopped" /\ queue' = <<>> /\ held' = <<>>
  /\ UNCHANGED <<accepted, sent, buffered>>

Takes ==
  /\ pump = "Receiving" /\ queue # <<>>
  /\ pump' \in {"Draining", "Checking"} /\ held' = <<queue[1]>> /\ queue' = Tail(queue)
  /\ UNCHANGED <<accepted, sent, buffered>>

Passes ==
  /\ pump = "Receiving" /\ queue # <<>> /\ Fits(queue[1])
  /\ pump' = "Receiving" /\ queue' = Tail(queue)
  /\ sent' = Append(sent, queue[1].id) /\ buffered' = buffered + queue[1].size
  /\ UNCHANGED <<accepted, held>>

Sends ==
  /\ pump \in {"Draining", "Sending"} /\ Fits(held[1])
  /\ pump' = "Receiving" /\ held' = <<>>
  /\ sent' = Append(sent, held[1].id) /\ buffered' = buffered + held[1].size
  /\ UNCHANGED <<accepted, queue>>

LEMMA StepKinds ==
  ASSUME OutboundAssumption, IInv, [PathNext]_pathVars
  PROVE  Rests \/ Accepts \/ Stops \/ Takes \/ Passes \/ Sends
<1> USE DEF routeVars, packetVars, pumpVars, channelVars
<1>0. buffered \in Nat /\ pump \in Holding \cup Free
  BY DEF IInv, Shapes, HeldOK
<1> USE DEF Holding, Free, NativePlaces
<1>1. ASSUME Common PROVE Rests
  <2>1. CASE Register
    BY <1>0, <1>1, <2>1 DEF Register, Rests, IInv, PumpServesRoute
  <2>2. CASE CloseHub \/ ChannelOpens \/ ChannelCloses \/ \E s \in Senders : OfferPacket(s)
    BY <1>0, <2>2 DEF CloseHub, ChannelOpens, ChannelCloses, OfferPacket, Rests
  <2> QED BY <1>1, <2>1, <2>2 DEF Common
<1>2. ASSUME NEW s \in Senders, Polls(s) PROVE Rests \/ Accepts
  <2>1. CASE PollRefused(s) \/ PollPending(s)
    BY <1>0, <2>1 DEF PollRefused, PollPending, Rests
  <2>2. CASE \E size \in Sizes : PollAccepted(s, size)
    BY <2>2 DEF PollAccepted, Accepts
  <2> QED BY <1>2, <2>1, <2>2 DEF Polls, Poll
<1>3. ASSUME Pump PROVE Rests \/ Stops \/ Takes \/ Passes \/ Sends
  <2>1. CASE PumpSeesOpen \/ PumpEnds
    BY <1>0, <2>1 DEF PumpSeesOpen, PumpEnds, Rests
  <2>2. CASE PumpSeesClosed \/ PumpStops
    BY <2>2 DEF PumpSeesClosed, PumpStops, StopPump, Stops
  <2>3. CASE PumpSends
    BY <1>0, <2>3 DEF PumpSends, PopPacket, Transmit, MustDrain, Passes, Fits, IInv, Shapes, OutboundAssumption
  <2>4. CASE PumpHolds
    BY <2>4 DEF PumpHolds, PopPacket, Takes
  <2>5. CASE PumpResumes
    BY <2>5 DEF PumpResumes, Transmit, Sends, Fits
  <2> QED BY <1>3, <2>1, <2>2, <2>3, <2>4, <2>5 DEF Pump
<1>4. ASSUME NativePumps PROVE Rests \/ Stops \/ Takes \/ Sends
  <2>1. CASE NativeStarts \/ NativeChecks \/ NativeMeasures \/ NativeHears
    BY <1>0, <2>1 DEF NativeStarts, NativeChecks, NativeMeasures, NativeHears, Goes, Rests
  <2>2. CASE NativeArms \/ NativeWaits
    BY <1>0, <2>2 DEF NativeArms, NativeWaits, Rests
  <2>3. CASE NativeEnds
    BY <1>0, <2>3 DEF NativeEnds, PumpEnds, Rests
  <2>4. CASE NativeReceives
    BY <2>4 DEF NativeReceives, PopPacket, StopPump, Takes, Stops
  <2>5. CASE NativeSends
    BY <2>5 DEF NativeSends, Transmit, Sends, IInv, Roomy
  <2>6. CASE NativeStops
    BY <2>6 DEF NativeStops, StopPump, Stops
  <2> QED BY <1>4, <2>1, <2>2, <2>3, <2>4, <2>5, <2>6 DEF NativePumps
<1>5. ASSUME Fails PROVE Rests \/ Stops
  <2>1. CASE PumpFails \/ NativeSendFails
    BY <2>1 DEF PumpFails, NativeSendFails, StopPump, Stops
  <2>2. CASE NativeErrorEvent
    BY <1>0, <2>2 DEF NativeErrorEvent, Notified, Rests
  <2> QED BY <1>5, <2>1, <2>2 DEF Fails
<1>6. ASSUME Drains PROVE Rests
  BY <1>0, <1>6 DEF Drains, NativeDrains, BufferDrains, Rests
<1>7. ASSUME Closes PROVE Rests
  BY <1>0, <1>7 DEF Closes, CloseEvent, NativeCloseEvent, Notified, Rests
<1>8. ASSUME UNCHANGED pathVars PROVE Rests
  BY <1>0, <1>8 DEF pathVars, vars, Rests
<1> QED BY <1>1, <1>2, <1>3, <1>4, <1>5, <1>6, <1>7, <1>8 DEF PathNext, Pumps

-----------------------------------------------------------------------------
(* The packets *)

LEMMA HeadAndTail ==
  ASSUME NEW S, NEW s \in Seq(S), s # <<>>
  PROVE  /\ Len(s) \in Nat /\ Len(s) >= 1 /\ s[1] \in S
         /\ Tail(s) \in Seq(S) /\ Len(Tail(s)) = Len(s) - 1
         /\ \A i \in 1..Len(Tail(s)) : Tail(s)[i] = s[i + 1] /\ i + 1 \in 1..Len(s)
<1>1. Len(s) \in Nat /\ Len(s) # 0
  BY EmptySeq
<1>2. 1 \in 1..Len(s)
  BY <1>1
<1>3. Tail(s) \in Seq(S) /\ Len(Tail(s)) = Len(s) - 1
      /\ \A i \in 1..Len(Tail(s)) : Tail(s)[i] = s[i + 1]
  BY HeadTailProperties
<1> QED BY <1>1, <1>2, <1>3

LEMMA ShapesStep ==
  ASSUME OutboundAssumption, Shapes, HeldOK,
         Rests \/ Accepts \/ Stops \/ Takes \/ Passes \/ Sends
  PROVE  Shapes' /\ HeldOK'
<1> USE DEF Holding, Free, NativePlaces
<1>0. \A p \in Packets : p.id \in Nat /\ p.size \in Nat
  BY DEF Packets, OutboundAssumption
<1>1. CASE Rests
  BY <1>1 DEF Rests, Shapes, HeldOK
<1>2. CASE Accepts
  <2>1. PICK size \in Sizes : queue' = Append(queue, [id |-> accepted + 1, size |-> size])
    BY <1>2 DEF Accepts
  <2>2. accepted + 1 \in Nat /\ [id |-> accepted + 1, size |-> size] \in Packets
    BY DEF Packets, Shapes
  <2>3. queue' \in Seq(Packets)
    BY <2>1, <2>2, AppendProperties DEF Shapes
  <2> QED BY <1>2, <2>2, <2>3 DEF Accepts, Shapes, HeldOK
<1>3. CASE Stops
  <2>1. queue' \in Seq(Packets) /\ held' \in Seq(Packets) /\ Len(held') = 0
    BY <1>3 DEF Stops
  <2> QED BY <1>3, <2>1 DEF Stops, Shapes, HeldOK
<1>4. CASE Takes
  <2>1. queue \in Seq(Packets) /\ queue # <<>> /\ queue' = Tail(queue) /\ held' = <<queue[1]>>
    BY <1>4 DEF Takes, Shapes
  <2>2. queue[1] \in Packets /\ queue' \in Seq(Packets)
    BY <2>1, HeadAndTail
  <2>3. held' \in Seq(Packets) /\ Len(held') = 1
    BY <2>1, <2>2
  <2> QED BY <1>4, <2>2, <2>3 DEF Takes, Shapes, HeldOK
<1>5. CASE Passes
  <2>1. queue \in Seq(Packets) /\ queue # <<>> /\ queue' = Tail(queue)
    BY <1>5 DEF Passes, Shapes
  <2>2. queue[1] \in Packets /\ queue' \in Seq(Packets)
    BY <2>1, HeadAndTail
  <2>3. queue[1].id \in Nat /\ queue[1].size \in Nat
    BY <1>0, <2>2
  <2>4. sent' \in Seq(Nat) /\ buffered' \in Nat
    BY <1>5, <2>3, AppendProperties DEF Passes, Shapes
  <2> QED BY <1>5, <2>2, <2>4 DEF Passes, Shapes, HeldOK
<1>6. CASE Sends
  <2>1. Len(held) = 1 /\ held[1] \in Packets
    BY <1>6 DEF Sends, Shapes, HeldOK
  <2>2. held[1].id \in Nat /\ held[1].size \in Nat
    BY <1>0, <2>1
  <2>3. sent' \in Seq(Nat) /\ buffered' \in Nat
    BY <1>6, <2>2, AppendProperties DEF Sends, Shapes
  <2>4. held' \in Seq(Packets) /\ Len(held') = 0
    BY <1>6 DEF Sends
  <2> QED BY <1>6, <2>3, <2>4 DEF Sends, Shapes, HeldOK
<1> QED BY <1>1, <1>2, <1>3, <1>4, <1>5, <1>6

LEMMA NumberedStep ==
  ASSUME OutboundAssumption, Shapes, HeldOK, Numbered,
         Rests \/ Accepts \/ Stops \/ Takes \/ Passes \/ Sends
  PROVE  Numbered'
<1>0. /\ Len(queue) \in Nat /\ Len(held) \in Nat /\ Len(sent) \in Nat /\ accepted \in Nat
      /\ queue \in Seq(Packets) /\ held \in Seq(Packets) /\ sent \in Seq(Nat)
      /\ \A p \in Packets : p.id \in Nat
  BY DEF Shapes, Packets
<1>1. CASE Rests
  BY <1>1 DEF Rests, Numbered
<1>2. CASE Accepts
  <2>1. PICK size \in Sizes : queue' = Append(queue, [id |-> accepted + 1, size |-> size])
    BY <1>2 DEF Accepts
  <2> DEFINE packet == [id |-> accepted + 1, size |-> size]
  <2>2. packet \in Packets /\ packet.id = accepted + 1
    BY <1>0 DEF Packets
  <2>3. /\ queue' = Append(queue, packet) /\ accepted' = accepted + 1
        /\ UNCHANGED <<held, sent, pump>>
    BY <1>2, <2>1 DEF Accepts
  <2> HIDE DEF packet
  <2>4. /\ Len(queue') = Len(queue) + 1 /\ queue'[Len(queue) + 1] = packet
        /\ \A i \in 1..Len(queue) : queue'[i] = queue[i]
    BY <1>0, <2>2, <2>3, AppendProperties
  <2>5. ASSUME pump # "Stopped", NEW i \in 1..Len(queue) + 1
        PROVE  queue'[i].id = Len(sent) + Len(held) + i
    <3>1. CASE i \in 1..Len(queue)
      BY <2>4, <2>5, <3>1 DEF Numbered
    <3>2. CASE i = Len(queue) + 1
      BY <1>0, <2>2, <2>4, <2>5, <3>2 DEF Numbered
    <3> QED BY <1>0, <3>1, <3>2
  <2>6. pump # "Stopped" =>
          /\ accepted' = Len(sent) + Len(held) + Len(queue')
          /\ \A i \in 1..Len(queue') : queue'[i].id = Len(sent) + Len(held) + i
    <3>1. pump # "Stopped" => accepted' = Len(sent) + Len(held) + Len(queue')
      BY <1>0, <2>3, <2>4 DEF Numbered
    <3>2. pump # "Stopped" =>
            \A i \in 1..Len(queue') : queue'[i].id = Len(sent) + Len(held) + i
      BY <2>4, <2>5
    <3> QED BY <3>1, <3>2
  <2>7. Len(held') = Len(held) /\ Len(sent') = Len(sent) /\ pump' = pump
    BY <2>3
  <2> QED BY <2>3, <2>6, <2>7 DEF Numbered
<1>3. CASE Stops
  BY <1>3 DEF Stops, Numbered
<1>4. CASE Takes
  <2>1. /\ pump # "Stopped" /\ held = <<>> /\ Len(held) = 0
        /\ queue # <<>> /\ queue' = Tail(queue) /\ held' = <<queue[1]>>
        /\ UNCHANGED <<accepted, sent>>
    BY <1>4 DEF Takes, HeldOK, Holding, NativePlaces, Shapes
  <2>2. /\ Len(queue) >= 1 /\ 1 \in 1..Len(queue) /\ Len(queue') = Len(queue) - 1
        /\ \A i \in 1..Len(queue') : queue'[i] = queue[i + 1] /\ i + 1 \in 1..Len(queue)
    BY <1>0, <2>1, HeadAndTail
  <2>3. Len(held') = 1 /\ held'[1] = queue[1]
    BY <2>1
  <2> QED BY <1>0, <2>1, <2>2, <2>3 DEF Numbered
<1>5. CASE Passes
  <2>1. /\ pump # "Stopped" /\ Len(held) = 0
        /\ queue # <<>> /\ queue' = Tail(queue) /\ sent' = Append(sent, queue[1].id)
        /\ UNCHANGED <<accepted, held>>
    BY <1>5 DEF Passes, HeldOK, Holding, NativePlaces
  <2>2. /\ Len(queue) >= 1 /\ 1 \in 1..Len(queue) /\ Len(queue') = Len(queue) - 1
        /\ queue[1] \in Packets
        /\ \A i \in 1..Len(queue') : queue'[i] = queue[i + 1] /\ i + 1 \in 1..Len(queue)
    BY <1>0, <2>1, HeadAndTail
  <2>3. queue[1].id = Len(sent) + 1
    BY <1>0, <2>1, <2>2 DEF Numbered
  <2>4. /\ Len(sent') = Len(sent) + 1 /\ sent'[Len(sent) + 1] = Len(sent) + 1
        /\ \A i \in 1..Len(sent) : sent'[i] = sent[i]
    BY <1>0, <2>1, <2>3, AppendProperties
  <2>5. \A i \in 1..Len(sent') : sent'[i] = i
    BY <1>0, <2>1, <2>4 DEF Numbered
  <2>6. \A i \in 1..Len(queue') : queue'[i].id = Len(sent') + Len(held') + i
    BY <1>0, <2>1, <2>2, <2>4 DEF Numbered
  <2> QED BY <1>0, <2>1, <2>2, <2>4, <2>5, <2>6 DEF Numbered
<1>6. CASE Sends
  <2>1. /\ pump # "Stopped" /\ Len(held) = 1 /\ 1 \in 1..Len(held)
        /\ held' = <<>> /\ Len(held') = 0 /\ sent' = Append(sent, held[1].id)
        /\ UNCHANGED <<accepted, queue>>
    BY <1>6 DEF Sends, HeldOK, Holding, NativePlaces
  <2>2. held[1].id = Len(sent) + 1
    BY <1>0, <2>1 DEF Numbered
  <2>3. /\ Len(sent') = Len(sent) + 1 /\ sent'[Len(sent) + 1] = Len(sent) + 1
        /\ \A i \in 1..Len(sent) : sent'[i] = sent[i]
    BY <1>0, <2>1, <2>2, AppendProperties
  <2>4. \A i \in 1..Len(sent') : sent'[i] = i
    BY <1>0, <2>1, <2>3 DEF Numbered
  <2>5. \A i \in 1..Len(queue') : queue'[i].id = Len(sent') + Len(held') + i
    BY <1>0, <2>1, <2>3 DEF Numbered
  <2> QED BY <1>0, <2>1, <2>3, <2>4, <2>5 DEF Numbered
<1> QED BY <1>1, <1>2, <1>3, <1>4, <1>5, <1>6

LEMMA BufferStep ==
  ASSUME OutboundAssumption, Shapes, HeldOK, BufferBounded,
         Rests \/ Accepts \/ Stops \/ Takes \/ Passes \/ Sends
  PROVE  BufferBounded'
<1> SUFFICES ASSUME NEW max \in Sizes, \A size \in Sizes : size <= max
             PROVE  buffered' <= IF HighThreshold < LowThreshold + max THEN LowThreshold + max
                                                                       ELSE HighThreshold
  BY DEF BufferBounded
<1>0. /\ buffered <= IF HighThreshold < LowThreshold + max THEN LowThreshold + max
                                                          ELSE HighThreshold
      /\ max \in Nat /\ LowThreshold \in Nat /\ HighThreshold \in Nat /\ buffered \in Nat
  BY DEF BufferBounded, OutboundAssumption, Shapes
<1>1. CASE Rests
  BY <1>0, <1>1 DEF Rests
<1>2. CASE Accepts \/ Stops \/ Takes
  BY <1>0, <1>2 DEF Accepts, Stops, Takes
<1>3. ASSUME NEW p \in Packets, Fits(p), buffered' = buffered + p.size
      PROVE  buffered' <= IF HighThreshold < LowThreshold + max THEN LowThreshold + max
                                                                ELSE HighThreshold
  <2>1. p.size \in Sizes /\ p.size \in Nat /\ p.size <= max
    BY DEF Packets, OutboundAssumption
  <2> QED BY <1>0, <1>3, <2>1 DEF Fits
<1>4. CASE Passes
  <2>1. queue[1] \in Packets
    BY <1>4, HeadAndTail DEF Passes, Shapes
  <2> QED BY <1>3, <1>4, <2>1 DEF Passes
<1>5. CASE Sends
  <2>1. held[1] \in Packets
    BY <1>5 DEF Sends, Shapes, HeldOK, Holding, NativePlaces
  <2> QED BY <1>3, <1>5, <2>1 DEF Sends
<1> QED BY <1>1, <1>2, <1>4, <1>5

-----------------------------------------------------------------------------
(* The pump's place and its route *)

LEMMA StopRemovesRoute ==
  ASSUME PumpServesRoute, pump # "None", StopPump
  PROVE  PumpServesRoute'
<1>1. route \in {"Registered", "Removed"}
  BY DEF PumpServesRoute
<1>2. route' = "Removed" /\ pump' = "Stopped"
  BY <1>1 DEF StopPump, RemoveRoute
<1> QED BY <1>2 DEF PumpServesRoute

LEMMA PlaceStep ==
  ASSUME OutboundAssumption, IInv, [PathNext]_pathVars
  PROVE  PumpServesRoute'
<1> USE DEF routeVars, packetVars, pumpVars, channelVars, IInv, PumpServesRoute
<1>1. ASSUME Common PROVE PumpServesRoute'
  BY <1>1 DEF Common, Register, CloseHub, RemoveRoute, ChannelOpens, ChannelCloses, OfferPacket
<1>2. ASSUME NEW s \in Senders, Polls(s) PROVE PumpServesRoute'
  BY <1>2 DEF Polls, Poll, PollRefused, PollPending, PollAccepted
<1>3. ASSUME Pump PROVE PumpServesRoute'
  <2>1. CASE PumpSeesOpen \/ PumpEnds \/ PumpSends \/ PumpHolds \/ PumpResumes
    BY <2>1 DEF PumpSeesOpen, PumpEnds, PumpSends, PumpHolds, PumpResumes, PopPacket
  <2>2. CASE PumpSeesClosed \/ PumpStops
    <3>1. pump # "None" /\ StopPump
      BY <2>2 DEF PumpSeesClosed, PumpStops
    <3> QED BY <3>1, StopRemovesRoute
  <2> QED BY <1>3, <2>1, <2>2 DEF Pump
<1>4. ASSUME NativePumps PROVE PumpServesRoute'
  <2>1. CASE NativeStarts \/ NativeChecks \/ NativeMeasures \/ NativeHears \/ NativeArms \/ NativeWaits
    BY <2>1 DEF NativeStarts, NativeChecks, NativeMeasures, NativeHears, NativeArms, NativeWaits, Goes
  <2>2. CASE NativeSends \/ NativeEnds
    BY <2>2 DEF NativeSends, NativeEnds, PumpEnds
  <2>3. CASE NativeReceives
    <3>1. CASE channel = "Open"
      BY <2>3, <3>1 DEF NativeReceives, PopPacket
    <3>2. CASE channel # "Open"
      <4>1. pump # "None" /\ StopPump
        BY <2>3, <3>2 DEF NativeReceives
      <4> QED BY <4>1, StopRemovesRoute
    <3> QED BY <3>1, <3>2
  <2>4. CASE NativeStops
    <3>1. pump # "None" /\ StopPump
      BY <2>4 DEF NativeStops
    <3> QED BY <3>1, StopRemovesRoute
  <2> QED BY <1>4, <2>1, <2>2, <2>3, <2>4 DEF NativePumps
<1>5. ASSUME Fails PROVE PumpServesRoute'
  <2>1. CASE PumpFails \/ NativeSendFails
    <3>1. pump # "None" /\ StopPump
      BY <2>1 DEF PumpFails, NativeSendFails
    <3> QED BY <3>1, StopRemovesRoute
  <2>2. CASE NativeErrorEvent
    BY <2>2 DEF NativeErrorEvent, Notified
  <2> QED BY <1>5, <2>1, <2>2 DEF Fails
<1>6. ASSUME Drains PROVE PumpServesRoute'
  BY <1>6 DEF Drains, NativeDrains, BufferDrains
<1>7. ASSUME Closes PROVE PumpServesRoute'
  BY <1>7 DEF Closes, CloseEvent, NativeCloseEvent, Notified, RemoveRoute
<1>8. ASSUME UNCHANGED pathVars PROVE PumpServesRoute'
  BY <1>8 DEF pathVars, vars
<1> QED BY <1>1, <1>2, <1>3, <1>4, <1>5, <1>6, <1>7, <1>8 DEF PathNext, Pumps

LEMMA RoomyStep ==
  ASSUME OutboundAssumption, IInv, [PathNext]_pathVars
  PROVE  Roomy'
<1> USE DEF routeVars, packetVars, pumpVars, channelVars, Roomy, Fits
<1>0. /\ buffered \in Nat /\ LowThreshold \in Nat /\ HighThreshold \in Nat /\ Roomy
      /\ pump = "Sending" => held[1].size \in Nat
  <2>1. pump = "Sending" => held[1] \in Packets
    <3>1. pump = "Sending" => Len(held) = 1
      BY DEF IInv, HeldOK, Holding, NativePlaces
    <3>2. held \in Seq(Packets)
      BY DEF IInv, Shapes
    <3>3. pump = "Sending" => 1 \in 1..Len(held)
      BY <3>1
    <3> QED BY <3>2, <3>3
  <2> QED BY <2>1 DEF IInv, Shapes, Packets, OutboundAssumption
<1>1. ASSUME Common PROVE Roomy'
  BY <1>0, <1>1 DEF Common, Register, CloseHub, ChannelOpens, ChannelCloses, OfferPacket
<1>2. ASSUME NEW s \in Senders, Polls(s) PROVE Roomy'
  BY <1>0, <1>2 DEF Polls, Poll, PollRefused, PollPending, PollAccepted
<1>3. ASSUME Pump PROVE Roomy'
  BY <1>0, <1>3 DEF Pump, PumpSeesOpen, PumpEnds, PumpSeesClosed, PumpStops, PumpSends, PumpHolds,
                    PumpResumes, StopPump
<1>4. ASSUME NativePumps PROVE Roomy'
  <2>1. CASE NativeStarts \/ NativeMeasures \/ NativeHears
    BY <1>0, <2>1 DEF NativeStarts, NativeMeasures, NativeHears, Goes
  <2>2. CASE NativeChecks
    BY <1>0, <2>2 DEF NativeChecks, Goes
  <2>3. CASE NativeArms \/ NativeWaits
    BY <1>0, <2>3 DEF NativeArms, NativeWaits
  <2>4. CASE NativeReceives \/ NativeSends \/ NativeStops \/ NativeEnds
    BY <2>4 DEF NativeReceives, NativeSends, NativeStops, NativeEnds, PumpEnds, StopPump
  <2> QED BY <1>4, <2>1, <2>2, <2>3, <2>4 DEF NativePumps
<1>5. ASSUME Fails PROVE Roomy'
  BY <1>0, <1>5 DEF Fails, PumpFails, NativeSendFails, NativeErrorEvent, StopPump, Notified
<1>6. ASSUME Drains PROVE Roomy'
  <2>1. buffered' = buffered - 1 /\ UNCHANGED <<pump, held>>
    BY <1>6 DEF Drains, NativeDrains, BufferDrains
  <2>2. heard' /\ pump \in {"Armed", "Waiting", "Notified"} =>
          heard \/ buffered' <= LowThreshold
    BY <1>6 DEF Drains, NativeDrains
  <2> QED BY <1>0, <2>1, <2>2
<1>7. ASSUME Closes PROVE Roomy'
  BY <1>0, <1>7 DEF Closes, CloseEvent, NativeCloseEvent, Notified
<1>8. ASSUME UNCHANGED pathVars PROVE Roomy'
  BY <1>0, <1>8 DEF pathVars, vars
<1> QED BY <1>1, <1>2, <1>3, <1>4, <1>5, <1>6, <1>7, <1>8 DEF PathNext, Pumps

-----------------------------------------------------------------------------
(* Types *)

LEMMA WakeType ==
  ASSUME HubOK, NEW s, Wake(s)
  PROVE  sender' \in [Senders -> {"Idle", "Polling", "Waiting"}]
BY DEF HubOK, Wake

LEMMA RemoveRouteType ==
  ASSUME HubOK, RemoveRoute
  PROVE  /\ sender' \in [Senders -> {"Idle", "Polling", "Waiting"}]
         /\ stored' \in Senders \cup {"None"} /\ queuedFor' \in Senders \cup {"None"}
<1>1. CASE route = "Registered"
  BY <1>1, WakeType DEF RemoveRoute
<1>2. CASE route # "Registered"
  BY <1>2 DEF RemoveRoute, HubOK
<1> QED BY <1>1, <1>2

LEMMA StopPumpType ==
  ASSUME OutboundAssumption, HubOK, StopPump,
         channel' \in {"Connecting", "Open", "Closing", "Closed"}, UNCHANGED <<stack, heard>>
  PROVE  HubOK'
<1>1. Len(queue') = 0
  BY DEF StopPump
<1> QED BY <1>1, RemoveRouteType DEF StopPump, HubOK, OutboundAssumption

LEMMA PopPacketType ==
  ASSUME OutboundAssumption, HubOK, Shapes, queue # <<>>, PopPacket, UNCHANGED <<channel, stack, heard>>
  PROVE  HubOK'
<1>1. Len(queue') <= OutboundCapacity
  <2>1. Len(queue') = Len(queue) - 1 /\ Len(queue) \in Nat
    BY HeadAndTail DEF PopPacket, Shapes
  <2> QED BY <2>1 DEF HubOK, OutboundAssumption
<1>2. sender' \in [Senders -> {"Idle", "Polling", "Waiting"}]
  BY WakeType DEF PopPacket
<1> QED BY <1>1, <1>2 DEF PopPacket, HubOK

LEMMA HubStep ==
  ASSUME OutboundAssumption, IInv, [PathNext]_pathVars
  PROVE  HubOK'
<1> USE DEF routeVars, packetVars, pumpVars, channelVars
<1>0. HubOK /\ Shapes
  BY DEF IInv
<1>1. ASSUME Common PROVE HubOK'
  <2>1. CASE CloseHub
    <3>1. RemoveRoute /\ hubClosed' = TRUE /\ UNCHANGED <<queue, channel, stack, heard>>
      BY <1>1, <2>1 DEF Common, CloseHub
    <3> QED BY <1>0, <3>1, RemoveRouteType DEF HubOK
  <2>2. CASE Register \/ ChannelOpens \/ ChannelCloses \/ \E s \in Senders : OfferPacket(s)
    BY <1>0, <1>1, <2>2 DEF Common, Register, ChannelOpens, ChannelCloses, OfferPacket, HubOK
  <2> QED BY <1>1, <2>1, <2>2 DEF Common
<1>2. ASSUME NEW s \in Senders, Polls(s) PROVE HubOK'
  <2>1. CASE PollRefused(s) \/ PollPending(s)
    BY <1>0, <1>2, <2>1 DEF Polls, PollRefused, PollPending, HubOK
  <2>2. ASSUME NEW size \in Sizes, PollAccepted(s, size) PROVE HubOK'
    <3>1. Len(queue') = Len(queue) + 1 /\ Len(queue) \in Nat
      <4>1. [id |-> accepted + 1, size |-> size] \in Packets
        BY <1>0 DEF Packets, Shapes
      <4> QED BY <1>0, <2>2, <4>1, AppendProperties DEF PollAccepted, Shapes
    <3>2. Len(queue') <= OutboundCapacity
      BY <2>2, <3>1 DEF PollAccepted, OutboundAssumption
    <3> QED BY <1>0, <1>2, <2>2, <3>2 DEF Polls, PollAccepted, HubOK
  <2> QED BY <1>2, <2>1, <2>2 DEF Polls, Poll
<1>3. ASSUME Pump, UNCHANGED <<stack, heard>> PROVE HubOK'
  <2>1. CASE PumpSeesOpen \/ PumpEnds \/ PumpResumes
    BY <1>0, <1>3, <2>1 DEF PumpSeesOpen, PumpEnds, PumpResumes, Transmit, HubOK
  <2>2. CASE PumpSends \/ PumpHolds
    <3>1. queue # <<>> /\ PopPacket /\ UNCHANGED channel
      BY <2>2 DEF PumpSends, PumpHolds, Transmit
    <3> QED BY <1>0, <1>3, <3>1, PopPacketType
  <2>3. CASE PumpSeesClosed \/ PumpStops
    <3>1. StopPump /\ UNCHANGED channel
      BY <2>3 DEF PumpSeesClosed, PumpStops
    <3> QED BY <1>0, <1>3, <3>1, StopPumpType DEF HubOK
  <2> QED BY <1>3, <2>1, <2>2, <2>3 DEF Pump
<1>4. ASSUME NativePumps PROVE HubOK'
  <2>1. CASE NativeStarts \/ NativeChecks \/ NativeMeasures \/ NativeHears
    BY <1>0, <2>1 DEF NativeStarts, NativeChecks, NativeMeasures, NativeHears, Goes, HubOK
  <2>2. CASE NativeArms \/ NativeWaits
    BY <1>0, <2>2 DEF NativeArms, NativeWaits, HubOK
  <2>3. CASE NativeReceives
    <3>1. CASE channel = "Open"
      <4>1. queue # <<>> /\ PopPacket /\ UNCHANGED <<channel, stack, heard>>
        BY <2>3, <3>1 DEF NativeReceives
      <4> QED BY <1>0, <4>1, PopPacketType
    <3>2. CASE channel # "Open"
      <4>1. StopPump /\ UNCHANGED <<channel, stack, heard>>
        BY <2>3, <3>2 DEF NativeReceives
      <4> QED BY <1>0, <4>1, StopPumpType DEF HubOK
    <3> QED BY <3>1, <3>2
  <2>4. CASE NativeSends \/ NativeEnds
    BY <1>0, <2>4 DEF NativeSends, NativeEnds, PumpEnds, Transmit, HubOK
  <2>5. CASE NativeStops
    <3>1. StopPump /\ UNCHANGED <<channel, stack, heard>>
      BY <2>5 DEF NativeStops
    <3> QED BY <1>0, <3>1, StopPumpType DEF HubOK
  <2> QED BY <1>4, <2>1, <2>2, <2>3, <2>4, <2>5 DEF NativePumps
<1>5. ASSUME Fails PROVE HubOK'
  <2>1. CASE NativeErrorEvent
    BY <1>0, <2>1 DEF NativeErrorEvent, HubOK
  <2>2. CASE ~NativeErrorEvent
    <3>1. /\ StopPump /\ UNCHANGED <<stack, heard>>
          /\ channel' \in {"Connecting", "Open", "Closing", "Closed"}
      BY <1>0, <1>5, <2>2 DEF Fails, PumpFails, NativeSendFails, HubOK
    <3> QED BY <1>0, <3>1, StopPumpType
  <2> QED BY <2>1, <2>2
<1>6. ASSUME Drains PROVE HubOK'
  <2>1. heard' \in BOOLEAN
    BY <1>0, <1>6 DEF Drains, NativeDrains, HubOK
  <2> QED BY <1>0, <1>6, <2>1 DEF Drains, NativeDrains, BufferDrains, HubOK
<1>7. ASSUME Closes PROVE HubOK'
  <2>1. RemoveRoute /\ channel' = "Closed" /\ UNCHANGED <<hubClosed, queue, stack, heard>>
    BY <1>7 DEF Closes, CloseEvent, NativeCloseEvent
  <2> QED BY <1>0, <2>1, RemoveRouteType DEF HubOK
<1>8. ASSUME UNCHANGED pathVars PROVE HubOK'
  BY <1>0, <1>8 DEF pathVars, vars, HubOK
<1>9. Pumps => HubOK'
  BY <1>3, <1>4 DEF Pumps
<1> QED BY <1>1, <1>2, <1>5, <1>6, <1>7, <1>8, <1>9 DEF PathNext

-----------------------------------------------------------------------------
(* The theorems *)

LEMMA InvariantHolds ==
  PathSpec => []IInv
<1>1. PathInit => IInv
  <2> SUFFICES ASSUME PathInit PROVE IInv
    OBVIOUS
  <2>1. /\ queue = <<>> /\ held = <<>> /\ sent = <<>> /\ accepted = 0 /\ buffered = 0
        /\ Len(queue) = 0 /\ Len(held) = 0 /\ Len(sent) = 0
        /\ pump = "None" /\ route = "Absent" /\ ~heard
    BY DEF PathInit, Init
  <2>2. Shapes /\ PumpServesRoute
    BY <2>1 DEF Shapes, PumpServesRoute
  <2>3. Numbered
    BY <2>1 DEF Numbered
  <2>4. Roomy /\ HeldOK
    BY <2>1 DEF Roomy, HeldOK, Holding, Free, NativePlaces
  <2>5. BufferBounded
    BY <2>1, OutboundAssumption DEF BufferBounded, OutboundAssumption
  <2>6. HubOK
    <3>1. Len(queue) <= OutboundCapacity
      BY <2>1, OutboundAssumption DEF OutboundAssumption
    <3> QED BY <3>1 DEF PathInit, Init, HubOK
  <2> QED BY <2>2, <2>3, <2>4, <2>5, <2>6 DEF IInv
<1>2. IInv /\ [PathNext]_pathVars => IInv'
  <2> SUFFICES ASSUME IInv, [PathNext]_pathVars PROVE IInv'
    OBVIOUS
  <2>1. Rests \/ Accepts \/ Stops \/ Takes \/ Passes \/ Sends
    BY OutboundAssumption, StepKinds
  <2>2. Shapes' /\ HeldOK' /\ Numbered' /\ BufferBounded'
    BY <2>1, OutboundAssumption, ShapesStep, NumberedStep, BufferStep DEF IInv
  <2>3. PumpServesRoute' /\ Roomy' /\ HubOK'
    BY OutboundAssumption, PlaceStep, RoomyStep, HubStep
  <2> QED BY <2>2, <2>3 DEF IInv
<1> QED BY <1>1, <1>2, PTL DEF PathSpec

LEMMA Listing ==
  ASSUME NEW n \in Nat, NEW f \in [1..n -> Nat]
  PROVE  f \in Seq(Nat) /\ Len(f) = n
OBVIOUS

LEMMA Joined ==
  ASSUME NEW s \in Seq(Nat), NEW t \in Seq(Nat),
         \A i \in 1..Len(s) : s[i] = i, \A i \in 1..Len(t) : t[i] = Len(s) + i
  PROVE  /\ s \o t \in Seq(Nat) /\ Len(s \o t) = Len(s) + Len(t)
         /\ \A i \in 1..Len(s \o t) : (s \o t)[i] = i
<1> DEFINE c == s \o t
<1>1. /\ c \in Seq(Nat) /\ Len(c) = Len(s) + Len(t)
      /\ \A i \in 1..Len(s) + Len(t) : c[i] = IF i <= Len(s) THEN s[i] ELSE t[i - Len(s)]
  BY ConcatProperties
<1> HIDE DEF c
<1>2. ASSUME NEW i \in 1..Len(c) PROVE c[i] = i
  <2>1. CASE i <= Len(s)
    <3>1. Len(s) \in Nat /\ i \in 1..Len(s)
      BY <2>1
    <3>2. c[i] = s[i]
      BY <1>1, <2>1
    <3> QED BY <3>1, <3>2
  <2>2. CASE ~(i <= Len(s))
    <3>1. Len(s) \in Nat /\ Len(t) \in Nat
      OBVIOUS
    <3>2. i - Len(s) \in 1..Len(t) /\ c[i] = t[i - Len(s)]
      BY <1>1, <2>2, <3>1
    <3> QED BY <3>1, <3>2
  <2> QED BY <2>1, <2>2
<1> QED BY <1>1, <1>2 DEF c

(* Index by index, what was accepted is what was sent, is held and is queued. *)
LEMMA NumberedIsWhole ==
  ASSUME Shapes, Numbered
  PROVE  NothingLostOrOvertaken
<1> SUFFICES ASSUME pump # "Stopped"
             PROVE  [i \in 1..accepted |-> i] =
                      sent \o [i \in 1..Len(held) |-> held[i].id]
                           \o [i \in 1..Len(queue) |-> queue[i].id]
  BY DEF NothingLostOrOvertaken
<1> DEFINE h == [i \in 1..Len(held) |-> held[i].id]
           q == [i \in 1..Len(queue) |-> queue[i].id]
           all == [i \in 1..accepted |-> i]
<1>1. /\ Len(queue) \in Nat /\ Len(held) \in Nat /\ Len(sent) \in Nat /\ accepted \in Nat
      /\ queue \in Seq(Packets) /\ held \in Seq(Packets) /\ sent \in Seq(Nat)
  BY DEF Shapes
<1>2. /\ h \in Seq(Nat) /\ Len(h) = Len(held) /\ q \in Seq(Nat) /\ Len(q) = Len(queue)
      /\ all \in Seq(Nat) /\ Len(all) = accepted
  <2>1. \A p \in Packets : p.id \in Nat
    BY DEF Packets
  <2>2. /\ \A i \in 1..Len(held) : held[i] \in Packets
        /\ \A i \in 1..Len(queue) : queue[i] \in Packets
    BY <1>1
  <2>3. h \in [1..Len(held) -> Nat] /\ q \in [1..Len(queue) -> Nat]
    BY <2>1, <2>2
  <2>4. all \in [1..accepted -> Nat]
    BY <1>1
  <2> HIDE DEF h, q, all
  <2> QED BY <1>1, <2>3, <2>4, Listing
<1>3. /\ accepted = Len(sent) + Len(h) + Len(q)
      /\ \A i \in 1..Len(sent) : sent[i] = i
      /\ \A i \in 1..Len(h) : h[i] = Len(sent) + i
      /\ \A i \in 1..Len(q) : q[i] = Len(sent) + Len(h) + i
  BY <1>1, <1>2 DEF Numbered
<1>4. \A i \in 1..accepted : all[i] = i
  OBVIOUS
<1> HIDE DEF h, q, all
<1> DEFINE sh == sent \o h
<1>5. /\ sh \in Seq(Nat) /\ Len(sh) = Len(sent) + Len(h)
      /\ \A i \in 1..Len(sh) : sh[i] = i
  BY <1>1, <1>2, <1>3, Joined
<1> HIDE DEF sh
<1>6. /\ sh \o q \in Seq(Nat) /\ Len(sh \o q) = accepted
      /\ \A i \in 1..accepted : (sh \o q)[i] = i
  <2>1. \A i \in 1..Len(q) : q[i] = Len(sh) + i
    BY <1>3, <1>5
  <2>2. /\ sh \o q \in Seq(Nat) /\ Len(sh \o q) = Len(sh) + Len(q)
        /\ \A i \in 1..Len(sh \o q) : (sh \o q)[i] = i
    BY <1>2, <1>5, <2>1, Joined
  <2> QED BY <1>3, <1>5, <2>2
<1>7. all = sh \o q
  BY <1>1, <1>2, <1>4, <1>6, SeqEqual
<1> QED BY <1>7 DEF all, sh, h, q

(* The route, the packets on it and the pump are of their types; the route's
   channel never holds more than its capacity, and the pump holds one packet where
   it waits with one and none elsewhere. *)
THEOREM PathTypeCorrect ==
  PathSpec => []TypeOK
<1>1. IInv => TypeOK
  <2> SUFFICES ASSUME IInv PROVE TypeOK
    OBVIOUS
  <2>1. /\ route \in {"Absent", "Registered", "Removed"} /\ HubOK /\ Shapes /\ HeldOK
    BY DEF IInv, PumpServesRoute
  <2>2. /\ pump \in {"None", "Opening", "Receiving", "Draining", "Stopped"} \cup NativePlaces
        /\ Len(held) = IF pump \in {"Draining"} \cup NativePlaces THEN 1 ELSE 0
    BY <2>1 DEF HeldOK, Holding, Free
  <2> QED BY <2>1, <2>2 DEF HubOK, Shapes, TypeOK
<1> QED BY <1>1, InvariantHolds, PTL

(* Everything a sender was told is accepted is in the data channel, in the pump's
   hand or in the route, in the order it was accepted, until the pump stops
   (data_channel.rs pump_outbound_data_channel, native.rs pump_outbound_frames). *)
THEOREM NothingIsLostOrOvertaken ==
  PathSpec => []NothingLostOrOvertaken
<1>1. IInv => NothingLostOrOvertaken
  BY NumberedIsWhole DEF IInv
<1> QED BY <1>1, InvariantHolds, PTL

(* Whatever the thresholds and the sizes of the packets, the data channel buffers no
   more than the high threshold, or a packet over the low one. *)
THEOREM BufferStaysBounded ==
  PathSpec => []BufferBounded
<1>1. IInv => BufferBounded
  BY DEF IInv
<1> QED BY <1>1, InvariantHolds, PTL

(* A pump that ended has taken its route out of the hub, however it ended. *)
THEOREM RouteEndsWithPump ==
  PathSpec => []RouteDiesWithPump
<1>1. IInv => RouteDiesWithPump
  BY DEF IInv, PumpServesRoute, RouteDiesWithPump
<1> QED BY <1>1, InvariantHolds, PTL
=============================================================================
