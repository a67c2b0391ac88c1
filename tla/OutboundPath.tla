----------------------------- MODULE OutboundPath -----------------------------
(***************************************************************************)
(* The send side of the custom transport for one WebRTC session: senders   *)
(* poll the route of the session in the SessionHub (core/sender.rs,        *)
(* core/hub.rs), and the outbound pump of the session moves the packets    *)
(* from the route's bounded channel into the RTCDataChannel, waiting for   *)
(* the channel to open and for its buffer to drain.  This is the pump of   *)
(* the browser (browser_runtime/direct/data_channel.rs), which runs from   *)
(* one await to the next.  A route is registered once, when the handlers   *)
(* of the channel are installed.                                           *)
(***************************************************************************)
EXTENDS Naturals, Sequences

CONSTANTS Senders,          \* tasks that poll the WebRtcSender for this session
          OutboundCapacity, \* outbound_capacity of the hub
          Sizes,            \* sizes of encoded packets
          LowThreshold,     \* buffered_amount_low_threshold
          HighThreshold,    \* buffered_amount_high_threshold
          MaxPackets        \* bound: packets accepted in a run

ASSUME OutboundAssumption ==
  /\ "None" \notin Senders
  /\ OutboundCapacity \in Nat \ {0}
  /\ Sizes \subseteq Nat \ {0}
  /\ LowThreshold \in Nat /\ HighThreshold \in Nat /\ LowThreshold <= HighThreshold

VARIABLES
  route,      \* the hub's entry for the session: "Absent", "Registered", "Removed"
  hubClosed,
  sender,     \* sender -> "Idle", "Polling" (it has a packet), "Waiting"
  stored,     \* pending_waker of the route: a sender or "None"
  queuedFor,  \* the sender whose waker the route's full channel holds, or "None"
  queue,      \* packets in the route's channel
  accepted,   \* packets accepted so far; the id of the last
  pump,       \* the pump task: "None", "Opening" while the channel is not open,
              \* "Receiving", "Draining" while the buffer is full, "Stopped"
  held,       \* the packet the pump holds while it waits: at most one
  buffered,   \* bufferedAmount of the RTCDataChannel
  channel,    \* its readyState
  sent        \* ids of the packets handed to the RTCDataChannel

routeVars == <<route, hubClosed, stored, queuedFor>>
packetVars == <<queue, accepted>>
pumpVars == <<pump, held>>
channelVars == <<buffered, channel, sent>>
vars == <<routeVars, sender, packetVars, pumpVars, channelVars>>

Init ==
  /\ route = "Absent" /\ hubClosed = FALSE
  /\ sender = [s \in Senders |-> "Idle"]
  /\ stored = "None" /\ queuedFor = "None"
  /\ queue = <<>> /\ accepted = 0
  /\ pump = "None" /\ held = <<>>
  /\ buffered = 0 /\ channel \in {"Connecting", "Open"} /\ sent = <<>>

Wake(s) == sender' = [t \in Senders |-> IF t = s /\ sender[t] = "Waiting" THEN "Polling"
                                                                         ELSE sender[t]]

-----------------------------------------------------------------------------
(* The route in the hub *)

(* A closed hub keeps no route: the channel's sending half is dropped at
   once. *)
Register ==
  /\ route = "Absent"
  /\ route' = IF hubClosed THEN "Removed" ELSE "Registered"
  /\ pump' = "Opening"
  /\ UNCHANGED <<hubClosed, stored, queuedFor, sender, packetVars, held, channelVars>>

(* The entry goes with its stored waker, which is woken, and with the waiter
   in its channel, which is not. *)
RemoveRoute ==
  IF route = "Registered"
  THEN /\ route' = "Removed" /\ stored' = "None" /\ queuedFor' = "None"
       /\ Wake(stored)
  ELSE UNCHANGED <<route, stored, queuedFor, sender>>

CloseHub ==
  /\ ~hubClosed
  /\ hubClosed' = TRUE
  /\ RemoveRoute
  /\ UNCHANGED <<packetVars, pumpVars, channelVars>>

-----------------------------------------------------------------------------
(* poll_send *)

OfferPacket(s) ==
  /\ sender[s] = "Idle" /\ accepted < MaxPackets
  /\ sender' = [sender EXCEPT ![s] = "Polling"]
  /\ UNCHANGED <<routeVars, packetVars, pumpVars, channelVars>>

PollRefused(s) ==
  /\ sender[s] = "Polling"
  /\ hubClosed \/ route # "Registered"
  /\ sender' = [sender EXCEPT ![s] = "Idle"]
  /\ UNCHANGED <<routeVars, packetVars, pumpVars, channelVars>>

PollPending(s) ==
  /\ sender[s] = "Polling"
  /\ ~hubClosed /\ route = "Registered" /\ Len(queue) = OutboundCapacity
  /\ sender' = [sender EXCEPT ![s] = "Waiting"]
  /\ stored' = s /\ queuedFor' = s
  /\ UNCHANGED <<route, hubClosed, packetVars, pumpVars, channelVars>>

(* A reservation another sender waits for is used by the one that polls. *)
PollAccepted(s, size) ==
  /\ sender[s] = "Polling" /\ accepted < MaxPackets
  /\ ~hubClosed /\ route = "Registered" /\ Len(queue) < OutboundCapacity
  /\ accepted' = accepted + 1
  /\ queue' = Append(queue, [id |-> accepted + 1, size |-> size])
  /\ sender' = [sender EXCEPT ![s] = "Idle"]
  /\ stored' = "None" /\ queuedFor' = "None"
  /\ UNCHANGED <<route, hubClosed, pumpVars, channelVars>>

-----------------------------------------------------------------------------
(* The pump *)

(* Mutant: the pump ends and leaves the route in the hub. *)
StopRouted ==
  /\ pump' = "Stopped" /\ held' = <<>> /\ queue' = <<>>
  /\ UNCHANGED <<routeVars, sender, hubClosed, accepted>>

(* The pump unregisters the route and drops its end of the channel. *)
StopPump ==
  /\ RemoveRoute
  /\ pump' = "Stopped" /\ held' = <<>> /\ queue' = <<>>
  /\ UNCHANGED <<hubClosed, accepted>>

ChannelGone == channel \in {"Closing", "Closed"}

PumpSeesOpen ==
  /\ pump = "Opening" /\ channel = "Open"
  /\ pump' = "Receiving"
  /\ UNCHANGED <<routeVars, sender, packetVars, held, channelVars>>

(* The channel closed or failed before it opened. *)
PumpSeesClosed ==
  /\ pump = "Opening" /\ ChannelGone
  /\ StopPump
  /\ UNCHANGED channelVars

(* The hub dropped the route and the channel is empty. *)
PumpEnds ==
  /\ pump = "Receiving" /\ queue = <<>> /\ route = "Removed"
  /\ pump' = "Stopped"
  /\ UNCHANGED <<routeVars, sender, packetVars, held, channelVars>>

Transmit(packet) ==
  /\ buffered' = buffered + packet.size
  /\ sent' = Append(sent, packet.id)
  /\ UNCHANGED channel

(* Mutant: nobody is told of the free slot. *)
PopUnwoken ==
  /\ queue' = Tail(queue)
  /\ UNCHANGED <<routeVars, sender, accepted>>

(* A free slot goes to the sender the channel has queued. *)
PopPacket ==
  /\ queue' = Tail(queue)
  /\ queuedFor' = "None"
  /\ Wake(queuedFor)
  /\ UNCHANGED <<route, hubClosed, stored, accepted>>

(* Mutant: only what is buffered already is held against the threshold. *)
DrainIgnoresPacket(packet) == buffered > HighThreshold /\ buffered > LowThreshold

(* The packet would lift the buffer over the high threshold, and the buffer
   is not low either. *)
MustDrain(packet) ==
  buffered + packet.size > HighThreshold /\ buffered > LowThreshold

PumpSends ==
  /\ pump = "Receiving" /\ queue # <<>> /\ channel = "Open" /\ ~MustDrain(queue[1])
  /\ PopPacket
  /\ Transmit(queue[1])
  /\ UNCHANGED pumpVars

PumpHolds ==
  /\ pump = "Receiving" /\ queue # <<>> /\ channel = "Open" /\ MustDrain(queue[1])
  /\ PopPacket
  /\ pump' = "Draining" /\ held' = <<queue[1]>>
  /\ UNCHANGED channelVars

(* Mutant: the packet the pump waited with is not sent after the wait. *)
ResumesWithout ==
  /\ pump = "Draining" /\ channel = "Open" /\ buffered <= LowThreshold
  /\ pump' = "Receiving" /\ held' = <<>>
  /\ UNCHANGED <<channelVars, routeVars, sender, packetVars>>

(* bufferedamountlow. *)
PumpResumes ==
  /\ pump = "Draining" /\ channel = "Open" /\ buffered <= LowThreshold
  /\ pump' = "Receiving" /\ held' = <<>>
  /\ Transmit(held[1])
  /\ UNCHANGED <<routeVars, sender, packetVars>>

(* The channel is closing when a packet is popped, or closes during the
   wait; the packet is lost. *)
PumpStops ==
  /\ pump \in {"Receiving", "Draining"} /\ ChannelGone
  /\ pump = "Receiving" => queue # <<>>
  /\ StopPump
  /\ UNCHANGED channelVars

(* send() throws, or an error event ends the wait for the channel to open or
   to drain.  The failed session closes its peer connection, and the channel
   with it, unless the node was closed before. *)
PumpFails ==
  /\ \/ pump = "Opening" /\ channel = "Connecting"
     \/ pump = "Receiving" /\ channel = "Open" /\ queue # <<>>
     \/ pump = "Draining" /\ channel = "Open"
  /\ StopPump
  /\ channel' \in {channel, "Closed"}
  /\ UNCHANGED <<buffered, sent>>

Pump == PumpSeesOpen \/ PumpSeesClosed \/ PumpEnds \/ PumpSends \/ PumpHolds
          \/ PumpResumes \/ PumpStops

-----------------------------------------------------------------------------
(* The browser's RTCDataChannel *)

ChannelOpens ==
  /\ channel = "Connecting" /\ channel' = "Open"
  /\ UNCHANGED <<routeVars, sender, packetVars, pumpVars, buffered, sent>>

BufferDrains ==
  /\ channel = "Open" /\ buffered > 0
  /\ buffered' = buffered - 1
  /\ UNCHANGED <<routeVars, sender, packetVars, pumpVars, channel, sent>>

ChannelCloses ==
  /\ channel \in {"Connecting", "Open"} /\ channel' = "Closing"
  /\ UNCHANGED <<routeVars, sender, packetVars, pumpVars, buffered, sent>>

(* The close event: the handler, once installed, unregisters the route. *)
CloseEvent ==
  /\ channel = "Closing" /\ channel' = "Closed"
  /\ RemoveRoute
  /\ UNCHANGED <<hubClosed, packetVars, pumpVars, buffered, sent>>

-----------------------------------------------------------------------------

Poll(s) ==
  PollRefused(s) \/ PollPending(s) \/ \E size \in Sizes : PollAccepted(s, size)

-----------------------------------------------------------------------------

(* What the application's connection sends over the session goes into the
   data channel in the order it was accepted, each packet once; nothing is
   overtaken while the pump waits for the buffer, and until the pump stops
   nothing is lost (data_channel.rs pump_outbound_data_channel). *)
NothingLostOrOvertaken ==
  pump # "Stopped" =>
    [i \in 1..accepted |-> i] =
      sent \o [i \in 1..Len(held) |-> held[i].id] \o [i \in 1..Len(queue) |-> queue[i].id]

(* The data channel never buffers more than the high threshold, but for the
   one packet that is larger than the gap between the thresholds. *)
BufferBounded ==
  \A max \in Sizes :
    (\A size \in Sizes : size <= max)
      => buffered <= IF HighThreshold < LowThreshold + max THEN LowThreshold + max
                                                           ELSE HighThreshold

(* A pump that ended leaves no route behind: no sender can queue a packet
   nobody will ever take out. *)
RouteDiesWithPump == pump = "Stopped" => route # "Registered"

(* A sender with a packet gets an answer: accepted or refused, however the
   buffer fills, the channel closes and the hub is closed.  This is so for a
   single sender; a second one replaces the waker the route stores. *)
SenderIsAnswered ==
  \A s \in Senders :
    (sender[s] # "Idle" /\ channel # "Connecting") ~> sender[s] = "Idle"
=============================================================================
