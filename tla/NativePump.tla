------------------------------ MODULE NativePump ------------------------------
(***************************************************************************)
(* The outbound pump of native nodes (native.rs), over the same hub and    *)
(* senders as the pump of the browser: a run has the one or the other.     *)
(* Handlers of the channel run on other threads than the pump, so its      *)
(* checks and waits are steps of their own.  A wait ends with the low      *)
(* event of the channel or with close_notify, which reaches a pump only    *)
(* once it waits.                                                          *)
(***************************************************************************)
EXTENDS OutboundPath

VARIABLES stack,  \* "Browser" or "Native"
          heard   \* the low handler of the current wait was called

pathVars == <<vars, stack, heard>>

NativePlaces == {"Checking", "Measuring", "Arming", "Armed", "Waiting", "Notified", "Sending"}

Packets == [id : Nat, size : Sizes]

TypeOK ==
  /\ route \in {"Absent", "Registered", "Removed"}
  /\ hubClosed \in BOOLEAN
  /\ sender \in [Senders -> {"Idle", "Polling", "Waiting"}]
  /\ stored \in Senders \cup {"None"} /\ queuedFor \in Senders \cup {"None"}
  /\ queue \in Seq(Packets) /\ Len(queue) <= OutboundCapacity
  /\ pump \in {"None", "Opening", "Receiving", "Draining", "Stopped"} \cup NativePlaces
  /\ held \in Seq(Packets)
  /\ Len(held) = IF pump \in {"Draining"} \cup NativePlaces THEN 1 ELSE 0
  /\ channel \in {"Connecting", "Open", "Closing", "Closed"}
  /\ buffered \in Nat /\ accepted \in Nat /\ sent \in Seq(Nat)
  /\ stack \in {"Browser", "Native"} /\ heard \in BOOLEAN

PathInit == Init /\ stack \in {"Browser", "Native"} /\ heard = FALSE

-----------------------------------------------------------------------------
(* pump_outbound_frames *)

Goes(from, to) ==
  /\ pump = from /\ pump' = to
  /\ UNCHANGED <<routeVars, sender, packetVars, held, channelVars, stack, heard>>

(* on_open, or the check of a channel that is open already.  The task may
   start when the channel is closed again. *)
NativeStarts == channel # "Connecting" /\ Goes("Opening", "Receiving")

NativeReceives ==
  /\ pump = "Receiving" /\ queue # <<>>
  /\ IF channel = "Open"
     THEN PopPacket /\ pump' = "Checking" /\ held' = <<queue[1]>>
     ELSE StopPump
  /\ UNCHANGED <<channelVars, stack, heard>>

NativeChecks ==
  \/ pump = "Checking" /\ buffered + held[1].size > HighThreshold /\ Goes("Checking", "Measuring")
  \/ pump = "Checking" /\ buffered + held[1].size <= HighThreshold /\ Goes("Checking", "Sending")

NativeMeasures == Goes("Measuring", IF buffered <= LowThreshold THEN "Sending" ELSE "Arming")

(* on_buffered_amount_low with a oneshot of this wait. *)
NativeArms ==
  /\ pump = "Arming" /\ pump' = "Armed"
  /\ heard' = FALSE
  /\ UNCHANGED <<routeVars, sender, packetVars, held, channelVars, stack>>

(* Mutant: the buffer is not asked again after the handler was set. *)
WaitsUnasked == Goes("Armed", "Waiting")

(* A buffer that was low before the handler was set needs no event. *)
NativeWaits ==
  /\ pump = "Armed" /\ pump' = "Waiting"
  /\ heard' = (heard \/ buffered <= LowThreshold)
  /\ UNCHANGED <<routeVars, sender, packetVars, held, channelVars, stack>>

NativeHears == heard /\ \E from \in {"Waiting", "Notified"} : Goes(from, "Sending")

NativeSends ==
  /\ pump = "Sending" /\ channel = "Open"
  /\ pump' = "Receiving" /\ held' = <<>>
  /\ Transmit(held[1])
  /\ UNCHANGED <<routeVars, sender, packetVars, stack, heard>>

(* close_notify ended the wait, or the channel is gone when the packet is
   sent. *)
NativeStops ==
  /\ pump = "Notified" \/ (pump = "Sending" /\ ChannelGone)
  /\ StopPump
  /\ UNCHANGED <<channelVars, stack, heard>>

(* The channel refuses the packet although it is open. *)
NativeSendFails ==
  /\ pump = "Sending" /\ channel = "Open"
  /\ StopPump
  /\ UNCHANGED <<channelVars, stack, heard>>

NativeEnds == PumpEnds /\ UNCHANGED <<stack, heard>>

NativePumps ==
  \/ NativeStarts \/ NativeReceives \/ NativeChecks \/ NativeMeasures \/ NativeArms
  \/ NativeWaits \/ NativeHears \/ NativeSends \/ NativeStops \/ NativeEnds

-----------------------------------------------------------------------------
(* The RTCDataChannel of the native stack *)

NativeDrains ==
  /\ BufferDrains
  /\ heard' = (heard \/ (pump \in {"Armed", "Waiting", "Notified"}
                           /\ buffered > LowThreshold /\ buffered' <= LowThreshold))
  /\ UNCHANGED stack

Notified == pump' = IF pump = "Waiting" THEN "Notified" ELSE pump

NativeCloseEvent ==
  /\ channel = "Closing" /\ channel' = "Closed"
  /\ RemoveRoute
  /\ Notified
  /\ UNCHANGED <<hubClosed, packetVars, held, buffered, sent, stack, heard>>

(* on_error stops a pump that waits and nothing else. *)
NativeErrorEvent ==
  /\ channel = "Open" /\ pump = "Waiting"
  /\ Notified
  /\ UNCHANGED <<routeVars, sender, packetVars, held, channelVars, stack, heard>>

-----------------------------------------------------------------------------

Common ==
  /\ Register \/ CloseHub \/ ChannelOpens \/ ChannelCloses \/ \E s \in Senders : OfferPacket(s)
  /\ UNCHANGED <<stack, heard>>

Polls(s) == Poll(s) /\ UNCHANGED <<stack, heard>>

Pumps ==
  \/ stack = "Browser" /\ Pump /\ UNCHANGED <<stack, heard>>
  \/ stack = "Native" /\ NativePumps

Fails ==
  \/ stack = "Browser" /\ PumpFails /\ UNCHANGED <<stack, heard>>
  \/ stack = "Native" /\ (NativeSendFails \/ NativeErrorEvent)

Drains ==
  \/ stack = "Browser" /\ BufferDrains /\ UNCHANGED <<stack, heard>>
  \/ stack = "Native" /\ NativeDrains

Closes ==
  \/ stack = "Browser" /\ CloseEvent /\ UNCHANGED <<stack, heard>>
  \/ stack = "Native" /\ NativeCloseEvent

PathNext ==
  \/ Common \/ (\E s \in Senders : Polls(s))
  \/ Pumps \/ Fails \/ Drains \/ Closes

(* The pump and a woken sender run.  Of the data channel it is assumed that an
   open one transmits what it buffered and that a closing one closes. *)
PathSpec ==
  /\ PathInit
  /\ [][PathNext]_pathVars
  /\ WF_pathVars(Pumps) /\ WF_pathVars(Drains) /\ WF_pathVars(Closes)
  /\ \A s \in Senders : WF_pathVars(Polls(s))
=============================================================================
