----------------------------- MODULE PacketReceive -----------------------------
(***************************************************************************)
(* The receive side of the custom transport: data channel handlers push    *)
(* decoded frames into the bounded queue of the SessionHub (core/hub.rs),  *)
(* and Iroh's receiver polls them out of WebRtcEndpoint::poll_recv         *)
(* (core/endpoint.rs) into buffers of its own, a whole frame or one        *)
(* segment at a time, keeping a frame that did not fit for the next poll.  *)
(* The hub is locked per call, so pushes and the close fall between any    *)
(* two rounds of a poll's loop.                                            *)
(***************************************************************************)
EXTENDS Naturals, Sequences, SequencesExt

CONSTANTS RecvCapacity,   \* recv_capacity of the hub
          Messages,       \* channel messages: length and segment size of the header (0 for
                          \* none), payload bytes held, whether it names this session
          MaxPayloadLen,  \* of the frame configuration
          BufferShapes,   \* what a poll may pass: sequences of buffer lengths
          MaxFrames       \* bound: frames accepted in a run

ASSUME ReceiveAssumption ==
  /\ RecvCapacity \in Nat \ {0}
  /\ MaxPayloadLen \in Nat /\ MaxFrames \in Nat
  /\ Messages \subseteq [len : Nat, seg : Nat, held : Nat, own : BOOLEAN]
  /\ \A shape \in BufferShapes : Len(shape) > 0

VARIABLES recv,        \* frames the hub holds
          accepted,    \* number of frames accepted so far; the id of the last
          rest,        \* the endpoint's pending packet: at most one [frame, offset]
          hubClosed,
          waker,       \* the hub holds the reader's waker
          reader,      \* Iroh's receive task
          bufs,        \* buffers of the poll in progress
          count,       \* buffers it filled
          delivered    \* datagrams handed to Iroh

hubVars == <<recv, accepted, hubClosed, waker>>
pollVars == <<bufs, count>>
vars == <<hubVars, rest, reader, pollVars, delivered>>

(* WebRtcPacketFrame::decode, of what carries the magic and the version. *)
Decodes(m) ==
  /\ m.seg < m.len
  /\ m.held = m.len
  /\ m.len \in 1..MaxPayloadLen

Frames == {m \in Messages : Decodes(m) /\ m.own}

(* A frame with a segment size stands for several datagrams. *)
Stride(f) == IF f.seg = 0 THEN f.len ELSE f.seg
Pieces(f) == (f.len + Stride(f) - 1) \div Stride(f)
DatagramsFrom(f, offset) ==
  LET first == offset \div Stride(f)
  IN [i \in 1..Pieces(f) - first |-> [frame |-> f.id, piece |-> first + i]]

TypeOK ==
  /\ Len(recv) <= RecvCapacity
  /\ \A i \in 1..Len(recv) : recv[i].id \in 1..accepted
  /\ Len(rest) <= 1
  /\ \A i \in 1..Len(rest) : rest[i].offset \in 0..rest[i].frame.len - 1
  /\ waker \in BOOLEAN /\ hubClosed \in BOOLEAN
  /\ reader \in {"Ready", "Polling", "Waiting"}
  /\ count \in 0..Len(bufs)

Init ==
  /\ recv = <<>> /\ accepted = 0 /\ rest = <<>>
  /\ hubClosed = FALSE /\ waker = FALSE
  /\ reader = "Ready" /\ bufs = <<>> /\ count = 0
  /\ delivered = <<>>

-----------------------------------------------------------------------------
(* The hub *)

(* The stored waker is taken and woken; a reader that is not waiting takes
   no notice. *)
WakeReader ==
  /\ waker' = FALSE
  /\ reader' = IF waker /\ reader = "Waiting" THEN "Ready" ELSE reader

(* Mutant: the reader is not woken. *)
PushUnwoken(shape) ==
  /\ ~hubClosed /\ Len(recv) < RecvCapacity /\ accepted < MaxFrames
  /\ accepted' = accepted + 1
  /\ recv' = Append(recv, [id |-> accepted + 1, len |-> shape.len, seg |-> shape.seg])
  /\ UNCHANGED <<waker, reader, hubClosed, rest, pollVars, delivered>>

(* A frame for a closed hub or a full queue is dropped. *)
PushReceived(shape) ==
  /\ ~hubClosed /\ Len(recv) < RecvCapacity /\ accepted < MaxFrames
  /\ accepted' = accepted + 1
  /\ recv' = Append(recv, [id |-> accepted + 1, len |-> shape.len, seg |-> shape.seg])
  /\ WakeReader
  /\ UNCHANGED <<hubClosed, rest, pollVars, delivered>>

(* onmessage: what does not decode or names another session is dropped. *)
MessageArrives(m) == Decodes(m) /\ m.own /\ PushReceived(m)

CloseHub ==
  /\ ~hubClosed
  /\ hubClosed' = TRUE
  /\ WakeReader
  /\ UNCHANGED <<recv, accepted, rest, pollVars, delivered>>

-----------------------------------------------------------------------------
(* poll_recv *)

StartPoll(shape) ==
  /\ reader = "Ready"
  /\ reader' = "Polling"
  /\ bufs' = shape /\ count' = 0
  /\ UNCHANGED <<hubVars, rest, delivered>>

EndPoll == reader' = "Ready" /\ bufs' = <<>> /\ count' = 0

(* The frame the next round works on, the kept one first. *)
Pending == IF rest # <<>> THEN rest[1] ELSE [frame |-> recv[1], offset |-> 0]
HasPending == rest # <<>> \/ recv # <<>>
TakePending == recv' = IF rest # <<>> THEN recv ELSE Tail(recv)

Room     == bufs[count + 1]
Filling  == reader = "Polling" /\ count < Len(bufs)
Unfilled == Filling /\ HasPending

(* A segmented frame nothing was delivered of goes out whole if it fits. *)
FitsWhole(p) == p.offset = 0 /\ p.frame.seg # 0 /\ p.frame.len <= Room
SegmentLen(p) == IF Stride(p.frame) < p.frame.len - p.offset
                 THEN Stride(p.frame) ELSE p.frame.len - p.offset

BuffersFull ==
  /\ reader = "Polling" /\ count = Len(bufs)
  /\ EndPoll
  /\ UNCHANGED <<hubVars, rest, delivered>>

(* Only a poll that delivered nothing waits.  A closed hub ends the poll,
   with what it delivered or with an error. *)
NothingQueued ==
  /\ Filling /\ ~HasPending
  /\ waker' = IF hubClosed THEN waker ELSE TRUE
  /\ IF hubClosed \/ count > 0
     THEN EndPoll
     ELSE reader' = "Waiting" /\ bufs' = <<>> /\ count' = 0
  /\ UNCHANGED <<recv, accepted, hubClosed, rest, delivered>>

DeliverBatch ==
  /\ Unfilled /\ FitsWhole(Pending)
  /\ TakePending
  /\ rest' = <<>>
  /\ delivered' = delivered \o DatagramsFrom(Pending.frame, 0)
  /\ count' = count + 1
  /\ UNCHANGED <<accepted, hubClosed, waker, reader, bufs>>

(* Mutant: what follows the first segment of a frame is forgotten. *)
DeliverFirstSegment ==
  /\ Unfilled /\ ~FitsWhole(Pending) /\ SegmentLen(Pending) <= Room
  /\ TakePending
  /\ rest' = <<>>
  /\ delivered' = Append(delivered, DatagramsFrom(Pending.frame, Pending.offset)[1])
  /\ count' = count + 1
  /\ UNCHANGED <<accepted, hubClosed, waker, reader, bufs>>

DeliverSegment ==
  LET p == Pending
      end == p.offset + SegmentLen(p)
  IN /\ Unfilled /\ ~FitsWhole(p) /\ SegmentLen(p) <= Room
     /\ TakePending
     /\ rest' = IF end < p.frame.len THEN <<[p EXCEPT !.offset = end]>> ELSE <<>>
     /\ delivered' = Append(delivered, DatagramsFrom(p.frame, p.offset)[1])
     /\ count' = count + 1
     /\ UNCHANGED <<accepted, hubClosed, waker, reader, bufs>>

(* The frame is kept and the poll ends, with an error if it is the first. *)
BufferTooSmall ==
  /\ Unfilled /\ ~FitsWhole(Pending) /\ SegmentLen(Pending) > Room
  /\ TakePending
  /\ rest' = <<Pending>>
  /\ EndPoll
  /\ UNCHANGED <<accepted, hubClosed, waker, delivered>>

Round == BuffersFull \/ NothingQueued \/ DeliverBatch \/ DeliverSegment \/ BufferTooSmall

Next ==
  \/ \E m \in Messages : MessageArrives(m)
  \/ CloseHub
  \/ \E shape \in BufferShapes : StartPoll(shape)
  \/ Round

Spec == Init /\ [][Next]_vars

(* The first buffer holds a segment of any frame. *)
Ample == {shape \in BufferShapes : \A f \in Frames : Stride(f) <= shape[1]}

(* Iroh polls a receiver it was told is ready and runs a poll to its end, and
   its buffers are not too small for ever. *)
FairSpec ==
  /\ Spec
  /\ SF_vars(\E shape \in Ample : StartPoll(shape))
  /\ WF_vars(Round)

-----------------------------------------------------------------------------

Undelivered ==
  (IF rest = <<>> THEN <<>> ELSE DatagramsFrom(rest[1].frame, rest[1].offset))
    \o FlattenSeq([i \in 1..Len(recv) |-> DatagramsFrom(recv[i], 0)])

Fifo == INSTANCE DatagramFifo WITH
  queued <- Undelivered,
  Datagrams <- UNION {{DatagramsFrom([id |-> i, len |-> f.len, seg |-> f.seg], 0)
                         : i \in 1..MaxFrames} : f \in Frames}

(* However frames, buffers, partial polls and the close of the hub interleave,
   Iroh sees every datagram of every accepted frame whole, once and in order;
   the close of the hub loses nothing that was accepted (endpoint.rs
   poll_recv, hub.rs pop_received). *)
DeliversInOrder == Fifo!Spec

(* A receiver that waits is owed a wake-up: its waker is with the hub and
   there is nothing it could have read, in the hub or in the endpoint, nor a
   close it has not heard of. *)
NoLostWakeup ==
  reader = "Waiting" => waker /\ recv = <<>> /\ rest = <<>> /\ ~hubClosed

(* Every datagram of every accepted frame reaches Iroh if its buffers hold a
   segment time and again, whatever smaller buffers it polls with in between,
   also when no further frame follows and after the hub was closed. *)
EverythingIsDelivered ==
  \A i \in 1..MaxFrames :
    accepted >= i ~> \A d \in 1..Len(Undelivered) : Undelivered[d].frame > i
=============================================================================
