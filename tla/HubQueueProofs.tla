----------------------------- MODULE HubQueueProofs -----------------------------
(***************************************************************************)
(* The two queues of core/hub.rs and the tasks that empty them.            *)
(*                                                                         *)
(* The received frames, for any capacity, any messages and any buffers: a  *)
(* receiver that waits is always owed its wake-up, and the datagrams of    *)
(* every accepted frame come out whole, once and in order.                 *)
(*                                                                         *)
(* The local candidates, for any capacity and any number of candidates and *)
(* of terminal decisions: what the dialer applies is in order and nothing  *)
(* of it comes twice.                                                      *)
(***************************************************************************)
EXTENDS PacketReceive, SignalPath, SequenceTheorems, WellFoundedInduction, TLAPS

FrameShapes == [id : Nat, len : Nat \ {0}, seg : Nat]
KeptShapes  == [frame : FrameShapes, offset : Nat]

(* What the kept frame's offset rests on: frames are not empty. *)
FramesOK ==
  /\ recv \in Seq(FrameShapes)
  /\ rest \in Seq(KeptShapes)
  /\ accepted \in Nat /\ count \in Nat

IInv == TypeOK /\ FramesOK /\ NoLostWakeup

-----------------------------------------------------------------------------
(* The frame a round works on *)

LEMMA PendingType ==
  ASSUME ReceiveAssumption, TypeOK, FramesOK, HasPending
  PROVE  /\ Pending \in KeptShapes
         /\ Pending.offset \in 0..Pending.frame.len - 1
<1>1. CASE rest # <<>>
  <2>1. 1 \in 1..Len(rest)
    BY <1>1 DEF FramesOK
  <2>2. Pending = rest[1]
    BY <1>1 DEF Pending
  <2>3. rest[1] \in KeptShapes
    BY <2>1 DEF FramesOK
  <2>4. rest[1].offset \in 0..rest[1].frame.len - 1
    BY <2>1 DEF TypeOK
  <2> QED BY <2>2, <2>3, <2>4
<1>2. CASE rest = <<>>
  <2>1. recv # <<>> /\ 1 \in 1..Len(recv) /\ recv[1] \in FrameShapes
    BY <1>2 DEF HasPending, FramesOK
  <2>2. Pending = [frame |-> recv[1], offset |-> 0]
    BY <1>2 DEF Pending
  <2>3. 0 \in 0..recv[1].len - 1
    BY <2>1 DEF FrameShapes
  <2> QED BY <2>1, <2>2, <2>3 DEF KeptShapes
<1> QED BY <1>1, <1>2

LEMMA TakePendingType ==
  ASSUME ReceiveAssumption, TypeOK, FramesOK, HasPending, TakePending, UNCHANGED accepted
  PROVE  /\ recv' \in Seq(FrameShapes) /\ Len(recv') <= RecvCapacity
         /\ \A i \in 1..Len(recv') : recv'[i].id \in 1..accepted'
<1>1. CASE rest # <<>>
  BY <1>1 DEF TakePending, TypeOK, FramesOK
<1>2. CASE rest = <<>>
  <2>1. recv # <<>> /\ recv' = Tail(recv)
    BY <1>2 DEF HasPending, TakePending
  <2>2. /\ recv' \in Seq(FrameShapes) /\ Len(recv') = Len(recv) - 1
        /\ \A i \in 1..Len(recv') : recv'[i] = recv[i + 1]
    BY <2>1, HeadTailProperties DEF FramesOK
  <2>3. Len(recv) \in Nat /\ \A i \in 1..Len(recv') : i + 1 \in 1..Len(recv)
    BY <2>2 DEF FramesOK
  <2> QED BY <2>2, <2>3 DEF TypeOK, ReceiveAssumption
<1> QED BY <1>1, <1>2

-----------------------------------------------------------------------------
(* The steps *)

LEMMA InvStep ==
  ASSUME ReceiveAssumption, TypeOK, FramesOK, [Next]_vars
  PROVE  TypeOK' /\ FramesOK'
<1> USE DEF pollVars, hubVars
<1>1. ASSUME NEW m \in Messages, MessageArrives(m) PROVE TypeOK' /\ FramesOK'
  <2> DEFINE f == [id |-> accepted + 1, len |-> m.len, seg |-> m.seg]
  <2>1. m.len \in Nat \ {0} /\ m.seg \in Nat /\ accepted \in Nat
    BY <1>1 DEF MessageArrives, Decodes, ReceiveAssumption, FramesOK
  <2>2. /\ Len(recv) < RecvCapacity /\ accepted' = accepted + 1 /\ recv' = Append(recv, f)
        /\ WakeReader /\ UNCHANGED <<hubClosed, rest, bufs, count>>
    BY <1>1 DEF MessageArrives, PushReceived
  <2>3. f \in FrameShapes /\ f.id = accepted + 1
    BY <2>1 DEF FrameShapes
  <2> HIDE DEF f
  <2>4. /\ recv' \in Seq(FrameShapes) /\ Len(recv') = Len(recv) + 1
        /\ \A i \in 1..Len(recv) : recv'[i] = recv[i]
        /\ recv'[Len(recv) + 1] = f /\ Len(recv) \in Nat
    BY <2>2, <2>3, AppendProperties DEF FramesOK
  <2>5. Len(recv') <= RecvCapacity
    BY <2>2, <2>4 DEF ReceiveAssumption
  <2>6. ASSUME NEW i \in 1..Len(recv') PROVE recv'[i].id \in 1..accepted'
    <3>1. CASE i \in 1..Len(recv)
      <4>1. recv'[i] = recv[i] /\ recv[i].id \in 1..accepted
        BY <2>4, <3>1 DEF TypeOK
      <4> QED BY <2>1, <2>2, <4>1
    <3>2. CASE i = Len(recv) + 1
      BY <2>1, <2>2, <2>3, <2>4, <3>2
    <3> QED BY <2>4, <3>1, <3>2
  <2>7. waker' \in BOOLEAN /\ reader' \in {"Ready", "Polling", "Waiting"}
    BY <2>2 DEF WakeReader, TypeOK
  <2>8. FramesOK'
    BY <2>1, <2>2, <2>4 DEF FramesOK
  <2> QED BY <2>2, <2>5, <2>6, <2>7, <2>8 DEF TypeOK
<1>2. ASSUME CloseHub PROVE TypeOK' /\ FramesOK'
  BY <1>2 DEF CloseHub, WakeReader, TypeOK, FramesOK
<1>3. ASSUME NEW shape \in BufferShapes, StartPoll(shape) PROVE TypeOK' /\ FramesOK'
  <2>1. Len(shape) > 0 /\ 0 \in 0..Len(shape)
    BY DEF ReceiveAssumption
  <2> QED BY <1>3, <2>1 DEF StartPoll, TypeOK, FramesOK
<1>4. ASSUME BuffersFull PROVE TypeOK' /\ FramesOK'
  <2>1. Len(bufs') = 0 /\ count' = 0
    BY <1>4 DEF BuffersFull, EndPoll
  <2> QED BY <1>4, <2>1 DEF BuffersFull, EndPoll, TypeOK, FramesOK
<1>5. ASSUME NothingQueued PROVE TypeOK' /\ FramesOK'
  <2>1. Len(bufs') = 0 /\ count' = 0 /\ reader' \in {"Ready", "Waiting"}
    BY <1>5 DEF NothingQueued, EndPoll
  <2>2. waker' \in BOOLEAN
    BY <1>5 DEF NothingQueued, TypeOK
  <2>3. UNCHANGED <<recv, accepted, hubClosed, rest>>
    BY <1>5 DEF NothingQueued
  <2> QED BY <2>1, <2>2, <2>3 DEF TypeOK, FramesOK
<1>6. ASSUME DeliverBatch PROVE TypeOK' /\ FramesOK'
  <2>1. /\ HasPending /\ TakePending /\ rest' = <<>> /\ count' = count + 1
        /\ count < Len(bufs)
        /\ UNCHANGED <<accepted, hubClosed, waker, reader, bufs>>
    BY <1>6 DEF DeliverBatch, Unfilled, Filling
  <2>2. /\ recv' \in Seq(FrameShapes) /\ Len(recv') <= RecvCapacity
        /\ \A i \in 1..Len(recv') : recv'[i].id \in 1..accepted'
    BY <2>1, TakePendingType
  <2>3. count' \in 0..Len(bufs') /\ count' \in Nat
    BY <2>1 DEF TypeOK
  <2>4. Len(rest') = 0 /\ rest' \in Seq(KeptShapes)
    BY <2>1
  <2> QED BY <2>1, <2>2, <2>3, <2>4 DEF TypeOK, FramesOK
<1>7. ASSUME DeliverSegment PROVE TypeOK' /\ FramesOK'
  <2> DEFINE p == Pending
  <2> DEFINE end == p.offset + SegmentLen(p)
  <2>1. /\ HasPending /\ TakePending /\ count' = count + 1 /\ count < Len(bufs)
        /\ rest' = IF end < p.frame.len THEN <<[p EXCEPT !.offset = end]>> ELSE <<>>
        /\ UNCHANGED <<accepted, hubClosed, waker, reader, bufs>>
    BY <1>7 DEF DeliverSegment, Unfilled, Filling
  <2>2. /\ recv' \in Seq(FrameShapes) /\ Len(recv') <= RecvCapacity
        /\ \A i \in 1..Len(recv') : recv'[i].id \in 1..accepted'
    BY <2>1, TakePendingType
  <2>3. count' \in 0..Len(bufs') /\ count' \in Nat
    BY <2>1 DEF TypeOK
  <2>4. /\ p \in KeptShapes
        /\ p.offset \in 0..p.frame.len - 1
    BY <2>1, PendingType
  <2> HIDE DEF p
  <2>5. end \in Nat
    BY <2>4 DEF SegmentLen, Stride, FrameShapes, KeptShapes
  <2> HIDE DEF end
  <2>6. /\ rest' \in Seq(KeptShapes) /\ Len(rest') <= 1
        /\ \A i \in 1..Len(rest') : rest'[i].offset \in 0..rest'[i].frame.len - 1
    <3>1. CASE end < p.frame.len
      <4> DEFINE r == [p EXCEPT !.offset = end]
      <4>1. r \in KeptShapes /\ r.offset \in 0..r.frame.len - 1
        BY <2>4, <2>5, <3>1 DEF FrameShapes, KeptShapes
      <4>2. rest' = <<r>>
        BY <2>1, <3>1
      <4> HIDE DEF r
      <4> QED BY <4>1, <4>2
    <3>2. CASE ~(end < p.frame.len)
      BY <2>1, <3>2
    <3> QED BY <3>1, <3>2
  <2> QED BY <2>1, <2>2, <2>3, <2>6 DEF TypeOK, FramesOK
<1>8. ASSUME BufferTooSmall PROVE TypeOK' /\ FramesOK'
  <2> DEFINE p == Pending
  <2>1. /\ HasPending /\ TakePending /\ bufs' = <<>> /\ count' = 0 /\ reader' = "Ready"
        /\ rest' = <<p>>
        /\ UNCHANGED <<accepted, hubClosed, waker>>
    BY <1>8 DEF BufferTooSmall, Unfilled, Filling, EndPoll
  <2>2. /\ recv' \in Seq(FrameShapes) /\ Len(recv') <= RecvCapacity
        /\ \A i \in 1..Len(recv') : recv'[i].id \in 1..accepted'
    BY <2>1, TakePendingType
  <2>3. /\ p \in KeptShapes
        /\ p.offset \in 0..p.frame.len - 1
    BY <2>1, PendingType
  <2> HIDE DEF p
  <2>4. /\ rest' \in Seq(KeptShapes) /\ Len(rest') <= 1
        /\ \A i \in 1..Len(rest') : rest'[i].offset \in 0..rest'[i].frame.len - 1
    BY <2>1, <2>3
  <2> QED BY <2>1, <2>2, <2>4 DEF TypeOK, FramesOK
<1>9. ASSUME UNCHANGED vars PROVE TypeOK' /\ FramesOK'
  BY <1>9 DEF vars, TypeOK, FramesOK
<1> QED BY <1>1, <1>2, <1>3, <1>4, <1>5, <1>6, <1>7, <1>8, <1>9 DEF Next, Round

(* Who sets the reader waiting has left its waker and found nothing; whatever
   ends that wakes it in the same step. *)
LEMMA WakeupStep ==
  ASSUME TypeOK, NoLostWakeup, [Next]_vars
  PROVE  NoLostWakeup'
<1> USE DEF NoLostWakeup
<1>1. ASSUME NEW m \in Messages, MessageArrives(m) PROVE NoLostWakeup'
  BY <1>1 DEF MessageArrives, PushReceived, WakeReader
<1>2. ASSUME CloseHub PROVE NoLostWakeup'
  BY <1>2 DEF CloseHub, WakeReader
<1>3. ASSUME NEW shape \in BufferShapes, StartPoll(shape) PROVE NoLostWakeup'
  BY <1>3 DEF StartPoll
<1>4. ASSUME BuffersFull PROVE NoLostWakeup'
  BY <1>4 DEF BuffersFull, EndPoll
<1>5. ASSUME NothingQueued PROVE NoLostWakeup'
  BY <1>5 DEF NothingQueued, EndPoll, HasPending
<1>6. ASSUME DeliverBatch \/ DeliverSegment \/ BufferTooSmall PROVE NoLostWakeup'
  BY <1>6 DEF DeliverBatch, DeliverSegment, BufferTooSmall, Unfilled, Filling, EndPoll
<1>7. ASSUME UNCHANGED vars PROVE NoLostWakeup'
  BY <1>7 DEF vars, hubVars
<1> QED BY <1>1, <1>2, <1>3, <1>4, <1>5, <1>6, <1>7 DEF Next, Round

LEMMA InvariantHolds ==
  Spec => []IInv
<1>1. Init => IInv
  <2> SUFFICES ASSUME Init PROVE IInv
    OBVIOUS
  <2>1. /\ recv = <<>> /\ rest = <<>> /\ bufs = <<>> /\ accepted = 0 /\ count = 0
        /\ Len(recv) = 0 /\ Len(rest) = 0 /\ Len(bufs) = 0
    BY DEF Init
  <2>2. TypeOK
    <3>1. (\A i \in 1..Len(recv) : FALSE) /\ (\A i \in 1..Len(rest) : FALSE)
      BY <2>1
    <3>2. Len(recv) <= RecvCapacity /\ Len(rest) <= 1 /\ count \in 0..Len(bufs)
      BY <2>1, ReceiveAssumption DEF ReceiveAssumption
    <3> QED BY <3>1, <3>2 DEF Init, TypeOK
  <2>3. FramesOK /\ NoLostWakeup
    BY <2>1 DEF Init, FramesOK, NoLostWakeup
  <2> QED BY <2>2, <2>3 DEF IInv
<1>2. IInv /\ [Next]_vars => IInv'
  BY ReceiveAssumption, InvStep, WakeupStep DEF IInv
<1> QED BY <1>1, <1>2, PTL DEF Spec

(* The hub never holds more frames than its capacity, and what the endpoint keeps
   of a frame always starts inside it (hub.rs push_received, endpoint.rs poll_recv). *)
THEOREM ReceiveTypeCorrect ==
  Spec => []TypeOK
<1>1. IInv => TypeOK
  BY DEF IInv
<1> QED BY <1>1, InvariantHolds, PTL

(* Whatever frames arrive and whatever buffers Iroh polls with, a receiver that
   waits has its waker with the hub and nothing left to read (endpoint.rs
   poll_recv, hub.rs pop_received). *)
THEOREM NoWakeupIsLost ==
  Spec => []NoLostWakeup
<1>1. IInv => NoLostWakeup
  BY DEF IInv
<1> QED BY <1>1, InvariantHolds, PTL

-----------------------------------------------------------------------------
(* What FlattenSeq makes of a sequence of sequences.  Its definition is a
   recursive function: that there is one, and that it is the one meant, comes
   from the least number for which it would not be. *)

LEMMA LeastNatural ==
  ASSUME NEW T, T \subseteq Nat, T # {}
  PROVE  \E m \in T : \A k \in T : m <= k
<1>0. OpToRel(<, Nat) = {p \in Nat \X Nat : p[1] < p[2]}
  BY Zenon DEF OpToRel
<1> DEFINE R == {p \in Nat \X Nat : p[1] < p[2]}
<1>3. IsWellFoundedOn(R, Nat)
  BY <1>0, NatLessThanWellFounded, Zenon
<1>1. PICK m \in T : \A k \in T : ~(<<k, m>> \in R)
  BY <1>3, WFMin, Zenon
<1>2. m \in Nat
  OBVIOUS
<1>4. ASSUME NEW k \in T PROVE m <= k
  <2>1. k \in Nat /\ ~(<<k, m>> \in R)
    BY <1>1
  <2>2. <<k, m>> \in Nat \X Nat /\ <<k, m>>[1] = k /\ <<k, m>>[2] = m
    BY <1>2, <2>1
  <2>3. ~(k < m)
    BY <2>1, <2>2
  <2> QED
    BY <1>2, <2>1, <2>3
<1> QED
  BY <1>4

(* g holds the concatenations of the first i sequences of s, for i up to n. *)
Concats(g, s, n) ==
  /\ g[1] = s[1]
  /\ \A i \in 2..n : g[i] = g[i - 1] \o s[i]

LEMMA ConcatsGrow ==
  ASSUME NEW D, NEW s \in Seq(Seq(D)), NEW n \in 1..Len(s) - 1,
         NEW g \in [1..n -> Seq(D)], Concats(g, s, n)
  PROVE  \E h \in [1..n + 1 -> Seq(D)] : Concats(h, s, n + 1)
<1> DEFINE h == [i \in 1..n + 1 |-> IF i = n + 1 THEN g[n] \o s[n + 1] ELSE g[i]]
<1>1. n \in Nat \ {0} /\ n \in 1..n /\ n + 1 \in 1..Len(s) /\ n + 1 # n
  OBVIOUS
<1>2. g[n] \in Seq(D) /\ s[n + 1] \in Seq(D)
  BY <1>1
<1>3. g[n] \o s[n + 1] \in Seq(D)
  BY <1>2, ConcatProperties
<1>4. \A i \in 1..n + 1 : i = n + 1 \/ i \in 1..n
  BY <1>1
<1>5. h \in [1..n + 1 -> Seq(D)]
  BY <1>3, <1>4
<1>6. h[n + 1] = g[n] \o s[n + 1] /\ \A i \in 1..n : h[i] = g[i]
  BY <1>1
<1> HIDE DEF h
<1>7. h[1] = s[1]
  BY <1>1, <1>6 DEF Concats
<1>8. ASSUME NEW i \in 2..n + 1 PROVE h[i] = h[i - 1] \o s[i]
  <2>0. i = n + 1 \/ i \in 2..n
    <3>1. n \in Nat
      BY <1>1
    <3>2. i \in Nat /\ 2 <= i /\ i <= n + 1
      BY <3>1
    <3> QED BY <3>1, <3>2
  <2>1. CASE i = n + 1
    <3>1. i - 1 = n
      BY <1>1, <2>1
    <3> QED BY <1>1, <1>6, <2>1, <3>1
  <2>2. CASE i \in 2..n
    <3>1. i \in 1..n /\ i - 1 \in 1..n
      BY <2>2
    <3> QED BY <1>6, <2>2, <3>1 DEF Concats
  <2> QED BY <2>0, <2>1, <2>2
<1>9. Concats(h, s, n + 1)
  BY <1>7, <1>8 DEF Concats
<1> QED BY <1>5, <1>9

LEMMA ConcatsExist ==
  ASSUME NEW D, NEW s \in Seq(Seq(D)), s # <<>>
  PROVE  \E g \in [1..Len(s) -> Seq(D)] : Concats(g, s, Len(s))
<1> DEFINE Ok(n) == \E g \in [1..n -> Seq(D)] : Concats(g, s, n)
           T == {n \in 1..Len(s) : ~Ok(n)}
<1>1. Len(s) \in Nat \ {0} /\ s[1] \in Seq(D)
  OBVIOUS
<1>2. SUFFICES ASSUME T # {} PROVE FALSE
  <2>1. Len(s) \in 1..Len(s)
    BY <1>1
  <2>2. T = {} => Ok(Len(s))
    <3> HIDE DEF Ok
    <3> QED BY <2>1
  <2> QED BY <2>2
<1>3. T \subseteq Nat
  OBVIOUS
<1>4. PICK m \in T : \A k \in T : m <= k
  BY <1>2, <1>3, LeastNatural
<1>5. m # 1
  <2> DEFINE g == [i \in 1..1 |-> s[1]]
  <2>1. g \in [1..1 -> Seq(D)] /\ g[1] = s[1] /\ 2..1 = {}
    BY <1>1
  <2>2. Concats(g, s, 1)
    BY <2>1 DEF Concats
  <2>3. Ok(1)
    BY <2>1, <2>2
  <2> QED BY <2>3
<1>6. m - 1 \in 1..Len(s) - 1 /\ m - 1 \notin T /\ m - 1 \in 1..Len(s) /\ (m - 1) + 1 = m
  <2>1. m \in 1..Len(s)
    OBVIOUS
  <2> HIDE DEF T
  <2>2. m - 1 \in 1..Len(s) - 1 /\ m - 1 \in 1..Len(s) /\ (m - 1) + 1 = m /\ m - 1 < m
    BY <1>1, <1>5, <2>1
  <2> QED BY <1>4, <2>1, <2>2
<1>7. PICK g \in [1..m - 1 -> Seq(D)] : Concats(g, s, m - 1)
  BY <1>6
<1>8. Ok((m - 1) + 1)
  BY <1>6, <1>7, ConcatsGrow
<1> QED BY <1>6, <1>8

SameStart(s, t, n) == \A i \in 1..n : s[i] = t[i]

(* Sequences that start alike have the same first concatenations. *)
LEMMA ConcatsAgree ==
  ASSUME NEW n \in Nat \ {0}, NEW s, NEW t, NEW f, NEW g,
         SameStart(s, t, n), Concats(f, s, n), Concats(g, t, n)
  PROVE  SameStart(f, g, n)
<1> DEFINE T == {i \in 1..n : f[i] # g[i]}
<1>1. SUFFICES ASSUME T # {} PROVE FALSE
  BY DEF SameStart
<1>2. T \subseteq Nat
  OBVIOUS
<1>3. PICK m \in T : \A k \in T : m <= k
  BY <1>1, <1>2, LeastNatural
<1>4. m \in 1..n /\ f[m] # g[m] /\ s[m] = t[m]
  BY DEF SameStart
<1>5. m # 1
  BY <1>4 DEF Concats
<1>6. m - 1 \in 1..n /\ m \in 2..n /\ ~(m <= m - 1)
  BY <1>4, <1>5
<1>7. f[m - 1] = g[m - 1]
  BY <1>3, <1>6
<1> QED BY <1>4, <1>6, <1>7 DEF Concats

LEMMA FlattenConcats ==
  ASSUME NEW D, NEW s \in Seq(Seq(D)), s # <<>>
  PROVE  \E g \in [1..Len(s) -> Seq(D)] :
            Concats(g, s, Len(s)) /\ FlattenSeq(s) = g[Len(s)]
<1> DEFINE Body(h) == [i \in 1..Len(s) |-> IF i = 1 THEN s[i] ELSE h[i - 1] \o s[i]]
<1>1. Len(s) \in Nat \ {0}
  OBVIOUS
<1>2. PICK g \in [1..Len(s) -> Seq(D)] : Concats(g, s, Len(s))
  BY ConcatsExist
<1>3. ASSUME NEW i \in 1..Len(s)
      PROVE  g[i] = IF i = 1 THEN s[i] ELSE g[i - 1] \o s[i]
  <2>1. i = 1 \/ i \in 2..Len(s)
    BY <1>1
  <2>2. i \in 2..Len(s) => i # 1
    OBVIOUS
  <2> HIDE DEF Body
  <2> QED BY <1>2, <2>1, <2>2 DEF Concats
<1>4. g = Body(g)
  BY <1>3
<1>5. \E f : FlattenSeq(s) = f[Len(s)] /\ f = CHOOSE h : h = Body(h)
  BY <1>1 DEF FlattenSeq
<1>6. PICK f : FlattenSeq(s) = f[Len(s)] /\ f = CHOOSE h : h = Body(h)
  BY <1>5
<1> HIDE DEF Body
<1>7. f = Body(f)
  BY <1>4, <1>6, Zenon
<1> USE DEF Body
<1>8. \A i \in 1..Len(s) : f[i] = IF i = 1 THEN s[i] ELSE f[i - 1] \o s[i]
  BY <1>7
<1>9. Concats(f, s, Len(s))
  <2>1. 1 \in 1..Len(s) /\ \A i \in 2..Len(s) : i \in 1..Len(s) /\ i # 1
    BY <1>1
  <2> HIDE DEF Body
  <2> QED BY <1>8, <2>1 DEF Concats
<1>10. \A i \in 1..Len(s) : f[i] = g[i]
  <2>1. SameStart(s, s, Len(s))
    BY DEF SameStart
  <2> HIDE DEF Body
  <2> QED BY <1>1, <1>2, <1>9, <2>1, ConcatsAgree DEF SameStart
<1>11. Len(s) \in 1..Len(s)
  BY <1>1
<1> HIDE DEF Body
<1>12. FlattenSeq(s) = g[Len(s)]
  BY <1>6, <1>10, <1>11
<1> QED BY <1>2, <1>12

ConcatRegroups(D) == \A a, b, c \in Seq(D) : (a \o b) \o c = a \o (b \o c)

LEMMA Regroup == \A D : ConcatRegroups(D)
  BY ConcatAssociative DEF ConcatRegroups

LEMMA FlattenEmpty == FlattenSeq(<<>>) = <<>>
  BY DEF FlattenSeq

LEMMA FlattenAppend ==
  ASSUME NEW D, NEW s \in Seq(Seq(D)), NEW e \in Seq(D)
  PROVE  /\ FlattenSeq(s) \in Seq(D)
         /\ FlattenSeq(Append(s, e)) = FlattenSeq(s) \o e
<1> DEFINE t == Append(s, e)
           n == Len(s)
<1>1. /\ t \in Seq(Seq(D)) /\ Len(t) = n + 1 /\ n \in Nat
      /\ t[n + 1] = e /\ \A i \in 1..n : t[i] = s[i]
  OBVIOUS
<1> HIDE DEF t
<1>2. t # <<>>
  BY <1>1
<1>3. PICK g \in [1..Len(t) -> Seq(D)] : Concats(g, t, Len(t)) /\ FlattenSeq(t) = g[Len(t)]
  BY <1>1, <1>2, FlattenConcats
<1>4. CASE s = <<>>
  <2>1. n = 0 /\ FlattenSeq(t) = t[1] /\ t[1] = e
    BY <1>1, <1>3, <1>4 DEF Concats
  <2>2. FlattenSeq(s) = <<>> /\ <<>> \in Seq(D) /\ <<>> \o e = e
    BY <1>4, FlattenEmpty, ConcatEmptySeq
  <2> QED BY <2>1, <2>2 DEF t
<1>5. CASE s # <<>>
  <2>1. PICK h \in [1..n -> Seq(D)] : Concats(h, s, n) /\ FlattenSeq(s) = h[n]
    BY <1>5, FlattenConcats
  <2>2. n \in Nat \ {0} /\ n \in 1..n /\ (n + 1) - 1 = n
    BY <1>1, <1>5
  <2> HIDE DEF n
  <2>3. n + 1 \in 2..n + 1 /\ 2..n \subseteq 2..n + 1
    BY <2>2
  <2>4. Concats(g, t, n)
    BY <1>1, <1>3, <2>3 DEF Concats
  <2>5. g[n] = h[n]
    <3>1. SameStart(s, t, n)
      BY <1>1 DEF SameStart
    <3>2. SameStart(h, g, n)
      BY <2>1, <2>2, <2>4, <3>1, ConcatsAgree
    <3> QED BY <2>2, <3>2 DEF SameStart
  <2>6. g[n + 1] = g[n] \o t[n + 1]
    BY <1>1, <1>3, <2>2, <2>3 DEF Concats
  <2> QED BY <1>1, <1>3, <2>1, <2>2, <2>5, <2>6 DEF t
<1> QED BY <1>4, <1>5

LEMMA FlattenHead ==
  ASSUME NEW D, NEW s \in Seq(Seq(D)), s # <<>>
  PROVE  /\ FlattenSeq(Tail(s)) \in Seq(D)
         /\ FlattenSeq(s) = s[1] \o FlattenSeq(Tail(s))
<1> DEFINE t == Tail(s)
           n == Len(s)
<1>1. /\ t \in Seq(Seq(D)) /\ Len(t) = n - 1 /\ n \in Nat \ {0}
      /\ \A i \in 1..n - 1 : t[i] = s[i + 1] /\ s[i + 1] \in Seq(D)
      /\ s[1] \in Seq(D)
  OBVIOUS
<1> HIDE DEF t
<1>2. PICK g \in [1..n -> Seq(D)] : Concats(g, s, n) /\ FlattenSeq(s) = g[n]
  BY FlattenConcats
<1>3. FlattenSeq(t) \in Seq(D)
  BY <1>1, FlattenAppend
<1>4. CASE t = <<>>
  <2>1. n = 1
    <3>1. Len(t) = 0
      BY <1>4
    <3> HIDE DEF n
    <3> QED BY <1>1, <3>1
  <2>2. FlattenSeq(s) = s[1]
    BY <1>2, <2>1 DEF Concats
  <2>3. FlattenSeq(t) = <<>> /\ s[1] \o <<>> = s[1]
    BY <1>1, <1>4, FlattenEmpty, ConcatEmptySeq
  <2> QED BY <1>3, <2>2, <2>3 DEF t
<1>5. CASE t # <<>>
  <2> DEFINE m == n - 1
  <2>1. m \in Nat \ {0} /\ n = m + 1 /\ Len(t) = m
    <3>1. Len(t) # 0
      <4>1. t \in Seq(Seq(D))
        BY <1>1
      <4> QED BY <1>5, <4>1, EmptySeq
    <3> HIDE DEF n
    <3> QED BY <1>1, <3>1
  <2>2. PICK h \in [1..m -> Seq(D)] : Concats(h, t, m) /\ FlattenSeq(t) = h[m]
    <3> HIDE DEF m
    <3>1. t \in Seq(Seq(D)) /\ Len(t) = m
      BY <1>1, <2>1
    <3> HIDE DEF n
    <3> QED BY <1>5, <3>1, FlattenConcats
  <2> HIDE DEF m, n, t
  <2> DEFINE T == {i \in 1..m : g[i + 1] # s[1] \o h[i]}
  <2>3. T = {}
    <3>1. SUFFICES ASSUME T # {} PROVE FALSE
      OBVIOUS
    <3>2. T \subseteq Nat
      OBVIOUS
    <3>3. PICK k \in T : \A i \in T : k <= i
      BY <3>1, <3>2, LeastNatural
    <3>4. k \in 1..m /\ g[k + 1] # s[1] \o h[k]
      OBVIOUS
    <3> HIDE DEF T
    <3>5. k + 1 \in 2..n /\ (k + 1) - 1 = k
      BY <2>1, <3>4
    <3>6. g[k + 1] = g[k] \o s[k + 1] /\ t[k] = s[k + 1]
      BY <1>1, <1>2, <2>1, <3>4, <3>5 DEF Concats, m
    <3>7. CASE k = 1
      BY <1>2, <2>2, <3>4, <3>6, <3>7 DEF Concats
    <3>8. CASE k # 1
      <4>1. k - 1 \in 1..m /\ k \in 2..m /\ ~(k <= k - 1) /\ (k - 1) + 1 = k
        BY <2>1, <3>4, <3>8
      <4>2. g[k] = s[1] \o h[k - 1]
        BY <3>3, <4>1 DEF T
      <4>3. h[k] = h[k - 1] \o t[k]
        BY <2>2, <4>1 DEF Concats
      <4>4. h[k - 1] \in Seq(D) /\ t[k] \in Seq(D)
        BY <1>1, <2>1, <3>4, <4>1 DEF m
      <4>5. (s[1] \o h[k - 1]) \o t[k] = s[1] \o (h[k - 1] \o t[k])
        <5>1. ConcatRegroups(D) /\ s[1] \in Seq(D)
          BY <1>1, Regroup
        <5> QED BY <4>4, <5>1 DEF ConcatRegroups
      <4> QED BY <3>4, <3>6, <4>2, <4>3, <4>5
    <3> QED BY <3>7, <3>8
  <2>4. m \in 1..m
    BY <2>1
  <2>5. g[m + 1] = s[1] \o h[m]
    BY <2>3, <2>4
  <2> QED BY <1>2, <1>3, <2>1, <2>2, <2>5 DEF t
<1> QED BY <1>4, <1>5

-----------------------------------------------------------------------------
(* Quotients: the pieces of a frame from a piece on *)

LEMMA Quotient ==
  ASSUME NEW s \in Nat \ {0}, NEW a \in Nat, NEW q \in Nat, s * q <= a, a < s * q + s
  PROVE  a \div s = q
  OBVIOUS

LEMMA Division ==
  ASSUME NEW s \in Nat \ {0}, NEW a \in Nat
  PROVE  a \div s \in Nat /\ s * (a \div s) <= a /\ a < s * (a \div s) + s
  OBVIOUS

LEMMA Product ==
  ASSUME NEW s \in Nat \ {0}, NEW q \in Nat
  PROVE  s * q \in Nat /\ s * (q + 1) = s * q + s
  OBVIOUS

LEMMA Monotonic ==
  ASSUME NEW s \in Nat, NEW p \in Nat, NEW q \in Nat, p <= q
  PROVE  s * p <= s * q
  OBVIOUS

LEMMA PiecesLeft ==
  ASSUME NEW l \in Nat, NEW s \in Nat \ {0}, NEW q \in Nat, s * q < l
  PROVE  /\ (l + s - 1) \div s \in Nat
         /\ q + 1 <= (l + s - 1) \div s
         /\ l - s * q <= s => (l + s - 1) \div s = q + 1
<1> DEFINE a == l + s - 1
           p == a \div s
<1>1. s * q \in Nat /\ s * (q + 1) = s * q + s
  BY Product
<1>2. a \in Nat /\ s * q + s <= a /\ (l - s * q <= s => a < s * q + s + s)
  BY <1>1
<1>3. p \in Nat /\ s * p <= a /\ a < s * p + s
  BY <1>2, Division
<1>4. q + 1 <= p
  <2>1. SUFFICES ASSUME p <= q PROVE FALSE
    BY <1>3
  <2>2. s * p \in Nat /\ s * p <= s * q
    BY <1>3, <2>1, Monotonic, Product
  <2> HIDE DEF p, a
  <2> QED BY <1>1, <1>2, <1>3, <2>2
<1>5. ASSUME l - s * q <= s PROVE p = q + 1
  <2>1. q + 1 \in Nat /\ s * (q + 1) <= a /\ a < s * (q + 1) + s
    BY <1>1, <1>2, <1>5
  <2> HIDE DEF a
  <2> QED BY <1>2, <2>1, Quotient
<1> QED BY <1>3, <1>4, <1>5

LEMMA SplitConcat ==
  ASSUME NEW D, NEW x \in Seq(D), NEW y \in Seq(D)
  PROVE  /\ SubSeq(x \o y, 1, Len(x)) = x
         /\ SubSeq(x \o y, Len(x) + 1, Len(x \o y)) = y
         /\ Len(x \o y) = Len(x) + Len(y)
<1>1. /\ x \o y \in Seq(D) /\ Len(x \o y) = Len(x) + Len(y)
      /\ Len(x) \in Nat /\ Len(y) \in Nat
  BY ConcatProperties
<1>2. SubSeq(x \o y, 1, Len(x)) = x
  OBVIOUS
<1>3. SubSeq(x \o y, Len(x) + 1, Len(x \o y)) = y
  OBVIOUS
<1> QED BY <1>1, <1>2, <1>3

-----------------------------------------------------------------------------
(* The datagrams of a frame *)

Datagram == [frame : Nat, piece : Nat]

(* A kept frame goes on where a segment of it starts. *)
DeliveryInv ==
  /\ \A i \in 1..Len(rest) : \E q \in Nat : rest[i].offset = Stride(rest[i].frame) * q
  /\ delivered \in Seq(Datagram)
  /\ accepted <= MaxFrames

LEMMA StrideType ==
  ASSUME NEW f \in FrameShapes
  PROVE  Stride(f) \in Nat \ {0} /\ f.len \in Nat \ {0} /\ f.id \in Nat
  BY DEF Stride, FrameShapes

LEMMA DatagramsAt ==
  ASSUME NEW f \in FrameShapes, NEW q \in Nat, Stride(f) * q < f.len
  PROVE  /\ Pieces(f) \in Nat /\ q + 1 <= Pieces(f)
         /\ f.len - Stride(f) * q <= Stride(f) => Pieces(f) = q + 1
         /\ DatagramsFrom(f, Stride(f) * q)
              = [i \in 1..Pieces(f) - q |-> [frame |-> f.id, piece |-> q + i]]
<1> DEFINE s == Stride(f)
<1>1. s \in Nat \ {0} /\ f.len \in Nat /\ f.id \in Nat
  BY StrideType
<1> HIDE DEF s
<1>2. /\ (f.len + s - 1) \div s \in Nat
      /\ q + 1 <= (f.len + s - 1) \div s
      /\ f.len - s * q <= s => (f.len + s - 1) \div s = q + 1
  BY <1>1, PiecesLeft DEF s
<1>3. (s * q) \div s = q
  <2>1. s * q \in Nat /\ s * q <= s * q /\ s * q < s * q + s
    BY <1>1, Product
  <2> QED BY <1>1, <2>1, Quotient
<1> QED BY <1>2, <1>3 DEF s, Pieces, DatagramsFrom

LEMMA DatagramsType ==
  ASSUME NEW f \in FrameShapes, NEW q \in Nat, Stride(f) * q < f.len
  PROVE  /\ DatagramsFrom(f, Stride(f) * q) \in Seq(Datagram)
         /\ Len(DatagramsFrom(f, Stride(f) * q)) = Pieces(f) - q
         /\ Len(DatagramsFrom(f, Stride(f) * q)) \in Nat \ {0}
<1> DEFINE n == Pieces(f) - q
           d == DatagramsFrom(f, Stride(f) * q)
<1>1. n \in Nat \ {0}
  <2>1. Pieces(f) \in Nat /\ q + 1 <= Pieces(f)
    BY DatagramsAt
  <2> QED BY <2>1
<1>2. f.id \in Nat
  BY StrideType
<1>3. d = [i \in 1..n |-> [frame |-> f.id, piece |-> q + i]]
  BY DatagramsAt
<1> HIDE DEF n, d
<1>4. \A i \in 1..n : [frame |-> f.id, piece |-> q + i] \in Datagram
  BY <1>1, <1>2 DEF Datagram
<1>5. d \in [1..n -> Datagram]
  BY <1>3, <1>4
<1>6. d \in Seq(Datagram) /\ Len(d) = n
  BY <1>1, <1>5
<1> QED BY <1>1, <1>6 DEF n, d

LEMMA WholeFrame ==
  ASSUME NEW f \in FrameShapes
  PROVE  /\ DatagramsFrom(f, 0) \in Seq(Datagram)
         /\ Len(DatagramsFrom(f, 0)) \in Nat \ {0}
<1>1. Stride(f) * 0 = 0 /\ 0 < f.len
  BY StrideType
<1> QED BY <1>1, DatagramsType

(* The first segment from an offset on, and what it leaves. *)
LEMMA FirstSegment ==
  ASSUME NEW f \in FrameShapes, NEW q \in Nat, Stride(f) * q < f.len,
         NEW left,
         (Stride(f) * q + Stride(f) < f.len /\ left = DatagramsFrom(f, Stride(f) * (q + 1)))
           \/ (Stride(f) * q + Stride(f) >= f.len /\ left = <<>>)
  PROVE  /\ left \in Seq(Datagram)
         /\ DatagramsFrom(f, Stride(f) * q)
              = <<DatagramsFrom(f, Stride(f) * q)[1]>> \o left
         /\ DatagramsFrom(f, Stride(f) * q)[1] \in Datagram
<1> DEFINE s == Stride(f)
           d == DatagramsFrom(f, s * q)
           p == Pieces(f)
<1>1. /\ s \in Nat \ {0} /\ s * q \in Nat /\ s * (q + 1) = s * q + s
      /\ f.len \in Nat /\ f.id \in Nat
  BY StrideType, Product
<1>2. /\ p \in Nat /\ q + 1 <= p /\ (f.len - s * q <= s => p = q + 1)
      /\ d = [i \in 1..p - q |-> [frame |-> f.id, piece |-> q + i]]
  BY DatagramsAt
<1>3. d \in Seq(Datagram) /\ Len(d) = p - q /\ Len(d) \in Nat \ {0}
  BY DatagramsType
<1>4. CASE s * q + s < f.len /\ left = DatagramsFrom(f, s * (q + 1))
  <2>1. s * (q + 1) < f.len /\ q + 1 \in Nat
    BY <1>1, <1>4
  <2>2. /\ left = [i \in 1..p - (q + 1) |-> [frame |-> f.id, piece |-> (q + 1) + i]]
    BY <1>4, <2>1, DatagramsAt
  <2>3. left \in Seq(Datagram) /\ Len(left) = p - (q + 1)
    BY <1>4, <2>1, DatagramsType
  <2> HIDE DEF s, d, p
  <2>4. \A i \in 1..p - (q + 1) : i + 1 \in 1..p - q /\ (q + 1) + i = q + (i + 1)
    BY <1>2
  <2>5. \A i \in 1..p - (q + 1) : left[i] = d[i + 1]
    BY <1>2, <2>2, <2>4
  <2>6. d[1] \in Datagram
    BY <1>3
  <2>7. d = <<d[1]>> \o left
    <3> DEFINE e == <<d[1]>> \o left
    <3>1. <<d[1]>> \in Seq(Datagram) /\ Len(<<d[1]>>) = 1 /\ <<d[1]>>[1] = d[1]
      BY <2>6
    <3>2. /\ e \in Seq(Datagram) /\ Len(e) = 1 + Len(left)
          /\ \A i \in 1..1 + Len(left) : e[i] = IF i <= 1 THEN <<d[1]>>[i] ELSE left[i - 1]
      BY <2>3, <3>1, ConcatProperties
    <3>3. Len(e) = Len(d)
      BY <1>2, <1>3, <2>3, <3>2
    <3> HIDE DEF e
    <3>4. ASSUME NEW i \in 1..Len(d) PROVE d[i] = e[i]
      <4>1. CASE i = 1
        BY <1>3, <2>3, <3>1, <3>2, <3>3, <4>1
      <4>2. CASE i # 1
        <5>1. i - 1 \in 1..p - (q + 1) /\ (i - 1) + 1 = i /\ ~(i <= 1) /\ i \in 1..1 + Len(left)
          BY <1>2, <1>3, <2>3, <4>2
        <5>2. left[i - 1] = d[i]
          BY <2>5, <5>1
        <5> QED BY <3>2, <5>1, <5>2
      <4> QED BY <4>1, <4>2
    <3>5. e = d
      BY <1>3, <3>2, <3>3, <3>4, SeqEqual
    <3> QED BY <3>5 DEF e
  <2> QED BY <2>3, <2>6, <2>7 DEF s, d
<1>5. CASE s * q + s >= f.len /\ left = <<>>
  <2> HIDE DEF s, d, p
  <2>1. p - q = 1
    <3>1. f.len - s * q <= s
      <4>1. \A a, b, c \in Nat : a + b >= c => c - a <= b
        OBVIOUS
      <4>2. s \in Nat /\ s * q \in Nat /\ f.len \in Nat /\ s * q + s >= f.len
        BY <1>1, <1>5
      <4> QED BY <4>1, <4>2
    <3>2. p = q + 1
      BY <1>2, <3>1
    <3> QED BY <3>2
  <2>2. Len(d) = 1 /\ d[1] \in Datagram
    BY <1>3, <2>1
  <2>3. <<d[1]>> \in Seq(Datagram) /\ Len(<<d[1]>>) = 1 /\ <<d[1]>>[1] = d[1]
    BY <2>2
  <2>4. d = <<d[1]>>
    <3>1. \A i \in 1..Len(d) : d[i] = <<d[1]>>[i]
      BY <2>2, <2>3
    <3> QED BY <1>3, <2>2, <2>3, <3>1, SeqEqual
  <2>5. <<d[1]>> \o <<>> = <<d[1]>>
    BY <2>3, ConcatEmptySeq
  <2>6. left \in Seq(Datagram) /\ d = <<d[1]>> \o left
    BY <1>5, <2>4, <2>5, EmptySeq
  <2> QED BY <2>2, <2>6 DEF s, d
<1> QED BY <1>4, <1>5 DEF s

-----------------------------------------------------------------------------
(* The datagrams of the queued frames *)

DatagramsOf(frames) == [i \in 1..Len(frames) |-> DatagramsFrom(frames[i], 0)]
Queued(frames) == FlattenSeq(DatagramsOf(frames))
Kept(pending) ==
  IF pending = <<>> THEN <<>> ELSE DatagramsFrom(pending[1].frame, pending[1].offset)

LEMMA UndeliveredParts == Undelivered = Kept(rest) \o Queued(recv)
  BY DEF Undelivered, Kept, Queued, DatagramsOf

LEMMA UndeliveredPartsAfter == Undelivered' = Kept(rest') \o Queued(recv')
  BY DEF Undelivered, Kept, Queued, DatagramsOf

LEMMA DatagramsOfType ==
  ASSUME NEW frames \in Seq(FrameShapes)
  PROVE  /\ DatagramsOf(frames) \in Seq(Seq(Datagram))
         /\ Len(DatagramsOf(frames)) = Len(frames) /\ Len(frames) \in Nat
         /\ \A i \in 1..Len(frames) : DatagramsOf(frames)[i] = DatagramsFrom(frames[i], 0)
<1> DEFINE n == Len(frames)
           d == DatagramsOf(frames)
<1>1. n \in Nat /\ \A i \in 1..n : frames[i] \in FrameShapes
  OBVIOUS
<1>2. d = [i \in 1..n |-> DatagramsFrom(frames[i], 0)]
  BY DEF DatagramsOf
<1> HIDE DEF d, n
<1>3. \A i \in 1..n : DatagramsFrom(frames[i], 0) \in Seq(Datagram)
  BY <1>1, WholeFrame
<1>4. d \in [1..n -> Seq(Datagram)]
  BY <1>2, <1>3
<1>5. d \in Seq(Seq(Datagram)) /\ Len(d) = n
  BY <1>1, <1>4
<1> QED BY <1>1, <1>2, <1>5 DEF d, n

LEMMA QueuedType ==
  ASSUME NEW frames \in Seq(FrameShapes)
  PROVE  Queued(frames) \in Seq(Datagram)
<1>1. DatagramsOf(frames) \in Seq(Seq(Datagram))
  BY DatagramsOfType
<1>2. <<>> \in Seq(Datagram)
  OBVIOUS
<1> QED BY <1>1, <1>2, FlattenAppend DEF Queued

LEMMA QueuedAppend ==
  ASSUME NEW frames \in Seq(FrameShapes), NEW f \in FrameShapes
  PROVE  Queued(Append(frames, f)) = Queued(frames) \o DatagramsFrom(f, 0)
<1> DEFINE more == Append(frames, f)
           s == DatagramsOf(frames)
           e == DatagramsFrom(f, 0)
<1>1. /\ more \in Seq(FrameShapes) /\ Len(more) = Len(frames) + 1 /\ Len(frames) \in Nat
      /\ \A i \in 1..Len(frames) : more[i] = frames[i]
      /\ more[Len(frames) + 1] = f
  OBVIOUS
<1>2. /\ s \in Seq(Seq(Datagram)) /\ Len(s) = Len(frames)
      /\ \A i \in 1..Len(frames) : s[i] = DatagramsFrom(frames[i], 0)
  BY DatagramsOfType
<1>3. e \in Seq(Datagram)
  BY WholeFrame
<1>4. /\ Append(s, e) \in Seq(Seq(Datagram)) /\ Len(Append(s, e)) = Len(frames) + 1
      /\ \A i \in 1..Len(frames) : Append(s, e)[i] = s[i]
      /\ Append(s, e)[Len(frames) + 1] = e
  <2> HIDE DEF s, e
  <2> QED BY <1>2, <1>3, AppendProperties
<1> HIDE DEF more
<1>5. /\ DatagramsOf(more) \in Seq(Seq(Datagram)) /\ Len(DatagramsOf(more)) = Len(more)
      /\ \A i \in 1..Len(more) : DatagramsOf(more)[i] = DatagramsFrom(more[i], 0)
  BY <1>1, DatagramsOfType
<1>6. ASSUME NEW i \in 1..Len(frames) + 1 PROVE DatagramsOf(more)[i] = Append(s, e)[i]
  <2>1. CASE i = Len(frames) + 1
    BY <1>1, <1>4, <1>5, <2>1
  <2>2. CASE i \in 1..Len(frames)
    BY <1>1, <1>2, <1>4, <1>5, <2>2
  <2>3. i = Len(frames) + 1 \/ i \in 1..Len(frames)
    BY <1>1
  <2> QED BY <2>1, <2>2, <2>3
<1>7. DatagramsOf(more) = Append(s, e)
  <2> HIDE DEF s, e
  <2> QED BY <1>1, <1>4, <1>5, <1>6, SeqEqual
<1>8. FlattenSeq(Append(s, e)) = FlattenSeq(s) \o e
  <2> HIDE DEF s, e
  <2> QED BY <1>2, <1>3, FlattenAppend
<1> QED BY <1>7, <1>8 DEF Queued, more

LEMMA QueuedHead ==
  ASSUME NEW frames \in Seq(FrameShapes), frames # <<>>
  PROVE  /\ Tail(frames) \in Seq(FrameShapes)
         /\ Queued(frames) = DatagramsFrom(frames[1], 0) \o Queued(Tail(frames))
<1> DEFINE less == Tail(frames)
           s == DatagramsOf(frames)
<1>1. /\ less \in Seq(FrameShapes) /\ Len(less) = Len(frames) - 1
      /\ Len(frames) \in Nat \ {0}
      /\ \A i \in 1..Len(frames) - 1 : less[i] = frames[i + 1]
  BY HeadTailProperties, EmptySeq
<1>2. /\ s \in Seq(Seq(Datagram)) /\ Len(s) = Len(frames)
      /\ \A i \in 1..Len(frames) : s[i] = DatagramsFrom(frames[i], 0)
  BY DatagramsOfType
<1> HIDE DEF less, s
<1>3. s # <<>>
  BY <1>1, <1>2
<1>4. /\ Tail(s) \in Seq(Seq(Datagram)) /\ Len(Tail(s)) = Len(frames) - 1
      /\ \A i \in 1..Len(frames) - 1 : Tail(s)[i] = s[i + 1]
  BY <1>2, <1>3, HeadTailProperties
<1>5. /\ DatagramsOf(less) \in Seq(Seq(Datagram)) /\ Len(DatagramsOf(less)) = Len(less)
      /\ \A i \in 1..Len(less) : DatagramsOf(less)[i] = DatagramsFrom(less[i], 0)
  BY <1>1, DatagramsOfType
<1>6. ASSUME NEW i \in 1..Len(frames) - 1 PROVE DatagramsOf(less)[i] = Tail(s)[i]
  <2>1. i + 1 \in 1..Len(frames) /\ i \in 1..Len(less)
    BY <1>1
  <2> QED BY <1>1, <1>2, <1>4, <1>5, <2>1
<1>7. DatagramsOf(less) = Tail(s)
  BY <1>1, <1>4, <1>5, <1>6, SeqEqual
<1>8. FlattenSeq(s) = s[1] \o FlattenSeq(Tail(s))
  BY <1>2, <1>3, FlattenHead
<1>9. s[1] = DatagramsFrom(frames[1], 0)
  BY <1>1, <1>2
<1> QED BY <1>1, <1>7, <1>8, <1>9 DEF Queued, less, s

-----------------------------------------------------------------------------
(* Each step is one of the queue of datagrams, or leaves that alone *)

(* What was not delivered starts with the datagrams of the frame a round takes. *)
LEMMA PendingComesFirst ==
  ASSUME ReceiveAssumption, TypeOK, FramesOK, DeliveryInv, HasPending, TakePending
  PROVE  /\ recv' \in Seq(FrameShapes)
         /\ Pending.frame \in FrameShapes
         /\ Undelivered = DatagramsFrom(Pending.frame, Pending.offset) \o Queued(recv')
         /\ \E q \in Nat : /\ Pending.offset = Stride(Pending.frame) * q
                           /\ Stride(Pending.frame) * q < Pending.frame.len
<1>1. Pending \in KeptShapes /\ Pending.offset \in 0..Pending.frame.len - 1
  BY PendingType
<1>2. Pending.frame \in FrameShapes /\ Pending.offset < Pending.frame.len
  BY <1>1 DEF KeptShapes, FrameShapes
<1>3. CASE rest # <<>>
  <2>1. Pending = rest[1] /\ recv' = recv /\ 1 \in 1..Len(rest)
    BY <1>3 DEF Pending, TakePending, FramesOK
  <2>2. \E q \in Nat : Pending.offset = Stride(Pending.frame) * q
    BY <2>1 DEF DeliveryInv
  <2>3. Kept(rest) = DatagramsFrom(Pending.frame, Pending.offset)
    BY <1>3, <2>1 DEF Kept
  <2>4. recv' \in Seq(FrameShapes)
    BY <2>1 DEF FramesOK
  <2> QED BY <1>2, <2>1, <2>2, <2>3, <2>4, UndeliveredParts
<1>4. CASE rest = <<>>
  <2>1. recv # <<>> /\ recv' = Tail(recv) /\ recv \in Seq(FrameShapes)
        /\ Pending.frame = recv[1] /\ Pending.offset = 0
    BY <1>4 DEF HasPending, Pending, TakePending, FramesOK
  <2>2. /\ recv' \in Seq(FrameShapes)
        /\ Queued(recv) = DatagramsFrom(recv[1], 0) \o Queued(recv')
    BY <2>1, QueuedHead
  <2>3. Queued(recv) \in Seq(Datagram) /\ Kept(rest) = <<>>
    BY <1>4, <2>1, QueuedType DEF Kept
  <2>4. Undelivered = Queued(recv)
    BY <2>3, UndeliveredParts, ConcatEmptySeq
  <2>5. 0 \in Nat /\ Stride(Pending.frame) * 0 = 0
    BY <1>2, StrideType
  <2> QED BY <1>2, <2>1, <2>2, <2>4, <2>5
<1> QED BY <1>3, <1>4

(* A round that hands out the first part of what is left, and keeps the other. *)
LEMMA HandedOut ==
  ASSUME NEW x \in Seq(Datagram), NEW y \in Seq(Datagram), Len(x) > 0,
         Undelivered = x \o y, Undelivered' = y, delivered' = delivered \o x
  PROVE  \E n \in 1..Len(Undelivered) : Fifo!Deliver(n)
<1>1. /\ SubSeq(x \o y, 1, Len(x)) = x
      /\ SubSeq(x \o y, Len(x) + 1, Len(x \o y)) = y
      /\ Len(x \o y) = Len(x) + Len(y)
  BY SplitConcat
<1>2. Len(x) \in 1..Len(Undelivered)
  <2>1. Len(x) \in Nat /\ Len(y) \in Nat
    OBVIOUS
  <2> QED BY <1>1, <2>1
<1>3. Fifo!Deliver(Len(x))
  BY <1>1 DEF Fifo!Deliver
<1> QED BY <1>2, <1>3

FifoStep == [Fifo!Next]_(Fifo!fifoVars)

LEMMA AcceptMaps ==
  ASSUME ReceiveAssumption, TypeOK, FramesOK, DeliveryInv,
         NEW m \in Messages, MessageArrives(m)
  PROVE  DeliveryInv' /\ FifoStep
<1> DEFINE f == [id |-> accepted + 1, len |-> m.len, seg |-> m.seg]
           d == DatagramsFrom(f, 0)
<1>1. /\ m.len \in Nat \ {0} /\ m.seg \in Nat /\ m \in Frames
      /\ accepted \in Nat /\ accepted < MaxFrames /\ MaxFrames \in Nat
  BY DEF MessageArrives, PushReceived, Decodes, ReceiveAssumption, FramesOK, Frames
<1>2. /\ accepted' = accepted + 1 /\ recv' = Append(recv, f)
      /\ UNCHANGED <<rest, delivered>> /\ recv \in Seq(FrameShapes)
  BY DEF MessageArrives, PushReceived, FramesOK
<1>3. f \in FrameShapes
  BY <1>1 DEF FrameShapes
<1>4. DeliveryInv'
  BY <1>1, <1>2 DEF DeliveryInv
<1>5. d \in UNION {{DatagramsFrom([id |-> i, len |-> g.len, seg |-> g.seg], 0)
                      : i \in 1..MaxFrames} : g \in Frames}
  <2>1. accepted + 1 \in 1..MaxFrames
    BY <1>1
  <2>2. d \in {DatagramsFrom([id |-> i, len |-> m.len, seg |-> m.seg], 0) : i \in 1..MaxFrames}
    BY <2>1
  <2> QED BY <1>1, <2>2
<1> HIDE DEF f
<1>6. Kept(rest) \in Seq(Datagram)
  <2>1. CASE rest = <<>>
    BY <2>1 DEF Kept
  <2>2. CASE rest # <<>>
    <3>1. 1 \in 1..Len(rest) /\ rest[1].frame \in FrameShapes /\ rest[1].offset < rest[1].frame.len
      <4>1. 1 \in 1..Len(rest)
        BY <2>2 DEF FramesOK
      <4>2. rest[1] \in KeptShapes /\ rest[1].offset \in 0..rest[1].frame.len - 1
        BY <4>1 DEF FramesOK, TypeOK
      <4> QED BY <4>1, <4>2 DEF KeptShapes, FrameShapes
    <3>2. PICK q \in Nat : rest[1].offset = Stride(rest[1].frame) * q
      BY <3>1 DEF DeliveryInv
    <3>3. DatagramsFrom(rest[1].frame, rest[1].offset) \in Seq(Datagram)
      BY <3>1, <3>2, DatagramsType
    <3> QED BY <2>2, <3>3 DEF Kept
  <2> QED BY <2>1, <2>2
<1>7. Queued(recv') = Queued(recv) \o d /\ Queued(recv) \in Seq(Datagram) /\ d \in Seq(Datagram)
  BY <1>2, <1>3, QueuedAppend, QueuedType, WholeFrame
<1> HIDE DEF d
<1>8. Undelivered' = Kept(rest) \o Queued(recv')
  BY <1>2, UndeliveredPartsAfter
<1>9. Undelivered' = Undelivered \o d
  <2> DEFINE a == Kept(rest)
             b == Queued(recv)
  <2>1. a \in Seq(Datagram) /\ b \in Seq(Datagram) /\ d \in Seq(Datagram)
    BY <1>6, <1>7
  <2>2. Undelivered = a \o b /\ Undelivered' = a \o (b \o d)
    BY <1>7, <1>8, UndeliveredParts
  <2>3. ConcatRegroups(Datagram)
    BY Regroup
  <2> HIDE DEF a, b
  <2>4. (a \o b) \o d = a \o (b \o d)
    BY <2>1, <2>3 DEF ConcatRegroups
  <2> QED BY <2>2, <2>4
<1>10. Fifo!Accept(d)
  BY <1>2, <1>9 DEF Fifo!Accept
<1> QED BY <1>4, <1>5, <1>10 DEF FifoStep, Fifo!Next

LEMMA BatchMaps ==
  ASSUME ReceiveAssumption, TypeOK, FramesOK, DeliveryInv, DeliverBatch
  PROVE  DeliveryInv' /\ FifoStep
<1> DEFINE x == DatagramsFrom(Pending.frame, 0)
           y == Queued(recv')
<1>1. /\ HasPending /\ TakePending /\ Pending.offset = 0 /\ rest' = <<>>
      /\ delivered' = delivered \o x /\ accepted' = accepted
  BY DEF DeliverBatch, Unfilled, FitsWhole
<1>2. /\ recv' \in Seq(FrameShapes) /\ Pending.frame \in FrameShapes
      /\ Undelivered = x \o y
  BY <1>1, PendingComesFirst
<1>3. x \in Seq(Datagram) /\ Len(x) \in Nat \ {0} /\ y \in Seq(Datagram)
  BY <1>2, WholeFrame, QueuedType
<1> HIDE DEF x, y
<1>4. Undelivered' = y
  BY <1>1, <1>3, UndeliveredPartsAfter, ConcatEmptySeq DEF Kept, y
<1>5. \E n \in 1..Len(Undelivered) : Fifo!Deliver(n)
  <2>1. Len(x) > 0 /\ delivered' = delivered \o x /\ Undelivered = x \o y
    BY <1>1, <1>2, <1>3 DEF x, y
  <2> QED BY <1>3, <1>4, <2>1, HandedOut
<1>6. DeliveryInv'
  <2>1. delivered' \in Seq(Datagram)
    BY <1>1, <1>3, ConcatProperties DEF DeliveryInv
  <2>2. Len(rest') = 0
    BY <1>1
  <2> QED BY <1>1, <2>1, <2>2 DEF DeliveryInv
<1> QED BY <1>5, <1>6 DEF FifoStep, Fifo!Next

LEMMA SegmentMaps ==
  ASSUME ReceiveAssumption, TypeOK, FramesOK, DeliveryInv, DeliverSegment
  PROVE  DeliveryInv' /\ FifoStep
<1> DEFINE p == Pending
           f == p.frame
           end == p.offset + SegmentLen(p)
           d == DatagramsFrom(f, p.offset)
           y == Queued(recv')
<1>1. /\ HasPending /\ TakePending
      /\ rest' = IF end < f.len THEN <<[p EXCEPT !.offset = end]>> ELSE <<>>
      /\ delivered' = Append(delivered, d[1]) /\ accepted' = accepted
  BY DEF DeliverSegment, Unfilled
<1>2. /\ recv' \in Seq(FrameShapes) /\ f \in FrameShapes /\ p \in KeptShapes
      /\ Undelivered = d \o y
      /\ \E q \in Nat : p.offset = Stride(f) * q /\ Stride(f) * q < f.len
  BY <1>1, PendingComesFirst, PendingType
<1>3. PICK q \in Nat : p.offset = Stride(f) * q /\ Stride(f) * q < f.len
  BY <1>2
<1>4. /\ Stride(f) \in Nat \ {0} /\ f.len \in Nat
      /\ Stride(f) * q \in Nat /\ Stride(f) * (q + 1) = Stride(f) * q + Stride(f)
  BY <1>2, StrideType, Product
<1>5. /\ SegmentLen(p) = IF Stride(f) < f.len - p.offset THEN Stride(f) ELSE f.len - p.offset
  BY DEF SegmentLen
<1> HIDE DEF p, d, y
<1>6. /\ Stride(f) * q + Stride(f) < f.len => end = Stride(f) * (q + 1) /\ end < f.len
      /\ ~(Stride(f) * q + Stride(f) < f.len) => ~(end < f.len)
  <2> DEFINE s == Stride(f)
             o == s * q
             l == f.len
  <2>1. /\ s \in Nat \ {0} /\ l \in Nat /\ o \in Nat /\ o < l
        /\ end = o + (IF s < l - o THEN s ELSE l - o)
        /\ s * (q + 1) = o + s
    BY <1>3, <1>4, <1>5
  <2> HIDE DEF s, o, l, end
  <2>2. /\ o + s < l => end = o + s /\ end < l
        /\ ~(o + s < l) => ~(end < l)
    BY <2>1
  <2> QED BY <2>1, <2>2 DEF s, o, l
<1> HIDE DEF end
<1>7. /\ Kept(rest') \in Seq(Datagram) /\ d = <<d[1]>> \o Kept(rest') /\ d[1] \in Datagram
      /\ Len(rest') \in {0, 1}
      /\ Len(rest') = 1 => rest'[1].offset = Stride(rest'[1].frame) * (q + 1)
  <2>1. CASE Stride(f) * q + Stride(f) < f.len
    <3> DEFINE r == [p EXCEPT !.offset = end]
    <3>1. rest' = <<r>> /\ r.frame = f /\ r.offset = Stride(f) * (q + 1)
      BY <1>1, <1>2, <1>6, <2>1 DEF KeptShapes
    <3> HIDE DEF r
    <3>2. /\ Kept(rest') = DatagramsFrom(f, Stride(f) * (q + 1))
          /\ Len(rest') = 1 /\ rest'[1] = r
      BY <3>1 DEF Kept
    <3>3. d = DatagramsFrom(f, Stride(f) * q)
      BY <1>3 DEF d
    <3>4. /\ Kept(rest') \in Seq(Datagram) /\ d[1] \in Datagram
          /\ d = <<d[1]>> \o Kept(rest')
      <4> HIDE DEF f
      <4> QED BY <1>2, <1>3, <2>1, <3>2, <3>3, FirstSegment
    <3> QED BY <3>1, <3>2, <3>4
  <2>2. CASE ~(Stride(f) * q + Stride(f) < f.len)
    <3>1. rest' = <<>> /\ Kept(rest') = <<>> /\ Len(rest') = 0
      BY <1>1, <1>6, <2>2 DEF Kept
    <3>2. Stride(f) * q + Stride(f) >= f.len
      BY <1>4, <2>2
    <3>3. d = DatagramsFrom(f, Stride(f) * q)
      BY <1>3 DEF d
    <3>4. /\ Kept(rest') \in Seq(Datagram) /\ d[1] \in Datagram
          /\ d = <<d[1]>> \o Kept(rest')
      <4> HIDE DEF f
      <4> QED BY <1>2, <1>3, <3>1, <3>2, <3>3, FirstSegment
    <3> QED BY <3>1, <3>4
  <2> QED BY <2>1, <2>2
<1>8. DeliveryInv'
  <2>1. delivered' \in Seq(Datagram)
    BY <1>1, <1>7, AppendProperties DEF DeliveryInv
  <2>2. \A i \in 1..Len(rest') : \E k \in Nat : rest'[i].offset = Stride(rest'[i].frame) * k
    <3>1. q + 1 \in Nat
      OBVIOUS
    <3> DEFINE n == Len(rest')
    <3>2. (n = 0 \/ n = 1) /\ (n = 1 => rest'[1].offset = Stride(rest'[1].frame) * (q + 1))
      BY <1>7
    <3> HIDE DEF n
    <3>3. \A i \in 1..n : i = 1 /\ n = 1
      BY <3>2
    <3> QED BY <3>1, <3>2, <3>3 DEF n
  <2> QED BY <1>1, <2>1, <2>2 DEF DeliveryInv
<1>9. \E n \in 1..Len(Undelivered) : Fifo!Deliver(n)
  <2> DEFINE x == <<d[1]>>
             w == Kept(rest') \o y
  <2>1. x \in Seq(Datagram) /\ Len(x) > 0
    BY <1>7
  <2>2. y \in Seq(Datagram)
    BY <1>2, QueuedType DEF y
  <2>3. w \in Seq(Datagram)
    BY <1>7, <2>2, ConcatProperties
  <2>4. delivered' = delivered \o x
    BY <1>1, <1>7, AppendIsConcat DEF DeliveryInv
  <2> HIDE DEF x
  <2>5. Undelivered = x \o w
    <3>1. d = x \o Kept(rest')
      BY <1>7 DEF x
    <3>2. (x \o Kept(rest')) \o y = x \o (Kept(rest') \o y)
      <4>1. ConcatRegroups(Datagram) /\ Kept(rest') \in Seq(Datagram)
        BY <1>7, Regroup
      <4> QED BY <2>1, <2>2, <4>1 DEF ConcatRegroups
    <3> QED BY <1>2, <3>1, <3>2
  <2>6. Undelivered' = w
    BY UndeliveredPartsAfter DEF y
  <2> HIDE DEF w
  <2> QED BY <2>1, <2>3, <2>4, <2>5, <2>6, HandedOut
<1> QED BY <1>8, <1>9 DEF FifoStep, Fifo!Next

LEMMA TooSmallMaps ==
  ASSUME ReceiveAssumption, TypeOK, FramesOK, DeliveryInv, BufferTooSmall
  PROVE  DeliveryInv' /\ FifoStep
<1>1. HasPending /\ TakePending /\ rest' = <<Pending>> /\ UNCHANGED <<accepted, delivered>>
  BY DEF BufferTooSmall, Unfilled
<1>2. /\ Undelivered = DatagramsFrom(Pending.frame, Pending.offset) \o Queued(recv')
      /\ \E q \in Nat : Pending.offset = Stride(Pending.frame) * q
  BY <1>1, PendingComesFirst
<1>3. /\ Kept(rest') = DatagramsFrom(Pending.frame, Pending.offset)
      /\ Len(rest') = 1 /\ rest'[1] = Pending
  BY <1>1 DEF Kept
<1>4. UNCHANGED <<Undelivered, delivered>>
  BY <1>1, <1>2, <1>3, UndeliveredPartsAfter
<1>5. DeliveryInv'
  BY <1>1, <1>2, <1>3 DEF DeliveryInv
<1> QED BY <1>4, <1>5 DEF FifoStep, Fifo!fifoVars

LEMMA OthersMap ==
  ASSUME DeliveryInv, UNCHANGED <<recv, rest, accepted, delivered>>
  PROVE  DeliveryInv' /\ FifoStep
<1>1. DeliveryInv'
  BY DEF DeliveryInv
<1>2. UNCHANGED <<Undelivered, delivered>>
  BY DEF Undelivered
<1> QED BY <1>1, <1>2 DEF FifoStep, Fifo!fifoVars

LEMMA StepsMap ==
  ASSUME ReceiveAssumption, TypeOK, FramesOK, DeliveryInv, [Next]_vars
  PROVE  DeliveryInv' /\ FifoStep
<1>1. ASSUME NEW m \in Messages, MessageArrives(m) PROVE DeliveryInv' /\ FifoStep
  BY <1>1, AcceptMaps
<1>2. ASSUME CloseHub \/ (\E shape \in BufferShapes : StartPoll(shape)) \/ BuffersFull
               \/ NothingQueued \/ UNCHANGED vars
      PROVE  DeliveryInv' /\ FifoStep
  <2>1. UNCHANGED <<recv, rest, accepted, delivered>>
    BY <1>2 DEF CloseHub, StartPoll, BuffersFull, NothingQueued, vars, hubVars
  <2> QED BY <2>1, OthersMap
<1> QED BY <1>1, <1>2, BatchMaps, SegmentMaps, TooSmallMaps DEF Next, Round

(* However frames, buffers, partial polls and the close of the hub interleave,
   the datagrams of every accepted frame come out whole, once and in order: each
   step of the receive side is one of the queue of datagrams or leaves that alone
   (endpoint.rs poll_recv, hub.rs pop_received). *)
THEOREM DatagramsComeInOrder ==
  Spec => DeliversInOrder
<1>1. Init => Fifo!Init /\ DeliveryInv
  <2> SUFFICES ASSUME Init PROVE Fifo!Init /\ DeliveryInv
    OBVIOUS
  <2>1. recv = <<>> /\ rest = <<>> /\ delivered = <<>> /\ accepted = 0
    BY DEF Init
  <2>2. Kept(rest) = <<>>
    BY <2>1 DEF Kept
  <2>3. Queued(recv) = <<>>
    <3>1. DatagramsOf(recv) \in Seq(Seq(Datagram)) /\ Len(DatagramsOf(recv)) = 0
      <4>1. recv \in Seq(FrameShapes) /\ Len(recv) = 0
        BY <2>1
      <4> QED BY <4>1, DatagramsOfType
    <3>2. DatagramsOf(recv) = <<>>
      BY <3>1, EmptySeq
    <3> QED BY <3>2, FlattenEmpty DEF Queued
  <2>4. <<>> \in Seq(Datagram) /\ <<>> \o <<>> = <<>>
    BY EmptySeq, ConcatEmptySeq
  <2>5. Undelivered = <<>>
    BY <2>2, <2>3, <2>4, UndeliveredParts
  <2>6. DeliveryInv
    BY <2>1, <2>4, ReceiveAssumption DEF DeliveryInv, ReceiveAssumption
  <2> QED BY <2>1, <2>5, <2>6 DEF Fifo!Init
<1>2. IInv /\ DeliveryInv /\ [Next]_vars => DeliveryInv' /\ [Fifo!Next]_(Fifo!fifoVars)
  BY ReceiveAssumption, StepsMap DEF IInv, FifoStep
<1> QED
  BY <1>1, <1>2, InvariantHolds, PTL DEF Spec, DeliversInOrder, Fifo!Spec

-----------------------------------------------------------------------------
(* What the dialer applies is in order.  That rests on the order of the queue,
   on everything signalled being older than what is queued for as long as the
   drain loop goes on, on the answer coming before the first candidate, and on
   the writer that ends with a terminal. *)

SignalTypeOK ==
  /\ queue \in Seq(1..End) /\ signalled \in Seq(0..Terminal)
  /\ gathered \in 0..MaxCandidates
  /\ written \in 0..Len(signalled) /\ heard \in 0..written

(* The queue holds what the browser reported, in the order it did. *)
QueuedInOrder ==
  /\ \A i \in 1..Len(queue) : queue[i] <= gathered \/ (queue[i] = End /\ ended)
  /\ \A i, j \in 1..Len(queue) : i < j => queue[i] < queue[j] \/ queue[j] = End

SignalledInOrder ==
  \A i, j \in 1..Len(signalled) :
    i < j /\ signalled[j] # Terminal =>
      signalled[i] = Terminal \/ signalled[i] < signalled[j]

DrainGoesOn ==
  drain \notin {"Done", "Failed"} =>
    \A i \in 1..Len(signalled) : signalled[i] # Terminal =>
      /\ signalled[i] <= gathered
      /\ \A j \in 1..Len(queue) : signalled[i] < queue[j]

AnswerIsFirst ==
  /\ answer # "Handed" =>
       drain = "None" /\ \A i \in 1..Len(signalled) : signalled[i] = Terminal
  /\ answer = "Handed" => Len(signalled) > 0
  /\ Len(signalled) > 0 => signalled[1] \in {Answer, Terminal}

TerminalIsLast ==
  \A i \in 1..written : signalled[i] = Terminal => i = written /\ writer # "Runs"

SignalInv ==
  /\ SignalTypeOK /\ QueuedInOrder /\ SignalledInOrder
  /\ DrainGoesOn /\ AnswerIsFirst /\ TerminalIsLast

(* A signal that may follow all that was signalled. *)
Follows(s) == \A i \in 1..Len(signalled) : signalled[i] = Terminal \/ signalled[i] < s

LEMMA SignalNumbers ==
  /\ MaxCandidates \in Nat /\ Capacity \in Nat \ {0}
  /\ End = MaxCandidates + 1 /\ Terminal = MaxCandidates + 2 /\ Answer = 0
  /\ End \in 1..End /\ 1..End \subseteq 0..Terminal
  /\ Answer \in 0..Terminal /\ Terminal \in 0..Terminal
  BY IceAssumption DEF End, Terminal, Answer

LEMMA SignalInitEstablishes == SignalInit => SignalInv
<1> SUFFICES ASSUME SignalInit PROVE SignalInv
  OBVIOUS
<1>1. /\ queue = <<>> /\ signalled = <<>> /\ gathered = 0 /\ written = 0 /\ heard = 0
      /\ Len(queue) = 0 /\ Len(signalled) = 0 /\ drain = "None" /\ answer = "None"
  BY DEF SignalInit, IceInit
<1>2. SignalTypeOK
  BY <1>1, SignalNumbers DEF SignalTypeOK
<1>3. QueuedInOrder /\ SignalledInOrder /\ DrainGoesOn /\ AnswerIsFirst /\ TerminalIsLast
  BY <1>1 DEF QueuedInOrder, SignalledInOrder, DrainGoesOn, AnswerIsFirst, TerminalIsLast
<1> QED
  BY <1>2, <1>3 DEF SignalInv

(* A step that leaves queue and signals alone: the writer, the reader, a close. *)
LEMMA QuietStep ==
  ASSUME SignalInv, UNCHANGED <<queue, gathered, ended, signalled>>,
         drain' = drain \/ (drain # "None" /\ drain' # "None"
                              /\ (drain' \notin {"Done", "Failed"} =>
                                     drain \notin {"Done", "Failed"})),
         (answer' = "Handed") = (answer = "Handed"),
         written' \in 0..Len(signalled), heard' \in 0..written',
         TerminalIsLast'
  PROVE  SignalInv'
<1>1. SignalTypeOK' /\ QueuedInOrder' /\ SignalledInOrder'
  BY DEF SignalInv, SignalTypeOK, QueuedInOrder, SignalledInOrder
<1>2. DrainGoesOn'
  BY DEF SignalInv, DrainGoesOn
<1>3. AnswerIsFirst'
  BY DEF SignalInv, AnswerIsFirst
<1> QED
  BY <1>1, <1>2, <1>3 DEF SignalInv

LEMMA Handed ==
  ASSUME SignalInv, NEW s \in 0..Terminal, signalled' = Append(signalled, s),
         s # Terminal => Follows(s),
         UNCHANGED <<written, heard, writer>>
  PROVE  /\ signalled' \in Seq(0..Terminal) /\ Len(signalled) \in Nat
         /\ Len(signalled') = Len(signalled) + 1
         /\ \A i \in 1..Len(signalled) : signalled'[i] = signalled[i]
         /\ signalled'[Len(signalled) + 1] = s
         /\ written' \in 0..Len(signalled') /\ heard' \in 0..written'
         /\ SignalledInOrder' /\ TerminalIsLast'
<1>1. /\ signalled' \in Seq(0..Terminal) /\ Len(signalled) \in Nat
      /\ Len(signalled') = Len(signalled) + 1
      /\ \A i \in 1..Len(signalled) : signalled'[i] = signalled[i]
      /\ signalled'[Len(signalled) + 1] = s
  BY AppendProperties DEF SignalInv, SignalTypeOK
<1>2. written' \in 0..Len(signalled') /\ heard' \in 0..written'
  BY <1>1 DEF SignalInv, SignalTypeOK
<1>3. SignalledInOrder'
  <2> SUFFICES ASSUME NEW i \in 1..Len(signalled'), NEW j \in 1..Len(signalled'),
                      i < j, signalled'[j] # Terminal
               PROVE  signalled'[i] = Terminal \/ signalled'[i] < signalled'[j]
    BY DEF SignalledInOrder
  <2>1. i \in 1..Len(signalled) /\ signalled'[i] = signalled[i]
    BY <1>1
  <2>2. CASE j \in 1..Len(signalled)
    BY <1>1, <2>1, <2>2 DEF SignalInv, SignalledInOrder
  <2>3. CASE j = Len(signalled) + 1
    BY <1>1, <2>1, <2>3 DEF Follows
  <2> QED
    BY <1>1, <2>2, <2>3
<1>4. TerminalIsLast'
  <2>1. \A i \in 1..written : signalled'[i] = signalled[i]
    BY <1>1 DEF SignalInv, SignalTypeOK
  <2> QED
    BY <2>1 DEF SignalInv, TerminalIsLast
<1> QED
  BY <1>1, <1>2, <1>3, <1>4

(* A terminal may be handed over at any time. *)
LEMMA TerminalPreserves ==
  ASSUME SignalInv, HandTerminal,
         UNCHANGED <<queue, gathered, ended, answer, writer, written, heard>>,
         drain' = drain \/ (drain # "None" /\ drain' # "None"
                              /\ (drain' \notin {"Done", "Failed"} =>
                                     drain \notin {"Done", "Failed"}))
  PROVE  SignalInv'
<1>1. CASE writer # "Runs"
  <2>1. UNCHANGED signalled
    BY <1>1 DEF HandTerminal
  <2>2. TerminalIsLast'
    BY <2>1 DEF SignalInv, TerminalIsLast
  <2> QED
    BY <2>1, <2>2, QuietStep DEF SignalInv, SignalTypeOK
<1>2. CASE writer = "Runs"
  <2> DEFINE n == Len(signalled)
  <2>1. signalled' = Append(signalled, Terminal)
    BY <1>2 DEF HandTerminal
  <2>2. /\ signalled' \in Seq(0..Terminal) /\ n \in Nat /\ Len(signalled') = n + 1
        /\ \A i \in 1..n : signalled'[i] = signalled[i]
        /\ signalled'[n + 1] = Terminal
        /\ written' \in 0..Len(signalled') /\ heard' \in 0..written'
        /\ SignalledInOrder' /\ TerminalIsLast'
    BY <2>1, Handed, SignalNumbers
  <2>3. SignalTypeOK' /\ QueuedInOrder'
    BY <2>2 DEF SignalInv, SignalTypeOK, QueuedInOrder
  <2>4. \A i \in 1..Len(signalled') :
           signalled'[i] # Terminal => i \in 1..n /\ signalled'[i] = signalled[i]
    BY <2>2
  <2>5. DrainGoesOn'
    BY <2>4 DEF SignalInv, DrainGoesOn
  <2>6. AnswerIsFirst'
    <3>1. Len(signalled') > 0
      BY <2>2
    <3>2. signalled'[1] \in {Answer, Terminal}
      BY <2>2 DEF SignalInv, AnswerIsFirst
    <3> QED
      BY <2>4, <3>1, <3>2 DEF SignalInv, AnswerIsFirst
  <2> QED
    BY <2>2, <2>3, <2>5, <2>6 DEF SignalInv
<1> QED
  BY <1>1, <1>2

(* An event that is younger than all that was reported takes the last place. *)
LEMMA PushKeepsOrder ==
  ASSUME SignalInv, NEW e \in 1..End, Push(e),
         gathered' \in gathered..MaxCandidates, ended => ended',
         (e = End /\ ended') \/ (e = gathered' /\ gathered < e /\ ~ended),
         UNCHANGED <<signalled, answer, writer, written, heard>>
  PROVE  SignalInv'
<1>1. PICK q \in Seq(1..End) :
        /\ queue' = q \/ queue' = Append(q, e)
        /\ \A i \in 1..Len(q) : \E k \in 1..Len(queue) : q[i] = queue[k]
        /\ \A i, j \in 1..Len(q) : i < j => q[i] < q[j] \/ q[j] = End
  <2>1. CASE queue' = queue \/ queue' = Append(queue, e)
    BY <2>1 DEF SignalInv, SignalTypeOK, QueuedInOrder
  <2>2. CASE ~(Len(queue) < Capacity) /\ queue' = Append(Tail(queue), e)
    <3>1. queue # <<>>
      BY <2>2, SignalNumbers DEF SignalInv, SignalTypeOK
    <3>2. /\ Tail(queue) \in Seq(1..End) /\ Len(Tail(queue)) = Len(queue) - 1
          /\ Len(queue) \in Nat
          /\ \A i \in 1..Len(Tail(queue)) : Tail(queue)[i] = queue[i + 1]
      BY <3>1, HeadTailProperties DEF SignalInv, SignalTypeOK
    <3>3. \A i \in 1..Len(Tail(queue)) : i + 1 \in 1..Len(queue)
      BY <3>2
    <3>4. \A i, j \in 1..Len(Tail(queue)) :
            i < j => Tail(queue)[i] < Tail(queue)[j] \/ Tail(queue)[j] = End
      BY <3>2, <3>3 DEF SignalInv, QueuedInOrder
    <3> QED
      BY <2>2, <3>2, <3>3, <3>4
  <2>3. \/ queue' = queue \/ queue' = Append(queue, e)
        \/ ~(Len(queue) < Capacity) /\ queue' = Append(Tail(queue), e)
    BY Zenon DEF Push, Unchanged
  <2> QED
    BY <2>1, <2>2, <2>3, Zenon
<1>2. ASSUME NEW i \in 1..Len(q)
      PROVE  q[i] \in 1..End /\ (q[i] <= gathered \/ (q[i] = End /\ ended))
  <2>1. PICK k \in 1..Len(queue) : q[i] = queue[k]
    BY <1>1
  <2>2. queue[k] <= gathered \/ (queue[k] = End /\ ended)
    BY Zenon DEF SignalInv, QueuedInOrder
  <2>3. q[i] \in 1..End
    BY SignalNumbers
  <2> QED
    BY <2>1, <2>2, <2>3, SignalNumbers
<1>3. /\ queue' \in Seq(1..End)
      /\ \A i \in 1..Len(queue') :
           (i \in 1..Len(q) /\ queue'[i] = q[i]) \/ (i = Len(q) + 1 /\ queue'[i] = e)
      /\ Len(q) \in Nat /\ Len(queue') \in 0..Len(q) + 1
  <2>1. CASE queue' = q
    BY <2>1
  <2>2. CASE queue' = Append(q, e)
    BY <2>2, AppendProperties
  <2> QED
    BY <1>1, <2>1, <2>2
<1>4. SignalTypeOK'
  BY <1>3 DEF SignalInv, SignalTypeOK
<1>5. gathered \in Nat /\ gathered' \in Nat /\ gathered <= gathered'
  BY SignalNumbers DEF SignalInv, SignalTypeOK
<1>6. QueuedInOrder'
  <2>1. ASSUME NEW i \in 1..Len(queue')
        PROVE  queue'[i] <= gathered' \/ (queue'[i] = End' /\ ended')
    <3>1. End' = End
      BY DEF End
    <3>2. CASE i \in 1..Len(q) /\ queue'[i] = q[i]
      BY <1>2, <1>5, <3>1, <3>2, SignalNumbers
    <3>3. CASE queue'[i] = e
      BY <1>5, <3>1, <3>3
    <3> QED
      BY <1>3, <3>2, <3>3
  <2>2. ASSUME NEW i \in 1..Len(queue'), NEW j \in 1..Len(queue'), i < j
        PROVE  queue'[i] < queue'[j] \/ queue'[j] = End
    <3>1. i \in 1..Len(q) /\ queue'[i] = q[i]
      BY <1>3, <2>2
    <3>2. CASE j \in 1..Len(q) /\ queue'[j] = q[j]
      BY <1>1, <2>2, <3>1, <3>2
    <3>3. CASE queue'[j] = e /\ e # End
      <4>1. e = gathered' /\ gathered < e /\ ~ended
        BY <3>3
      <4> QED
        BY <1>2, <1>5, <3>1, <3>3, <4>1
    <3> QED
      BY <1>3, <3>2, <3>3
  <2> QED
    BY <2>1, <2>2 DEF QueuedInOrder, End
<1>7. drain' = drain \/ (drain = "Waiting" /\ drain' = "Ready")
  BY Zenon DEF Push, Unchanged, WakeDrain
<1>8. SignalledInOrder' /\ TerminalIsLast' /\ AnswerIsFirst'
  BY <1>7 DEF SignalInv, SignalledInOrder, TerminalIsLast, AnswerIsFirst
<1>9. DrainGoesOn'
  <2> SUFFICES ASSUME drain' \notin {"Done", "Failed"},
                      NEW i \in 1..Len(signalled), signalled[i] # Terminal
               PROVE  /\ signalled[i] <= gathered'
                      /\ \A j \in 1..Len(queue') : signalled[i] < queue'[j]
    BY DEF DrainGoesOn, Terminal
  <2>1. drain \notin {"Done", "Failed"}
    BY <1>7
  <2>2. signalled[i] \in Nat /\ signalled[i] <= gathered
    BY <2>1, SignalNumbers DEF SignalInv, SignalTypeOK, DrainGoesOn
  <2>3. signalled[i] < e
    BY <1>5, <2>2, SignalNumbers DEF SignalInv, SignalTypeOK
  <2>4. ASSUME NEW k \in 1..Len(q) PROVE signalled[i] < q[k]
    BY <1>1, <2>1 DEF SignalInv, DrainGoesOn
  <2>5. \A j \in 1..Len(queue') : signalled[i] < queue'[j]
    BY <1>3, <2>3, <2>4
  <2> QED
    BY <1>5, <2>2, <2>5
<1> QED
  BY <1>4, <1>6, <1>8, <1>9 DEF SignalInv

LEMMA BrowserPreserves ==
  ASSUME SignalInv, Browser PROVE SignalInv'
<1>1. UNCHANGED <<signalled, answer, writer, written, heard>>
  BY DEF Browser, Gather, GatheringEnds, pathVars
<1>2. gathered \in 0..MaxCandidates
  BY DEF SignalInv, SignalTypeOK
<1>3. ASSUME closed, UNCHANGED <<queue, drain, signalled>>, gathered' \in gathered..MaxCandidates,
             ended => ended'
      PROVE  SignalInv'
  <2>1. SignalTypeOK' /\ QueuedInOrder' /\ SignalledInOrder'
    BY <1>1, <1>2, <1>3, SignalNumbers
       DEF SignalInv, SignalTypeOK, QueuedInOrder, SignalledInOrder
  <2>2. DrainGoesOn' /\ AnswerIsFirst' /\ TerminalIsLast'
    BY <1>1, <1>2, <1>3, SignalNumbers
       DEF SignalInv, SignalTypeOK, DrainGoesOn, AnswerIsFirst, TerminalIsLast
  <2> QED
    BY <2>1, <2>2 DEF SignalInv
<1>4. CASE Gather
  <2>1. /\ ~ended /\ gathered' = gathered + 1 /\ gathered < MaxCandidates
        /\ gathered' \in gathered..MaxCandidates /\ gathered' \in 1..End /\ gathered < gathered'
    BY <1>2, <1>4, SignalNumbers DEF Gather
  <2>2. CASE closed
    BY <1>1, <1>3, <1>4, <2>1, <2>2 DEF Gather, Unchanged
  <2>3. CASE ~closed
    BY <1>1, <1>4, <2>1, <2>3, PushKeepsOrder DEF Gather
  <2> QED
    BY <2>2, <2>3
<1>5. CASE GatheringEnds
  <2>1. ended' /\ gathered' = gathered /\ gathered' \in gathered..MaxCandidates
    BY <1>2, <1>5, SignalNumbers DEF GatheringEnds
  <2>2. CASE closed
    BY <1>1, <1>3, <1>5, <2>1, <2>2 DEF GatheringEnds, Unchanged
  <2>3. CASE ~closed
    BY <1>1, <1>5, <2>1, <2>3, PushKeepsOrder, SignalNumbers DEF GatheringEnds
  <2> QED
    BY <2>2, <2>3
<1> QED
  BY <1>4, <1>5 DEF Browser

(* The oldest queued event is younger than all that was signalled. *)
LEMMA SignalNextPreserves ==
  ASSUME SignalInv, SignalNext, UNCHANGED <<answer, writer, written, heard>>
  PROVE  SignalInv'
<1> DEFINE s == queue[1]
           n == Len(signalled)
<1>1. /\ queue \in Seq(1..End) /\ queue # <<>> /\ Len(queue) \in Nat /\ 1 \in 1..Len(queue)
      /\ s \in 1..End /\ s \in 0..Terminal /\ s # Terminal
  BY SignalNumbers DEF SignalInv, SignalTypeOK, SignalNext
<1>2. drain = "Ready" /\ answer = "Handed" /\ n > 0
  BY DEF SignalInv, AnswerIsFirst, SignalNext
<1>3. Follows(s)
  BY <1>1, <1>2 DEF SignalInv, DrainGoesOn, Follows
<1>4. /\ signalled' \in Seq(0..Terminal) /\ n \in Nat /\ Len(signalled') = n + 1
      /\ \A i \in 1..n : signalled'[i] = signalled[i]
      /\ signalled'[n + 1] = s
      /\ written' \in 0..Len(signalled') /\ heard' \in 0..written'
      /\ SignalledInOrder' /\ TerminalIsLast'
  <2>1. signalled' = Append(signalled, s)
    BY DEF SignalNext
  <2> HIDE DEF s
  <2> QED
    BY <1>1, <1>3, <2>1, Handed
<1>5. /\ queue' \in Seq(1..End) /\ Len(queue') = Len(queue) - 1
      /\ \A i \in 1..Len(queue') : queue'[i] = queue[i + 1] /\ i + 1 \in 1..Len(queue)
  <2>1. queue' = Tail(queue)
    BY DEF SignalNext
  <2>2. /\ queue' \in Seq(1..End) /\ Len(queue') = Len(queue) - 1
        /\ \A i \in 1..Len(queue') : queue'[i] = queue[i + 1]
    BY <1>1, <2>1, HeadTailProperties
  <2> QED
    BY <1>1, <2>2
<1>6. SignalTypeOK'
  BY <1>4, <1>5 DEF SignalInv, SignalTypeOK, SignalNext, End
<1>7. QueuedInOrder'
  BY <1>5 DEF SignalInv, QueuedInOrder, SignalNext, End
<1>8. DrainGoesOn'
  <2> SUFFICES ASSUME drain' \notin {"Done", "Failed"},
                      NEW i \in 1..Len(signalled'), signalled'[i] # Terminal
               PROVE  /\ signalled'[i] <= gathered'
                      /\ \A j \in 1..Len(queue') : signalled'[i] < queue'[j]
    BY DEF DrainGoesOn, Terminal
  <2>1. gathered' = gathered /\ s # End
    BY DEF SignalNext
  <2>2. CASE i \in 1..n
    BY <1>2, <1>4, <1>5, <2>1, <2>2 DEF SignalInv, DrainGoesOn
  <2>3. CASE i = n + 1
    <3>1. signalled'[i] = s /\ s <= gathered
      BY <1>1, <1>4, <2>1, <2>3 DEF SignalInv, QueuedInOrder
    <3>2. ASSUME NEW j \in 1..Len(queue') PROVE s < queue'[j]
      <4>1. j + 1 \in 1..Len(queue) /\ 1 < j + 1 /\ queue'[j] = queue[j + 1]
        BY <1>1, <1>5
      <4>2. s < queue[j + 1] \/ queue[j + 1] = End
        BY <1>1, <4>1 DEF SignalInv, QueuedInOrder
      <4> QED
        BY <1>1, <2>1, <4>1, <4>2, SignalNumbers
    <3> QED
      BY <2>1, <3>1, <3>2
  <2> QED
    BY <1>4, <2>2, <2>3
<1>9. AnswerIsFirst'
  <2>1. 1 \in 1..n /\ signalled'[1] = signalled[1]
    BY <1>2, <1>4
  <2> QED
    BY <1>2, <1>4, <2>1 DEF SignalInv, AnswerIsFirst, Answer, Terminal
<1> QED
  BY <1>4, <1>6, <1>7, <1>8, <1>9 DEF SignalInv

LEMMA DrainPreserves ==
  ASSUME SignalInv, Drain PROVE SignalInv'
<1>1. UNCHANGED <<answer, writer, written, heard>>
  BY DEF Drain, pathVars
<1>2. CASE SignalNext
  BY <1>1, <1>2, SignalNextPreserves
<1>3. ASSUME UNCHANGED <<queue, gathered, ended, signalled>>,
             drain = "Ready", drain' \in {"Failed", "Waiting"}
      PROVE  SignalInv'
  <2>1. TerminalIsLast'
    BY <1>1, <1>3 DEF SignalInv, TerminalIsLast, Terminal
  <2>2. written' \in 0..Len(signalled) /\ heard' \in 0..written'
    BY <1>1 DEF SignalInv, SignalTypeOK
  <2> QED
    BY <1>1, <1>3, <2>1, <2>2, QuietStep
<1>4. CASE NextClosed \/ NextPending
  BY <1>3, <1>4 DEF NextClosed, NextPending
<1>5. CASE SignalFails
  <2>1. /\ queue \in Seq(1..End) /\ queue # <<>> /\ Len(queue) \in Nat
        /\ queue' = Tail(queue) /\ drain' = "Failed" /\ drain = "Ready"
        /\ UNCHANGED <<gathered, ended, signalled>>
    BY <1>5 DEF SignalInv, SignalTypeOK, SignalFails
  <2>2. /\ queue' \in Seq(1..End) /\ Len(queue') = Len(queue) - 1
        /\ \A i \in 1..Len(queue') : queue'[i] = queue[i + 1]
    BY <2>1, HeadTailProperties
  <2>3. \A i \in 1..Len(queue') : queue'[i] = queue[i + 1] /\ i + 1 \in 1..Len(queue)
    BY <2>1, <2>2
  <2>4. SignalTypeOK'
    BY <1>1, <2>1, <2>2 DEF SignalInv, SignalTypeOK, End, Terminal
  <2>5. QueuedInOrder'
    BY <2>1, <2>3 DEF SignalInv, QueuedInOrder, End
  <2>6. SignalledInOrder' /\ TerminalIsLast'
    BY <1>1, <2>1 DEF SignalInv, SignalledInOrder, TerminalIsLast, Terminal
  <2>7. DrainGoesOn' /\ AnswerIsFirst'
    BY <1>1, <2>1 DEF SignalInv, DrainGoesOn, AnswerIsFirst, Answer, Terminal
  <2> QED
    BY <2>4, <2>5, <2>6, <2>7 DEF SignalInv
<1> QED
  BY <1>2, <1>4, <1>5 DEF Drain

(* The answer is handed over before the drain loop exists; only terminals can
   have come before it. *)
LEMMA AnswerHandedPreserves ==
  ASSUME SignalInv, AnswerHanded PROVE SignalInv'
<1>1. /\ answer = "Created" /\ UNCHANGED <<queue, gathered, ended, writer, written, heard>>
      /\ drain = "None" /\ \A i \in 1..Len(signalled) : signalled[i] = Terminal
  BY DEF SignalInv, AnswerIsFirst, AnswerHanded
<1>2. CASE writer # "Runs"
  <2>1. answer' = "Refused" /\ UNCHANGED <<signalled, drain>>
    BY <1>2 DEF AnswerHanded
  <2>2. TerminalIsLast'
    BY <1>1, <2>1 DEF SignalInv, TerminalIsLast, Terminal
  <2>3. written' \in 0..Len(signalled) /\ heard' \in 0..written'
    BY <1>1 DEF SignalInv, SignalTypeOK
  <2> QED
    BY <1>1, <2>1, <2>2, <2>3, QuietStep
<1>3. CASE writer = "Runs"
  <2> DEFINE n == Len(signalled)
  <2>1. answer' = "Handed" /\ signalled' = Append(signalled, Answer) /\ drain' = "Ready"
    BY <1>3 DEF AnswerHanded
  <2>2. Follows(Answer)
    BY <1>1 DEF Follows
  <2>3. /\ signalled' \in Seq(0..Terminal) /\ n \in Nat /\ Len(signalled') = n + 1
        /\ \A i \in 1..n : signalled'[i] = signalled[i]
        /\ signalled'[n + 1] = Answer
        /\ written' \in 0..Len(signalled') /\ heard' \in 0..written'
        /\ SignalledInOrder' /\ TerminalIsLast'
    BY <1>1, <2>1, <2>2, Handed, SignalNumbers
  <2>4. SignalTypeOK' /\ QueuedInOrder'
    BY <1>1, <2>3 DEF SignalInv, SignalTypeOK, QueuedInOrder, End, Terminal
  <2>5. \A i \in 1..Len(signalled') : signalled'[i] \in {Answer, Terminal}
    BY <1>1, <2>3
  <2>6. DrainGoesOn'
    <3>1. \A j \in 1..Len(queue) : 0 < queue[j]
      BY SignalNumbers DEF SignalInv, SignalTypeOK
    <3>2. gathered' \in Nat /\ Answer <= gathered'
      BY <1>1, SignalNumbers DEF SignalInv, SignalTypeOK
    <3> QED
      BY <1>1, <2>5, <3>1, <3>2, SignalNumbers DEF DrainGoesOn, Terminal
  <2>7. AnswerIsFirst'
    BY <2>1, <2>3, <2>5 DEF AnswerIsFirst, Answer, Terminal
  <2> QED
    BY <2>3, <2>4, <2>6, <2>7 DEF SignalInv
<1> QED
  BY <1>2, <1>3

LEMMA WriterPreserves ==
  ASSUME SignalInv, Writer PROVE SignalInv'
<1>1. UNCHANGED <<queue, gathered, ended, signalled, drain, answer, heard>>
  BY DEF Writer, WriterWrites, WriterFails, iceVars
<1>2. /\ writer = "Runs" /\ written \in Nat /\ Len(signalled) \in Nat
      /\ written < Len(signalled) /\ heard \in 0..written
      /\ \A i \in 1..written : signalled[i] # Terminal
  BY DEF SignalInv, SignalTypeOK, TerminalIsLast, Writer, WriterWrites, WriterFails
<1>3. CASE WriterWrites
  <2>1. written' = written + 1 /\ (signalled[written'] = Terminal => writer' = "Finished")
    BY <1>3 DEF WriterWrites
  <2>2. TerminalIsLast'
    BY <1>1, <1>2, <2>1 DEF TerminalIsLast, Terminal
  <2>3. written' \in 0..Len(signalled) /\ heard' \in 0..written'
    BY <1>1, <1>2, <2>1
  <2> QED
    BY <1>1, <2>2, <2>3, QuietStep
<1>4. CASE WriterFails
  <2>1. written' = written /\ writer' = "Failed"
    BY <1>4 DEF WriterFails
  <2>2. TerminalIsLast'
    BY <1>1, <1>2, <2>1 DEF TerminalIsLast, Terminal
  <2>3. written' \in 0..Len(signalled) /\ heard' \in 0..written'
    BY <1>1, <1>2, <2>1
  <2> QED
    BY <1>1, <2>2, <2>3, QuietStep
<1> QED
  BY <1>3, <1>4 DEF Writer

(* The steps that neither hand a signal over nor write one. *)
LEMMA QuietStepsPreserve ==
  ASSUME SignalInv,
         AnswerCreated \/ AnswerRefused \/ Channel \/ DialerGivesUp \/ Attaching
           \/ Listener \/ ListenerFails \/ UNCHANGED allVars
  PROVE  SignalInv'
<1>1. UNCHANGED <<queue, gathered, ended, signalled, drain, writer, written>>
  BY DEF AnswerCreated, AnswerRefused, Channel, ChannelAnnounced, ChannelCloses, DialerGivesUp,
     Attaching, Attach, AskForChannel, ReceiveChannel, Listener, HearAnswer, HearIce, HearTerminal, Hears,
     ListenerEnds, ListenerFails, iceVars, pathVars, allVars
<1>2. (answer' = "Handed") = (answer = "Handed")
  BY DEF AnswerCreated, AnswerRefused, Channel, ChannelAnnounced, ChannelCloses, DialerGivesUp,
     Attaching, Attach, AskForChannel, ReceiveChannel, Listener, HearAnswer, HearIce, HearTerminal, Hears,
     ListenerEnds, ListenerFails, iceVars, pathVars, allVars
<1>3. heard' = heard \/ (heard' = heard + 1 /\ heard < written)
  BY DEF AnswerCreated, AnswerRefused, Channel, ChannelAnnounced, ChannelCloses, DialerGivesUp,
     Attaching, Attach, AskForChannel, ReceiveChannel, Listener, HearAnswer, HearIce, HearTerminal, Hears,
     ListenerEnds, ListenerFails, iceVars, pathVars, allVars
<1>4. written' \in 0..Len(signalled) /\ heard' \in 0..written'
  BY <1>1, <1>3 DEF SignalInv, SignalTypeOK
<1>5. TerminalIsLast'
  BY <1>1 DEF SignalInv, TerminalIsLast, Terminal
<1> QED
  BY <1>1, <1>2, <1>4, <1>5, QuietStep

LEMMA SignalNextStatePreserves == SignalInv /\ [SignalNextState]_allVars => SignalInv'
<1> SUFFICES ASSUME SignalInv, [SignalNextState]_allVars PROVE SignalInv'
  OBVIOUS
<1>1. CASE Decide
  <2>1. /\ HandTerminal
        /\ UNCHANGED <<queue, gathered, ended, answer, writer, written, heard>>
        /\ drain' = drain \/ (drain = "Waiting" /\ drain' = "Ready")
    BY <1>1 DEF Decide, ClosePeerConnection, Close, WakeDrain, pathVars
  <2> QED
    BY <2>1, TerminalPreserves
<1>2. CASE CloseNode
  <2>1. /\ HandTerminal
        /\ UNCHANGED <<queue, gathered, ended, drain, answer, writer, written, heard>>
    BY <1>2 DEF CloseNode
  <2> QED
    BY <2>1, TerminalPreserves
<1> QED
  BY <1>1, <1>2, BrowserPreserves, DrainPreserves, AnswerHandedPreserves, WriterPreserves,
     QuietStepsPreserve DEF SignalNextState

(* A terminal is the last signal that is written, so what was applied before
   another signal is not one, and is older. *)
LEMMA InvariantOrders == SignalInv => AppliedInOrder
<1> SUFFICES ASSUME SignalInv PROVE AppliedInOrder
  OBVIOUS
<1>1. heard \in Nat /\ written \in Nat /\ Len(signalled) \in Nat
      /\ heard <= written /\ written <= Len(signalled)
  BY DEF SignalInv, SignalTypeOK
<1>2. heard > 0 => signalled[1] \in {Answer, Terminal}
  BY <1>1 DEF SignalInv, AnswerIsFirst
<1>3. ASSUME NEW i \in 1..heard, NEW j \in 1..heard, i < j
      PROVE  signalled[i] < signalled[j]
  <2>1. i \in 1..Len(signalled) /\ j \in 1..Len(signalled) /\ i \in 1..written /\ i # written
    BY <1>1, <1>3
  <2>2. signalled[i] \in 0..Terminal /\ signalled[j] \in 0..Terminal /\ signalled[i] # Terminal
    <3>1. signalled \in Seq(0..Terminal)
      BY DEF SignalInv, SignalTypeOK
    <3>2. TerminalIsLast
      BY DEF SignalInv
    <3>3. signalled[i] # Terminal
      BY <2>1, <3>2 DEF TerminalIsLast
    <3>4. signalled[i] \in 0..Terminal
      BY <2>1, <3>1, SignalNumbers
    <3>5. signalled[j] \in 0..Terminal
      BY <2>1, <3>1, SignalNumbers
    <3> QED BY <3>3, <3>4, <3>5
  <2>3. signalled[j] # Terminal => signalled[i] < signalled[j]
    BY <1>3, <2>1, <2>2 DEF SignalInv, SignalledInOrder
  <2> QED
    BY <2>2, <2>3, SignalNumbers
<1> QED
  BY <1>2, <1>3 DEF AppliedInOrder

(* However candidates, their end, channel events and closes interleave, the
   dialer applies the answer first, candidates in the order they were gathered,
   and a terminal last, none of them twice (bootstrap.rs). *)
THEOREM SignalsAreAppliedInOrder == SignalSpec => []AppliedInOrder
<1> QED
  BY SignalInitEstablishes, SignalNextStatePreserves, InvariantOrders, PTL DEF SignalSpec
=============================================================================
