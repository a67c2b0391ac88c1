---------------------------- MODULE StreamIoProofs ----------------------------
(***************************************************************************)
(* The node's endpoint and the streams above it.  For any number of dials  *)
(* and of endpoints bound in a run, what is installed in the node is an    *)
(* endpoint nobody closed or is about to close.  For any number of calls   *)
(* and parts, a chunk whose send was accepted is on the wire in one piece  *)
(* and after what older calls wrote, and nothing follows the end of the    *)
(* send half.  Neither is inductive: both rest on the mutex, which a call  *)
(* that writes has until it returns, and on the flag, which is asked again *)
(* once the call has it.                                                   *)
(***************************************************************************)
EXTENDS StreamIo, TLAPS

Entries == (Nat \X Nat)

StreamTypeOK ==
  /\ closed \in BOOLEAN
  /\ stream \in {"None", "Opening", "Open", "Gone"}
  /\ flagged \subseteq Halves
  /\ op \in [Calls -> Ops \cup {"None"}]
  /\ at \in [Calls -> {"Idle", "Locking", "Io"} \cup Outcomes]
  /\ sent \in [Calls -> Nat]
  /\ wire \in Seq(Entries)

(* Calls queue in the order they are made. *)
StartedInOrder ==
  \A c, d \in Calls : (d < c /\ at[c] # "Idle") => at[d] # "Idle"

IoHasLock == \A c \in Calls : at[c] = "Io" => HasLock(c)

(* A send that goes on while the node is open found its flag unset. *)
WritesBeforeEnd ==
  ("SendHalf" \in flagged /\ ~closed) =>
    \A c \in Calls : at[c] = "Io" => Half(c) # "SendHalf"

EndIsFlagged == \A i \in 1..Len(wire) : wire[i] = Fin => "SendHalf" \in flagged

(* What is on the wire was written by a send, and no older call waits for the
   send half any more. *)
WrittenInTurn ==
  \A i \in 1..Len(wire) : wire[i] # Fin =>
    /\ wire[i][1] \in Calls
    /\ at[wire[i][1]] # "Idle"
    /\ \A c \in Calls : (c < wire[i][1] /\ Queued(c)) => Half(c) # "SendHalf"

InOrder ==
  \A i, j \in 1..Len(wire) : (i < j /\ wire[j] # Fin) => wire[i][1] <= wire[j][1]

(* The parts of the chunk that is being written are the last on the wire. *)
PartsAtEnd(c) ==
  /\ sent[c] < MaxParts
  /\ sent[c] <= Len(wire)
  /\ \A p \in 1..sent[c] : wire[Len(wire) - sent[c] + p] = <<c, p>>

Whole(c) ==
  \E i \in 0..Len(wire) - MaxParts : \A p \in 1..MaxParts : wire[i + p] = <<c, p>>

ChunkOK(c) ==
  op[c] \in Sends =>
    /\ at[c] \in {"Idle", "Locking"} => sent[c] = 0
    /\ at[c] = "Io" => PartsAtEnd(c)
    /\ at[c] = "Ok" => Whole(c)

ChunksOK == \A c \in Calls : ChunkOK(c) /\ (at[c] = "Idle" => sent[c] = 0)

IInv ==
  /\ StreamTypeOK
  /\ StartedInOrder /\ IoHasLock /\ WritesBeforeEnd
  /\ EndIsFlagged /\ WrittenInTurn /\ InOrder /\ NothingFollowsEnd
  /\ ChunksOK

-----------------------------------------------------------------------------
(* What the steps do to calls and wire *)

(* Endpoints, the connection, the stream and the close of the node: no call
   moves, and flags are set only with the node's close. *)
NoCallMoves ==
  /\ UNCHANGED callVars
  /\ flagged \subseteq flagged'
  /\ closed' \/ (flagged' = flagged /\ closed' = closed)

(* A call starts, gets its mutex or returns, and writes nothing. *)
CallMoves(c) ==
  /\ UNCHANGED <<closed, flagged, sent, wire>>
  /\ at' = [at EXCEPT ![c] = at'[c]] /\ at'[c] # "Idle"
  /\ op' = [op EXCEPT ![c] = op'[c]]
  /\ at[c] = "Idle" => \A d \in 1..c - 1 : at[d] # "Idle"
  /\ at[c] # "Idle" => op'[c] = op[c]
  /\ at'[c] = "Locking" => at[c] = "Idle"
  /\ at'[c] = "Io" =>
       at[c] = "Locking" /\ HasLock(c) /\ Half(c) \notin flagged
  /\ at'[c] = "Ok" => op'[c] \notin Sends

(* One part goes on the wire, behind the last one perhaps the end. *)
CallWrites(c) ==
  /\ at[c] = "Io" /\ op[c] \in Sends /\ ~closed
  /\ UNCHANGED <<closed, op>>
  /\ flagged \subseteq flagged'
  /\ sent' = [sent EXCEPT ![c] = @ + 1]
  /\ Len(wire') \in {Len(wire) + 1, Len(wire) + 2}
  /\ \A i \in 1..Len(wire) : wire'[i] = wire[i]
  /\ wire'[Len(wire) + 1] = <<c, sent[c] + 1>>
  /\ Len(wire') = Len(wire) + 2 =>
       "SendHalf" \in flagged' /\ wire'[Len(wire) + 2] = Fin
  /\ \/ /\ sent[c] + 1 < MaxParts
        /\ at' = at /\ flagged' = flagged /\ Len(wire') = Len(wire) + 1
     \/ ~(sent[c] + 1 < MaxParts) /\ at' = [at EXCEPT ![c] = "Ok"]

(* close_stream_send returns; whoever sets the flag writes the end. *)
CallFinishes(c) ==
  /\ at[c] = "Locking" /\ HasLock(c) /\ op[c] = "CloseSend"
  /\ UNCHANGED <<closed, op, sent>>
  /\ flagged \subseteq flagged' /\ "SendHalf" \in flagged'
  /\ at' = [at EXCEPT ![c] = "Ok"]
  /\ wire' # wire => "SendHalf" \notin flagged
  /\ Len(wire') \in {Len(wire), Len(wire) + 1}
  /\ \A i \in 1..Len(wire) : wire'[i] = wire[i]
  /\ Len(wire') = Len(wire) + 1 => wire'[Len(wire) + 1] = Fin

Effect ==
  \/ NoCallMoves
  \/ \E c \in Calls : CallMoves(c) \/ CallWrites(c) \/ CallFinishes(c)

-----------------------------------------------------------------------------

LEMMA CallsAreNaturals == \A c \in Calls : c \in Nat /\ c > 0 /\ (1..c - 1) \subseteq Calls
  BY StreamAssumption DEF Calls

(* Init has no call and nothing on the wire. *)
LEMMA InitEstablishes == StreamInit => IInv
<1> SUFFICES ASSUME StreamInit PROVE IInv
  OBVIOUS
<1>1. wire = << >> /\ Len(wire) = 0 /\ wire \in Seq(Entries)
  BY DEF StreamInit
<1>2. StreamTypeOK
  BY <1>1 DEF StreamInit, Init, StreamTypeOK, Halves
<1>3. EndIsFlagged /\ WrittenInTurn /\ InOrder /\ NothingFollowsEnd
  BY <1>1 DEF EndIsFlagged, WrittenInTurn, InOrder, NothingFollowsEnd
<1>4. ChunksOK
  BY DEF StreamInit, ChunksOK, ChunkOK, Sends
<1> QED
  BY <1>2, <1>3, <1>4 DEF StreamInit, IInv, StartedInOrder, IoHasLock, WritesBeforeEnd

(* Only the close of the node changes closed. *)
LEMMA EndpointsKeepClosed ==
  ASSUME NEW d \in Dials, DialStep(d) PROVE closed' = closed
  BY DEF DialStep, Restart, OldEndpointCloses, BindsAndInstalls, BindFails,
     ConnectSucceeds, ConnectFails

LEMMA EndpointStepEffect ==
  ASSUME StreamTypeOK, EndpointStep PROVE NoCallMoves /\ StreamTypeOK'
<1>1. UNCHANGED streamVars /\ closed' = closed
  BY EndpointsKeepClosed DEF EndpointStep, SpawnedClose
<1> QED
  BY <1>1 DEF NoCallMoves, StreamTypeOK, streamVars, callVars

LEMMA CloseEffect ==
  ASSUME StreamTypeOK, CloseNodeAndStreams PROVE NoCallMoves /\ StreamTypeOK'
  BY DEF CloseNodeAndStreams, CloseNode, CloseStreams, NoCallMoves, StreamTypeOK,
     callVars

LEMMA OpenEffect ==
  ASSUME StreamTypeOK, OpenStream \/ StreamOpens \/ OpenFails \/ ConnectionEnds
  PROVE  NoCallMoves /\ StreamTypeOK'
  BY DEF OpenStream, StreamOpens, OpenFails, ConnectionEnds, NoCallMoves,
     StreamTypeOK, callVars, vars

LEMMA StartEffect ==
  ASSUME StreamTypeOK, NEW c \in Calls, NEW o \in Ops, StartCall(c, o)
  PROVE  CallMoves(c) /\ StreamTypeOK'
<1>1. at'[c] \in {"Closed", "Ok", "Locking"} /\ op'[c] = o
  BY DEF StartCall, Place, StreamTypeOK
<1>2. at'[c] = "Ok" => o \notin Sends
  BY DEF StartCall, Place, StreamTypeOK, Sends
<1>3. CallMoves(c)
  BY <1>1, <1>2 DEF CallMoves, StartCall, Place, StreamTypeOK, vars
<1> QED
  BY <1>1, <1>3 DEF CallMoves, StartCall, StreamTypeOK, Outcomes, vars

LEMMA MoveEffect ==
  ASSUME StreamTypeOK, NEW c \in Calls,
         \/ Locked(c) \/ Cancelled(c) \/ ReadChunk(c) \/ IoFails(c) \/ DropCall(c)
  PROVE  CallMoves(c) /\ StreamTypeOK'
<1>1. /\ UNCHANGED <<vars, stream, lost, flagged, cancelled, op, sent, wire>>
      /\ at[c] \in {"Locking", "Io"}
  BY DEF Locked, Cancelled, ReadChunk, IoFails, DropCall
<1>2. PICK p \in {"Io"} \cup Outcomes : at' = [at EXCEPT ![c] = p]
  BY DEF Locked, Cancelled, ReadChunk, IoFails, DropCall, Place, Outcomes
<1>3. at'[c] = p
  BY <1>2 DEF StreamTypeOK
<1>4. p = "Ok" => op[c] \notin Sends
  BY <1>2, <1>3 DEF Locked, Cancelled, ReadChunk, IoFails, DropCall, Place, StreamTypeOK,
     Sends
<1>5. p = "Io" => at[c] = "Locking" /\ HasLock(c) /\ Half(c) \notin flagged
  BY <1>2, <1>3 DEF Locked, Cancelled, ReadChunk, IoFails, DropCall, Place, StreamTypeOK
<1>6. CallMoves(c)
  BY <1>1, <1>2, <1>3, <1>4, <1>5 DEF CallMoves, Outcomes, StreamTypeOK, vars
<1> QED
  BY <1>1, <1>2, <1>6 DEF StreamTypeOK, vars

LEMMA WriteEffect ==
  ASSUME StreamTypeOK, NEW c \in Calls, WritePart(c)
  PROVE  CallWrites(c) /\ StreamTypeOK'
<1> DEFINE e == <<c, sent[c] + 1>>
           w == Append(wire, e)
<1>1. e \in Entries /\ Fin \in Entries /\ wire \in Seq(Entries)
  BY CallsAreNaturals DEF StreamTypeOK, Entries, Fin
<1>2. /\ w \in Seq(Entries) /\ Len(w) = Len(wire) + 1
      /\ \A i \in 1..Len(wire) : w[i] = wire[i]
      /\ w[Len(wire) + 1] = e
  BY <1>1
<1>3. /\ wire \o <<e, Fin>> \in Seq(Entries)
      /\ Len(wire \o <<e, Fin>>) = Len(wire) + 2
      /\ \A i \in 1..Len(wire) : (wire \o <<e, Fin>>)[i] = wire[i]
      /\ (wire \o <<e, Fin>>)[Len(wire) + 1] = e
      /\ (wire \o <<e, Fin>>)[Len(wire) + 2] = Fin
  BY <1>1
<1> HIDE DEF w
<1>4. /\ op[c] \in Sends /\ ~closed /\ at[c] = "Io"
      /\ sent' = [sent EXCEPT ![c] = @ + 1]
      /\ UNCHANGED <<vars, stream, lost, cancelled, op>>
  BY DEF WritePart, PartWritten, Linked
<1>5. CASE sent[c] + 1 < MaxParts
  <2>1. wire' = w /\ at' = at /\ flagged' = flagged
    BY <1>5 DEF WritePart, PartWritten, w
  <2> QED
    BY <1>2, <1>4, <1>5, <2>1 DEF CallWrites, StreamTypeOK, vars
<1>6. CASE ~(sent[c] + 1 < MaxParts)
  <2>1. at' = [at EXCEPT ![c] = "Ok"]
    BY <1>6 DEF WritePart, PartWritten, Place
  <2>2. CASE op[c] = "SendLast"
    <3>1. wire' = wire \o <<e, Fin>> /\ flagged' = flagged \cup {"SendHalf"}
      BY <1>6, <2>2 DEF WritePart, PartWritten
    <3>2. CallWrites(c)
      BY <1>3, <1>4, <1>6, <2>1, <3>1 DEF CallWrites, vars
    <3> QED
      BY <1>3, <1>4, <2>1, <3>1, <3>2 DEF StreamTypeOK, vars, Outcomes, Halves
  <2>3. CASE op[c] # "SendLast"
    <3>1. wire' = w /\ flagged' = flagged
      BY <1>6, <2>3 DEF WritePart, PartWritten, w
    <3>2. CallWrites(c)
      BY <1>2, <1>4, <1>6, <2>1, <3>1 DEF CallWrites, vars
    <3> QED
      BY <1>2, <1>4, <2>1, <3>1, <3>2 DEF StreamTypeOK, vars, Outcomes
  <2> QED
    BY <2>2, <2>3
<1> QED
  BY <1>5, <1>6

LEMMA FinishEffect ==
  ASSUME StreamTypeOK, NEW c \in Calls, CloseSend(c)
  PROVE  CallFinishes(c) /\ StreamTypeOK'
<1>1. /\ Fin \in Entries /\ wire \in Seq(Entries)
      /\ Append(wire, Fin) \in Seq(Entries) /\ Len(Append(wire, Fin)) = Len(wire) + 1
      /\ \A i \in 1..Len(wire) : Append(wire, Fin)[i] = wire[i]
      /\ Append(wire, Fin)[Len(wire) + 1] = Fin
      /\ Len(wire) # Len(wire) + 1
  BY DEF StreamTypeOK, Entries, Fin
<1>2. CallFinishes(c)
  BY <1>1 DEF CloseSend, Place, CallFinishes, vars
<1>3. wire' \in Seq(Entries)
  BY <1>1 DEF CloseSend
<1>4. /\ flagged' \subseteq Halves
      /\ at' \in [Calls -> {"Idle", "Locking", "Io"} \cup Outcomes]
  BY DEF CloseSend, Place, StreamTypeOK, Outcomes, Halves
<1> QED
  BY <1>2, <1>3, <1>4 DEF CloseSend, StreamTypeOK, vars

(* Every step is one of the four effects and keeps the types. *)
LEMMA StepEffect ==
  ASSUME StreamTypeOK, [StreamNext]_<<vars, streamVars>>
  PROVE  Effect /\ StreamTypeOK'
<1>1. CASE StreamNext
  BY <1>1, EndpointStepEffect, CloseEffect, OpenEffect, StartEffect, MoveEffect,
     WriteEffect, FinishEffect DEF StreamNext, CallStep, Effect
<1>2. CASE UNCHANGED <<vars, streamVars>>
  BY <1>2 DEF vars, streamVars, callVars, Effect, NoCallMoves, StreamTypeOK
<1> QED
  BY <1>1, <1>2

-----------------------------------------------------------------------------
(* Each effect keeps the invariant *)

(* A half has one call that uses it. *)
LEMMA OneCallHasLock ==
  ASSUME NEW c \in Calls, NEW d \in Calls, HasLock(c), HasLock(d), Half(c) = Half(d)
  PROVE  c = d
  BY CallsAreNaturals DEF HasLock

(* What is whole stays whole: the wire only grows. *)
LEMMA GrowthKeepsWhole ==
  ASSUME NEW d \in Calls, Len(wire) \in Nat, Len(wire') \in Nat,
         Len(wire) <= Len(wire'), \A i \in 1..Len(wire) : wire'[i] = wire[i],
         Whole(d)
  PROVE  Whole(d)'
<1>1. PICK i \in 0..Len(wire) - MaxParts :
        \A p \in 1..MaxParts : wire[i + p] = <<d, p>>
  BY DEF Whole
<1>2. i \in 0..Len(wire') - MaxParts
  BY StreamAssumption
<1>3. ASSUME NEW p \in 1..MaxParts PROVE wire'[i + p] = <<d, p>>
  <2>1. i + p \in 1..Len(wire)
    BY StreamAssumption
  <2> QED
    BY <1>1, <2>1
<1> QED
  BY <1>2, <1>3 DEF Whole

LEMMA NoCallMovesPreserves ==
  ASSUME IInv, StreamTypeOK', NoCallMoves PROVE IInv'
<1> USE DEF NoCallMoves, callVars
<1>1. StartedInOrder' /\ IoHasLock'
  BY DEF IInv, StartedInOrder, IoHasLock, HasLock, Queued, Half
<1>2. WritesBeforeEnd'
  BY DEF IInv, StreamTypeOK, WritesBeforeEnd, Half
<1>3. EndIsFlagged' /\ InOrder' /\ NothingFollowsEnd'
  BY DEF IInv, EndIsFlagged, InOrder, NothingFollowsEnd
<1>4. WrittenInTurn'
  BY DEF IInv, WrittenInTurn, Queued, Half
<1>5. ChunksOK'
  BY DEF IInv, ChunksOK, ChunkOK, PartsAtEnd, Whole
<1> QED
  BY <1>1, <1>2, <1>3, <1>4, <1>5 DEF IInv

LEMMA CallMovesPreserves ==
  ASSUME IInv, StreamTypeOK', NEW c \in Calls, CallMoves(c) PROVE IInv'
<1>1. /\ UNCHANGED <<closed, flagged, sent, wire>>
      /\ \A d \in Calls : d # c => at'[d] = at[d] /\ op'[d] = op[d]
      /\ at'[c] # "Idle"
  BY DEF CallMoves, IInv, StreamTypeOK
<1>2. \A d \in Calls : d # c => (Queued(d)' <=> Queued(d)) /\ Half(d)' = Half(d)
  BY <1>1 DEF Queued, Half
<1>3. StartedInOrder'
  BY <1>1, CallsAreNaturals DEF CallMoves, IInv, StartedInOrder, Calls
<1>4. Queued(c)' => Queued(c) \/ (at[c] = "Idle" /\ \A d \in 1..c - 1 : at[d] # "Idle")
  BY DEF CallMoves, Queued, IInv, StreamTypeOK, Outcomes
<1>5. at[c] # "Idle" => Half(c)' = Half(c)
  BY DEF CallMoves, Half
<1>6. IoHasLock'
  <2> SUFFICES ASSUME NEW d \in Calls, at'[d] = "Io" PROVE HasLock(d)'
    BY DEF IoHasLock
  <2>1. HasLock(d)
    BY <1>1 DEF CallMoves, IInv, IoHasLock
  <2>2. at[d] # "Idle"
    BY <2>1 DEF HasLock, Queued
  <2>3. Queued(d)' /\ Half(d)' = Half(d)
    BY <1>1, <1>2, <1>5, <2>2 DEF Queued
  <2>4. ASSUME NEW b \in 1..d - 1, Queued(b)' PROVE Half(b)' # Half(d)'
    <3>1. b \in Calls /\ b < d
      BY CallsAreNaturals
    <3>2. at[b] # "Idle"
      BY <2>2, <3>1 DEF IInv, StartedInOrder
    <3>3. Queued(b) /\ Half(b)' = Half(b)
      BY <1>2, <1>4, <1>5, <2>4, <3>1, <3>2
    <3> QED
      BY <2>1, <2>3, <3>3 DEF HasLock
  <2> QED
    BY <2>3, <2>4 DEF HasLock
<1>7. WritesBeforeEnd'
  <2> SUFFICES ASSUME "SendHalf" \in flagged, ~closed, NEW d \in Calls, at'[d] = "Io"
               PROVE  Half(d)' # "SendHalf"
    BY <1>1 DEF WritesBeforeEnd
  <2>1. CASE d = c
    BY <1>5, <2>1 DEF CallMoves, HasLock, Queued
  <2>2. CASE d # c
    BY <1>1, <1>2, <2>2 DEF IInv, WritesBeforeEnd
  <2> QED
    BY <2>1, <2>2
<1>8. EndIsFlagged' /\ InOrder' /\ NothingFollowsEnd'
  BY <1>1 DEF IInv, EndIsFlagged, InOrder, NothingFollowsEnd
<1>9. WrittenInTurn'
  <2> SUFFICES ASSUME NEW i \in 1..Len(wire), wire[i] # Fin
               PROVE  /\ wire[i][1] \in Calls /\ at'[wire[i][1]] # "Idle"
                      /\ \A d \in Calls :
                           (d < wire[i][1] /\ Queued(d)') => Half(d)' # "SendHalf"
    BY <1>1 DEF WrittenInTurn
  <2>1. wire[i][1] \in Calls /\ at[wire[i][1]] # "Idle"
    BY DEF IInv, WrittenInTurn
  <2>2. at'[wire[i][1]] # "Idle"
    BY <1>1, <2>1
  <2>3. ASSUME NEW d \in Calls, d < wire[i][1], Queued(d)' PROVE Half(d)' # "SendHalf"
    <3>1. at[d] # "Idle"
      BY <2>1, <2>3 DEF IInv, StartedInOrder
    <3>2. Queued(d) /\ Half(d)' = Half(d)
      BY <1>2, <1>4, <1>5, <2>3, <3>1
    <3> QED
      BY <2>3, <3>2 DEF IInv, WrittenInTurn
  <2> QED
    BY <2>1, <2>2, <2>3
<1>10. ChunksOK'
  <2> SUFFICES ASSUME NEW d \in Calls
               PROVE  ChunkOK(d)' /\ (at'[d] = "Idle" => sent'[d] = 0)
    BY DEF ChunksOK
  <2>1. PartsAtEnd(d)' = PartsAtEnd(d) /\ Whole(d)' = Whole(d)
    BY <1>1 DEF PartsAtEnd, Whole
  <2>2. CASE d # c
    BY <1>1, <2>1, <2>2 DEF IInv, ChunksOK, ChunkOK
  <2>3. CASE d = c
    <3>1. at[c] \in {"Idle", "Locking"} /\ op'[c] \in Sends => sent[c] = 0
      BY DEF CallMoves, IInv, ChunksOK, ChunkOK
    <3>2. sent[c] = 0 => PartsAtEnd(c)
      BY StreamAssumption DEF PartsAtEnd, IInv, StreamTypeOK
    <3> QED
      BY <1>1, <2>1, <2>3, <3>1, <3>2 DEF CallMoves, ChunkOK
  <2> QED
    BY <2>2, <2>3
<1> QED
  BY <1>3, <1>6, <1>7, <1>8, <1>9, <1>10 DEF IInv

(* The call that writes is the only one in the send half, and the oldest that
   wants it. *)
LEMMA WriterIsAlone ==
  ASSUME IInv, NEW c \in Calls, at[c] = "Io", op[c] \in Sends, ~closed
  PROVE  /\ Half(c) = "SendHalf" /\ Queued(c)
         /\ "SendHalf" \notin flagged
         /\ \A i \in 1..Len(wire) : wire[i] # Fin /\ wire[i][1] <= c
         /\ \A d \in Calls : (at[d] = "Io" /\ d # c) => Half(d) # "SendHalf"
         /\ \A d \in Calls : (Queued(d) /\ d < c) => Half(d) # "SendHalf"
<1>1. Half(c) = "SendHalf" /\ Queued(c)
  BY DEF Half, Sends, Queued
<1>2. "SendHalf" \notin flagged
  BY <1>1 DEF IInv, WritesBeforeEnd
<1>3. \A i \in 1..Len(wire) : wire[i] # Fin
  BY <1>2 DEF IInv, EndIsFlagged
<1>4. ASSUME NEW i \in 1..Len(wire) PROVE wire[i][1] <= c
  <2>1. wire[i][1] \in Calls /\ ~(c < wire[i][1])
    BY <1>1, <1>3 DEF IInv, WrittenInTurn
  <2> QED
    BY <2>1, CallsAreNaturals
<1>5. HasLock(c)
  BY DEF IInv, IoHasLock
<1>6. ASSUME NEW d \in Calls, at[d] = "Io", d # c PROVE Half(d) # "SendHalf"
  BY <1>1, <1>5, <1>6, OneCallHasLock DEF IInv, IoHasLock
<1>7. ASSUME NEW d \in Calls, Queued(d), d < c PROVE Half(d) # "SendHalf"
  BY <1>1, <1>5, <1>7, CallsAreNaturals DEF HasLock
<1> QED
  BY <1>1, <1>2, <1>3, <1>4, <1>6, <1>7

LEMMA CallWritesPreserves ==
  ASSUME IInv, StreamTypeOK', NEW c \in Calls, CallWrites(c) PROVE IInv'
<1> DEFINE n == Len(wire)
<1>1. /\ c \in Nat /\ c > 0 /\ n \in Nat /\ sent[c] \in Nat
      /\ at[c] = "Io" /\ op[c] \in Sends /\ ~closed /\ ~closed' /\ op' = op
  BY CallsAreNaturals DEF CallWrites, IInv, StreamTypeOK
<1>2. /\ Half(c) = "SendHalf" /\ Queued(c)
      /\ "SendHalf" \notin flagged
      /\ \A i \in 1..n : wire[i] # Fin /\ wire[i][1] <= c
      /\ \A d \in Calls : (at[d] = "Io" /\ d # c) => Half(d) # "SendHalf"
      /\ \A d \in Calls : (Queued(d) /\ d < c) => Half(d) # "SendHalf"
  BY <1>1, WriterIsAlone
<1>3. /\ \A d \in Calls : d # c => at'[d] = at[d]
      /\ at'[c] \in {"Io", "Ok"} /\ at'[c] = "Io" => flagged' = flagged
      /\ \A d \in Calls : at'[d] # "Idle" <=> at[d] # "Idle"
      /\ \A d \in Calls : Queued(d)' => Queued(d)
      /\ \A d \in Calls : Half(d)' = Half(d)
  BY <1>1 DEF CallWrites, IInv, StreamTypeOK, Queued, Half
<1>4. \A i \in 1..Len(wire') :
        \/ i \in 1..n /\ wire'[i] = wire[i]
        \/ i = n + 1 /\ wire'[i] = <<c, sent[c] + 1>>
        \/ i = n + 2 /\ i = Len(wire') /\ wire'[i] = Fin /\ "SendHalf" \in flagged'
  BY <1>1 DEF CallWrites
<1>5. <<c, sent[c] + 1>> # Fin /\ <<c, sent[c] + 1>>[1] = c
  BY <1>1 DEF Fin
<1>6. StartedInOrder'
  BY <1>3 DEF IInv, StartedInOrder
<1>7. IoHasLock'
  <2> SUFFICES ASSUME NEW d \in Calls, at'[d] = "Io" PROVE HasLock(d)'
    BY DEF IoHasLock
  <2>1. HasLock(d)
    BY <1>1, <1>3 DEF IInv, IoHasLock
  <2> QED
    BY <1>3, <2>1, CallsAreNaturals DEF HasLock, Queued
<1>8. WritesBeforeEnd'
  <2> SUFFICES ASSUME "SendHalf" \in flagged', NEW d \in Calls, at'[d] = "Io"
               PROVE  Half(d) # "SendHalf"
    BY <1>3 DEF WritesBeforeEnd
  <2> QED
    BY <1>2, <1>3
<1>9. EndIsFlagged' /\ NothingFollowsEnd'
  BY <1>2, <1>4, <1>5 DEF EndIsFlagged, NothingFollowsEnd
<1>10. WrittenInTurn'
  <2> SUFFICES ASSUME NEW i \in 1..Len(wire'), wire'[i] # Fin
               PROVE  /\ wire'[i][1] \in Calls /\ at[wire'[i][1]] # "Idle"
                      /\ \A d \in Calls :
                           (d < wire'[i][1] /\ Queued(d)) => Half(d) # "SendHalf"
    BY <1>3 DEF WrittenInTurn
  <2>1. CASE i \in 1..n /\ wire'[i] = wire[i]
    BY <2>1 DEF IInv, WrittenInTurn
  <2>2. CASE wire'[i] = <<c, sent[c] + 1>>
    BY <1>1, <1>2, <1>5, <2>2
  <2> QED
    BY <1>4, <2>1, <2>2
<1>11. InOrder'
  <2> SUFFICES ASSUME NEW i \in 1..Len(wire'), NEW j \in 1..Len(wire'), i < j,
                      wire'[j] # Fin
               PROVE  wire'[i][1] <= wire'[j][1]
    BY DEF InOrder
  <2>1. i \in 1..n /\ wire'[i] = wire[i]
    BY <1>1, <1>4
  <2>2. CASE j \in 1..n /\ wire'[j] = wire[j]
    BY <2>1, <2>2 DEF IInv, InOrder
  <2>3. CASE wire'[j] = <<c, sent[c] + 1>>
    BY <1>2, <1>5, <2>1, <2>3
  <2> QED
    BY <1>4, <2>2, <2>3
<1>12. ASSUME NEW d \in Calls, d # c
       PROVE  ChunkOK(d)' /\ (at'[d] = "Idle" => sent'[d] = 0)
  <2>1. at'[d] = at[d] /\ op'[d] = op[d] /\ sent'[d] = sent[d]
    BY <1>3, <1>12 DEF CallWrites, IInv, StreamTypeOK
  <2>2. op[d] \in Sends => at[d] # "Io"
    BY <1>2, <1>12 DEF Half, Sends
  <2>3. Whole(d) => Whole(d)'
    BY <1>1, GrowthKeepsWhole DEF CallWrites
  <2> QED
    BY <2>1, <2>2, <2>3 DEF IInv, ChunksOK, ChunkOK
<1>13. ChunkOK(c)' /\ (at'[c] = "Idle" => sent'[c] = 0)
  <2>1. PartsAtEnd(c)
    BY <1>1 DEF IInv, ChunksOK, ChunkOK
  <2>2. sent'[c] = sent[c] + 1
    BY DEF CallWrites, IInv, StreamTypeOK
  <2>3. ASSUME NEW p \in 1..sent[c] + 1 PROVE wire'[n - sent[c] + p] = <<c, p>>
    <3>1. CASE p = sent[c] + 1
      <4>1. n - sent[c] + p = n + 1
        BY <1>1, <3>1
      <4> QED
        BY <3>1, <4>1 DEF CallWrites
    <3>2. CASE p # sent[c] + 1
      <4>1. p \in 1..sent[c] /\ n - sent[c] + p \in 1..n
        BY <1>1, <2>1, <3>2 DEF PartsAtEnd
      <4> QED
        BY <2>1, <4>1 DEF PartsAtEnd, CallWrites
    <3> QED
      BY <3>1, <3>2
  <2>4. CASE sent[c] + 1 < MaxParts
    <3>1. at'[c] = "Io" /\ Len(wire') = n + 1
      BY <1>1, <2>4 DEF CallWrites
    <3>2. \A p \in 1..sent'[c] : wire'[Len(wire') - sent'[c] + p] = <<c, p>>
      <4>1. \A p \in 1..sent[c] + 1 : (n + 1) - (sent[c] + 1) + p = n - sent[c] + p
        BY <1>1
      <4> QED
        BY <2>2, <2>3, <3>1, <4>1
    <3>3. PartsAtEnd(c)'
      BY <1>1, <2>1, <2>2, <2>4, <3>1, <3>2 DEF PartsAtEnd
    <3> QED
      BY <3>1, <3>3 DEF ChunkOK
  <2>5. CASE ~(sent[c] + 1 < MaxParts)
    <3>1. at'[c] = "Ok" /\ sent[c] + 1 = MaxParts
      BY <1>1, <2>1, <2>5, StreamAssumption DEF CallWrites, IInv, StreamTypeOK, PartsAtEnd
    <3>2. n - sent[c] \in 0..Len(wire') - MaxParts
      BY <1>1, <2>1, <3>1 DEF PartsAtEnd, CallWrites
    <3>3. Whole(c)'
      BY <2>3, <3>1, <3>2 DEF Whole
    <3> QED
      BY <3>1, <3>3 DEF ChunkOK
  <2> QED
    BY <2>4, <2>5
<1>14. ChunksOK'
  BY <1>12, <1>13 DEF ChunksOK
<1> QED
  BY <1>6, <1>7, <1>8, <1>9, <1>10, <1>11, <1>14 DEF IInv

LEMMA CallFinishesPreserves ==
  ASSUME IInv, StreamTypeOK', NEW c \in Calls, CallFinishes(c) PROVE IInv'
<1> DEFINE n == Len(wire)
<1>1. /\ n \in Nat /\ HasLock(c) /\ Half(c) = "SendHalf" /\ op[c] \notin Sends
      /\ at[c] = "Locking" /\ op' = op /\ sent' = sent /\ closed' = closed
  BY DEF CallFinishes, IInv, StreamTypeOK, Half, Sends
<1>2. /\ \A d \in Calls : d # c => at'[d] = at[d]
      /\ at'[c] = "Ok"
      /\ \A d \in Calls : at'[d] # "Idle" <=> at[d] # "Idle"
      /\ \A d \in Calls : Queued(d)' => Queued(d)
      /\ \A d \in Calls : Half(d)' = Half(d)
  BY <1>1 DEF CallFinishes, IInv, StreamTypeOK, Queued, Half
<1>3. \A i \in 1..Len(wire') :
        \/ i \in 1..n /\ wire'[i] = wire[i]
        \/ i = n + 1 /\ i = Len(wire') /\ wire'[i] = Fin /\ "SendHalf" \notin flagged
  BY <1>1 DEF CallFinishes
<1>4. StartedInOrder'
  BY <1>2 DEF IInv, StartedInOrder
<1>5. IoHasLock'
  <2> SUFFICES ASSUME NEW d \in Calls, at'[d] = "Io" PROVE HasLock(d)'
    BY DEF IoHasLock
  <2>1. HasLock(d)
    BY <1>2 DEF IInv, IoHasLock
  <2> QED
    BY <1>2, <2>1, CallsAreNaturals DEF HasLock, Queued
<1>6. WritesBeforeEnd'
  <2> SUFFICES ASSUME NEW d \in Calls, at'[d] = "Io" PROVE Half(d) # "SendHalf"
    BY <1>2 DEF WritesBeforeEnd
  <2>1. HasLock(d) /\ d # c
    BY <1>2 DEF IInv, IoHasLock
  <2> QED
    BY <1>1, <2>1, OneCallHasLock
<1>7. EndIsFlagged'
  BY <1>3 DEF EndIsFlagged, CallFinishes
<1>8. NothingFollowsEnd'
  <2> SUFFICES ASSUME NEW i \in 1..Len(wire'), wire'[i] = Fin PROVE i = Len(wire')
    BY DEF NothingFollowsEnd
  <2>1. CASE i \in 1..n /\ wire'[i] = wire[i]
    <3>1. i = n /\ "SendHalf" \in flagged
      BY <2>1 DEF IInv, NothingFollowsEnd, EndIsFlagged
    <3>2. wire' = wire
      BY <3>1 DEF CallFinishes
    <3> QED
      BY <3>1, <3>2
  <2> QED
    BY <1>3, <2>1
<1>9. WrittenInTurn'
  BY <1>2, <1>3 DEF IInv, WrittenInTurn
<1>10. InOrder'
  BY <1>1, <1>3 DEF IInv, InOrder
<1>11. ChunksOK'
  <2> SUFFICES ASSUME NEW d \in Calls
               PROVE  ChunkOK(d)' /\ (at'[d] = "Idle" => sent'[d] = 0)
    BY DEF ChunksOK
  <2>1. CASE d = c
    BY <1>1, <1>2, <2>1 DEF ChunkOK
  <2>2. CASE d # c
    <3>1. Whole(d) => Whole(d)'
      BY <1>1, GrowthKeepsWhole DEF CallFinishes
    <3>2. op[d] \in Sends => at[d] # "Io"
      BY <1>1, <2>2, OneCallHasLock DEF IInv, IoHasLock, Half, Sends
    <3> QED
      BY <1>1, <1>2, <2>2, <3>1, <3>2 DEF IInv, ChunksOK, ChunkOK
  <2> QED
    BY <2>1, <2>2
<1> QED
  BY <1>4, <1>5, <1>6, <1>7, <1>8, <1>9, <1>10, <1>11 DEF IInv

LEMMA StepPreserves ==
  ASSUME IInv, [StreamNext]_<<vars, streamVars>> PROVE IInv'
<1>1. Effect /\ StreamTypeOK'
  BY StepEffect DEF IInv
<1> QED
  BY <1>1, NoCallMovesPreserves, CallMovesPreserves, CallWritesPreserves,
     CallFinishesPreserves DEF Effect

LEMMA InvariantHolds == StreamSpec => []IInv
  BY InitEstablishes, StepPreserves, PTL DEF StreamSpec

-----------------------------------------------------------------------------

(* The send half ends once and nothing is written after its end
   (NothingFollowsEnd, stream.rs close_stream_send and send_stream_chunk). *)
THEOREM NothingIsWrittenAfterEnd == StreamSpec => []NothingFollowsEnd
<1>1. IInv => NothingFollowsEnd
  BY DEF IInv
<1> QED
  BY <1>1, InvariantHolds, PTL

(* However sends time out, are dropped or fail between two parts, a chunk whose
   send was accepted is on the wire in one piece and in its turn
   (AcceptedChunksStayWhole, stream.rs send_stream_chunk). *)
THEOREM AcceptedChunksAreWhole == StreamSpec => []AcceptedChunksStayWhole
<1>1. IInv => AcceptedChunksStayWhole
  BY DEF IInv, AcceptedChunksStayWhole, ChunksOK, ChunkOK, Whole, InOrder
<1> QED
  BY <1>1, InvariantHolds, PTL

-----------------------------------------------------------------------------
(* The endpoints beneath, for any number of dials and of endpoints bound in a
   run.  That the installed one is usable is not inductive by itself: a restart
   closes an endpoint that was bound before, so that a fresh one is another,
   and only the close of the node spawns tasks that close endpoints. *)

Places == {"Idle", "ClosingOld", "Binding", "Connecting", "Admitted", "Failed"}

EndpointTypeOK ==
  /\ endpoint \in [Endpoints -> {"Unbound", "Open", "Closed"}]
  /\ installed \in Endpoints \cup {0}
  /\ closing \subseteq Endpoints
  /\ closed \in BOOLEAN
  /\ dial \in [Dials -> Places]
  /\ held \in [Dials -> Endpoints \cup {0}]
  /\ conn \in [Dials -> Endpoints \cup {0}]

(* Only the close of the node spawns tasks that close endpoints. *)
ClosingNodeIsClosed == closing # {} => closed

(* A restart closes an endpoint that was bound: a fresh one is another. *)
OldEndpointsWereBound ==
  \A d \in Dials :
    dial[d] = "ClosingOld" => held[d] \in Endpoints /\ endpoint[held[d]] # "Unbound"

EndpointIInv ==
  /\ EndpointTypeOK
  /\ ClosingNodeIsClosed
  /\ OldEndpointsWereBound
  /\ InstalledEndpointIsUsable

-----------------------------------------------------------------------------

(* The first endpoint is installed and open. *)
LEMMA EndpointInitEstablishes == Init => EndpointIInv
<1> SUFFICES ASSUME Init PROVE EndpointIInv
  OBVIOUS
<1>1. 1 \in Endpoints /\ 0 \notin Endpoints
  BY EndpointAssumption DEF Endpoints
<1>2. EndpointTypeOK
  BY <1>1 DEF Init, EndpointTypeOK, Places
<1> QED
  BY <1>1, <1>2 DEF Init, EndpointIInv, ClosingNodeIsClosed, OldEndpointsWereBound,
     InstalledEndpointIsUsable

(* A restart takes the installed endpoint before it closes it. *)
LEMMA RestartPreserves ==
  ASSUME EndpointIInv, NEW d \in Dials, Restart(d) PROVE EndpointIInv'
<1> USE DEF Restart, Holds, At
<1>1. EndpointTypeOK'
  BY DEF EndpointIInv, EndpointTypeOK, Places
<1>2. ClosingNodeIsClosed'
  BY DEF EndpointIInv, ClosingNodeIsClosed
<1>3. OldEndpointsWereBound'
  <2> SUFFICES ASSUME NEW f \in Dials, dial'[f] = "ClosingOld"
               PROVE  held'[f] \in Endpoints /\ endpoint'[held'[f]] # "Unbound"
    BY DEF OldEndpointsWereBound
  <2>1. CASE f = d
    BY <2>1 DEF EndpointIInv, EndpointTypeOK, InstalledEndpointIsUsable
  <2>2. CASE f # d
    BY <2>2 DEF EndpointIInv, EndpointTypeOK, OldEndpointsWereBound
  <2> QED
    BY <2>1, <2>2
<1>4. InstalledEndpointIsUsable'
  BY DEF InstalledEndpointIsUsable
<1> QED
  BY <1>1, <1>2, <1>3, <1>4 DEF EndpointIInv

(* The endpoint that closes is no longer the installed one. *)
LEMMA OldEndpointClosesPreserves ==
  ASSUME EndpointIInv, NEW d \in Dials, OldEndpointCloses(d) PROVE EndpointIInv'
<1> USE DEF OldEndpointCloses, Holds, At
<1>1. held[d] \in Endpoints
  BY DEF EndpointIInv, OldEndpointsWereBound
<1>2. EndpointTypeOK'
  BY <1>1 DEF EndpointIInv, EndpointTypeOK, Places
<1>3. ClosingNodeIsClosed'
  BY DEF EndpointIInv, ClosingNodeIsClosed
<1>4. OldEndpointsWereBound'
  <2> SUFFICES ASSUME NEW f \in Dials, dial'[f] = "ClosingOld"
               PROVE  held'[f] \in Endpoints /\ endpoint'[held'[f]] # "Unbound"
    BY DEF OldEndpointsWereBound
  <2>1. f # d /\ dial[f] = "ClosingOld" /\ held'[f] = held[f]
    BY DEF EndpointIInv, EndpointTypeOK
  <2> QED
    BY <1>1, <2>1 DEF EndpointIInv, EndpointTypeOK, OldEndpointsWereBound
<1>5. InstalledEndpointIsUsable'
  <2> SUFFICES ASSUME installed # 0
               PROVE  InstalledEndpointIsUsable'
    BY DEF InstalledEndpointIsUsable
  <2>1. held[d] # installed /\ endpoint'[installed] = "Open"
    BY <1>1 DEF EndpointIInv, EndpointTypeOK, InstalledEndpointIsUsable
  <2>2. \A f \in Dials : dial'[f] = "ClosingOld" => held'[f] # installed
    BY DEF EndpointIInv, EndpointTypeOK, InstalledEndpointIsUsable
  <2> QED
    BY <2>1, <2>2 DEF EndpointIInv, InstalledEndpointIsUsable
<1> QED
  BY <1>2, <1>3, <1>4, <1>5 DEF EndpointIInv

(* The new endpoint was not bound before, so nobody closes it, and it is
   installed only where the node is still open. *)
LEMMA BindsAndInstallsPreserves ==
  ASSUME EndpointIInv, NEW d \in Dials, NEW e \in Endpoints, BindsAndInstalls(d, e) PROVE EndpointIInv'
<1> USE DEF BindsAndInstalls, Holds, At
<1>1. endpoint[e] = "Unbound" /\ dial[d] = "Binding"
  BY DEF Fresh
<1>2. EndpointTypeOK'
  BY DEF EndpointIInv, EndpointTypeOK, Places
<1>3. ClosingNodeIsClosed'
  BY DEF EndpointIInv, ClosingNodeIsClosed
<1>4. \A f \in Dials : dial'[f] = "ClosingOld" =>
        /\ f # d /\ held'[f] = held[f] /\ held[f] \in Endpoints
        /\ held[f] # e /\ endpoint'[held[f]] = endpoint[held[f]]
        /\ endpoint[held[f]] # "Unbound"
  <2> SUFFICES ASSUME NEW f \in Dials, dial'[f] = "ClosingOld"
               PROVE  /\ f # d /\ held'[f] = held[f] /\ held[f] \in Endpoints
                      /\ held[f] # e /\ endpoint'[held[f]] = endpoint[held[f]]
                      /\ endpoint[held[f]] # "Unbound"
    OBVIOUS
  <2>1. f # d /\ dial[f] = "ClosingOld" /\ held'[f] = held[f]
    BY DEF EndpointIInv, EndpointTypeOK
  <2>2. held[f] \in Endpoints /\ endpoint[held[f]] # "Unbound"
    BY <2>1 DEF EndpointIInv, OldEndpointsWereBound
  <2> QED
    BY <1>1, <2>1, <2>2 DEF EndpointIInv, EndpointTypeOK
<1>5. OldEndpointsWereBound'
  BY <1>4 DEF OldEndpointsWereBound
<1>6. InstalledEndpointIsUsable'
  <2>1. CASE closed
    BY <2>1 DEF EndpointIInv, InstalledEndpointIsUsable
  <2>2. CASE ~closed
    <3>1. installed' = e /\ endpoint'[e] = "Open" /\ ~closed'
      BY <2>2 DEF EndpointIInv, EndpointTypeOK
    <3> QED
      BY <3>1, <1>4 DEF InstalledEndpointIsUsable
  <2> QED
    BY <2>1, <2>2
<1> QED
  BY <1>2, <1>3, <1>5, <1>6 DEF EndpointIInv

(* The steps of a dial that leave endpoints and node as they are. *)
LEMMA OtherDialStepsPreserve ==
  ASSUME EndpointIInv, NEW d \in Dials, BindFails(d) \/ ConnectSucceeds(d) \/ ConnectFails(d)
  PROVE  EndpointIInv'
<1> USE DEF BindFails, ConnectSucceeds, ConnectFails, Holds, At
<1>1. EndpointTypeOK'
  BY DEF EndpointIInv, EndpointTypeOK, Places
<1>2. \A f \in Dials : dial'[f] = "ClosingOld" =>
        dial[f] = "ClosingOld" /\ held'[f] = held[f]
  BY DEF EndpointIInv, EndpointTypeOK
<1>3. ClosingNodeIsClosed'
  BY DEF EndpointIInv, ClosingNodeIsClosed
<1>4. OldEndpointsWereBound'
  BY <1>2 DEF EndpointIInv, OldEndpointsWereBound
<1>5. InstalledEndpointIsUsable'
  BY <1>2 DEF EndpointIInv, InstalledEndpointIsUsable
<1> QED
  BY <1>1, <1>3, <1>4, <1>5 DEF EndpointIInv

(* The close of the node leaves nothing installed. *)
LEMMA CloseNodePreserves ==
  ASSUME EndpointIInv, CloseNode PROVE EndpointIInv'
<1> USE DEF CloseNode
<1>1. EndpointTypeOK'
  BY DEF EndpointIInv, EndpointTypeOK
<1> QED
  BY <1>1 DEF EndpointIInv, ClosingNodeIsClosed, OldEndpointsWereBound, InstalledEndpointIsUsable

(* A spawned close runs on a closed node, where nothing is installed. *)
LEMMA SpawnedClosePreserves ==
  ASSUME EndpointIInv, NEW e \in Endpoints, SpawnedClose(e) PROVE EndpointIInv'
<1> USE DEF SpawnedClose
<1>1. closed /\ installed = 0
  BY DEF EndpointIInv, ClosingNodeIsClosed, InstalledEndpointIsUsable
<1>2. EndpointTypeOK'
  BY DEF EndpointIInv, EndpointTypeOK
<1>3. OldEndpointsWereBound'
  BY DEF EndpointIInv, EndpointTypeOK, OldEndpointsWereBound
<1> QED
  BY <1>1, <1>2, <1>3 DEF EndpointIInv, ClosingNodeIsClosed, InstalledEndpointIsUsable

(* Every step of the node preserves the invariant. *)
LEMMA EndpointNextPreserves == EndpointIInv /\ [Next]_vars => EndpointIInv'
<1> SUFFICES ASSUME EndpointIInv, [Next]_vars PROVE EndpointIInv'
  OBVIOUS
<1>1. ASSUME NEW d \in Dials, DialStep(d) PROVE EndpointIInv'
  BY <1>1, RestartPreserves, OldEndpointClosesPreserves, BindsAndInstallsPreserves,
     OtherDialStepsPreserve DEF DialStep
<1>2. ASSUME NEW e \in Endpoints, SpawnedClose(e) PROVE EndpointIInv'
  BY <1>2, SpawnedClosePreserves
<1>3. CASE UNCHANGED vars
  BY <1>3 DEF vars, EndpointIInv, EndpointTypeOK, ClosingNodeIsClosed, OldEndpointsWereBound,
     InstalledEndpointIsUsable
<1> QED
  BY <1>1, <1>2, <1>3, CloseNodePreserves DEF Next

(* The installed endpoint is usable, for any dials and endpoints (core.rs
   restart_webrtc_endpoint, close_inner). *)
THEOREM InstalledEndpointStaysUsable == Spec => []InstalledEndpointIsUsable
<1>1. EndpointIInv => InstalledEndpointIsUsable
  BY DEF EndpointIInv
<1> QED
  BY EndpointInitEstablishes, EndpointNextPreserves, <1>1, PTL DEF Spec
=============================================================================
