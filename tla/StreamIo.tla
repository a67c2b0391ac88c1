------------------------------- MODULE StreamIo -------------------------------
(***************************************************************************)
(* One bidirectional stream of an admitted connection                      *)
(* (browser_runtime/node/stream.rs) beside the endpoints of its node: the  *)
(* connection runs on one of them and ends with it, and the close of the   *)
(* node takes both in one step.                                            *)
(*                                                                         *)
(* Calls of the application queue for the mutex of the half they use and   *)
(* look at the flag of that half before and after they have it.  A chunk   *)
(* goes out in parts, and a write may stop between two of them.            *)
(***************************************************************************)
EXTENDS EndpointLifecycle, Sequences

CONSTANTS StreamDial,   \* the dial whose connection the stream belongs to
          MaxCalls,     \* bound: calls made on the stream
          MaxParts      \* parts of a chunk

ASSUME StreamAssumption ==
  StreamDial \in Dials /\ MaxCalls \in Nat \ {0} /\ MaxParts \in Nat \ {0}

Calls == 1..MaxCalls   \* in the order they are made
Ops   == {"Send", "SendLast", "CloseSend", "Receive"}
Sends == {"Send", "SendLast"}
Fin   == <<0, 0>>      \* the end of the send half

VARIABLES
  stream,     \* "None", "Opening", "Open" while streams has it, "Gone"
  lost,       \* the connection was closed by the application or the peer
  flagged,    \* halves whose closed flag is set
  cancelled,  \* halves whose Notify was triggered
  op, at,     \* call -> what it does, and where it is: "Idle", "Locking", "Io"
              \* or one of Outcomes
  sent,       \* call -> parts of its chunk that were written
  wire        \* what was written: <<call, part>> and Fin

callVars == <<op, at, sent, wire>>
streamVars == <<stream, lost, flagged, cancelled, callVars>>

Halves == {"SendHalf", "RecvHalf"}
Half(c) == IF op[c] = "Receive" THEN "RecvHalf" ELSE "SendHalf"
Outcomes == {"Ok", "Closed", "Failed", "Dropped"}

StreamInit ==
  /\ Init
  /\ stream = "None" /\ lost = FALSE
  /\ flagged = {} /\ cancelled = {}
  /\ op = [c \in Calls |-> "None"] /\ at = [c \in Calls |-> "Idle"]
  /\ sent = [c \in Calls |-> 0] /\ wire = << >>

Linked == dial[StreamDial] = "Admitted" /\ ~closed /\ ~lost
            /\ endpoint[conn[StreamDial]] = "Open"

-----------------------------------------------------------------------------
(* open_bi and accept_bi: the connection is looked up, the stream awaited and
   then inserted unless the node was closed meanwhile. *)

OpenStream ==
  /\ stream = "None" /\ dial[StreamDial] = "Admitted" /\ ~closed
  /\ stream' = "Opening"
  /\ UNCHANGED <<vars, lost, flagged, cancelled, callVars>>

StreamOpens ==
  /\ stream = "Opening"
  /\ stream' = IF closed THEN "Gone" ELSE "Open"
  /\ UNCHANGED <<vars, lost, flagged, cancelled, callVars>>

OpenFails ==
  /\ stream = "Opening" /\ ~Linked
  /\ stream' = "None"
  /\ UNCHANGED <<vars, lost, flagged, cancelled, callVars>>

(* connection_close, or a close by the peer. *)
ConnectionEnds ==
  /\ Linked
  /\ lost' = TRUE
  /\ UNCHANGED <<vars, stream, flagged, cancelled, callVars>>

-----------------------------------------------------------------------------
(* Calls *)

Place(c, place) == at' = [at EXCEPT ![c] = place]

(* Calls that have a mutex or queue for it.  The queue is fair, so the mutex
   is with the oldest of them. *)
Queued(c) == at[c] \in {"Locking", "Io"}
HasLock(c) == Queued(c) /\ \A d \in 1..c - 1 : Queued(d) => Half(d) # Half(c)

(* stream_handle: the key of a stream is refused once the node was closed. *)
StreamRefused == stream = "Gone"

(* A half whose flag is set answers at once, a receive with the end of the
   stream. *)
StartCall(c, o) ==
  LET half == IF o = "Receive" THEN "RecvHalf" ELSE "SendHalf"
  IN /\ at[c] = "Idle" /\ \A d \in 1..c - 1 : at[d] # "Idle"
     /\ stream \in {"Open", "Gone"}
     /\ op' = [op EXCEPT ![c] = o]
     /\ Place(c, IF StreamRefused \/ (half \in flagged /\ o \in Sends) THEN "Closed"
                 ELSE IF half \in flagged THEN "Ok" ELSE "Locking")
     /\ UNCHANGED <<vars, stream, lost, flagged, cancelled, sent, wire>>

(* Mutant: the flag is not asked again. *)
LockedUnasked(c) ==
  /\ at[c] = "Locking" /\ HasLock(c) /\ op[c] # "CloseSend"
  /\ Place(c, "Io")
  /\ UNCHANGED <<vars, stream, lost, flagged, cancelled, op, sent, wire>>

(* The mutex is free and the flag is asked again. *)
Locked(c) ==
  /\ at[c] = "Locking" /\ HasLock(c) /\ op[c] # "CloseSend"
  /\ Place(c, IF Half(c) \notin flagged THEN "Io"
              ELSE IF op[c] = "Receive" THEN "Ok" ELSE "Closed")
  /\ UNCHANGED <<vars, stream, lost, flagged, cancelled, op, sent, wire>>

(* The next part of a chunk, with the end of the half behind the last chunk.
   The send returns with the poll that writes the last part. *)
PartWritten(c) ==
  LET part == <<c, sent[c] + 1>>
  IN /\ op[c] \in Sends /\ Linked
     /\ sent' = [sent EXCEPT ![c] = @ + 1]
     /\ IF sent[c] + 1 < MaxParts
        THEN wire' = Append(wire, part) /\ UNCHANGED <<at, flagged>>
        ELSE /\ Place(c, "Ok")
             /\ IF op[c] = "SendLast"
                THEN wire' = wire \o <<part, Fin>> /\ flagged' = flagged \cup {"SendHalf"}
                ELSE wire' = Append(wire, part) /\ UNCHANGED flagged
     /\ UNCHANGED <<vars, stream, lost, cancelled, op>>

(* Mutant: a write does not wait for the mutex. *)
WritesUnlocked(c) == at[c] \in {"Locking", "Io"} /\ PartWritten(c)

WritePart(c) == at[c] = "Io" /\ PartWritten(c)

(* close_stream_send: whoever sets the flag finishes the half. *)
CloseSend(c) ==
  /\ at[c] = "Locking" /\ HasLock(c) /\ op[c] = "CloseSend"
  /\ flagged' = flagged \cup {"SendHalf"}
  /\ wire' = IF "SendHalf" \in flagged THEN wire ELSE Append(wire, Fin)
  /\ Place(c, "Ok")
  /\ UNCHANGED <<vars, stream, lost, cancelled, op, sent>>

(* A chunk of the peer or the end of its stream arrives. *)
ReadChunk(c) ==
  /\ at[c] = "Io" /\ op[c] = "Receive" /\ Linked
  /\ Place(c, "Ok")
  /\ UNCHANGED <<vars, stream, lost, flagged, cancelled, op, sent, wire>>

Cancelled(c) ==
  /\ at[c] = "Io" /\ Half(c) \in cancelled
  /\ Place(c, IF op[c] = "Receive" THEN "Ok" ELSE "Closed")
  /\ UNCHANGED <<vars, stream, lost, flagged, cancelled, op, sent, wire>>

(* The connection is gone, or a write took too long; the stream stays as it
   is, with the parts that were written. *)
IoFails(c) ==
  /\ at[c] = "Io" /\ (op[c] \in Sends \/ ~Linked)
  /\ Place(c, "Failed")
  /\ UNCHANGED <<vars, stream, lost, flagged, cancelled, op, sent, wire>>

(* The application drops the future of a call. *)
DropCall(c) ==
  /\ at[c] \in {"Locking", "Io"}
  /\ Place(c, "Dropped")
  /\ UNCHANGED <<vars, stream, lost, flagged, cancelled, op, sent, wire>>

-----------------------------------------------------------------------------
(* close_inner *)

(* Mutant: only a half whose mutex is free hears of the close. *)
CloseStreamsFree ==
  /\ flagged' = Halves
  /\ cancelled' = {h \in Halves : \A c \in Calls : Queued(c) => Half(c) # h}
  /\ stream' = IF stream = "Open" THEN "Gone" ELSE stream

CloseStreams ==
  IF stream = "Open"
  THEN /\ flagged' = Halves
       /\ cancelled' = Halves
       /\ stream' = "Gone"
  ELSE UNCHANGED <<flagged, cancelled, stream>>

CloseNodeAndStreams ==
  /\ CloseNode
  /\ CloseStreams
  /\ UNCHANGED <<lost, callVars>>

-----------------------------------------------------------------------------

EndpointStep ==
  /\ (\E d \in Dials : DialStep(d)) \/ (\E e \in Endpoints : SpawnedClose(e))
  /\ UNCHANGED streamVars

CallStep(c) == Locked(c) \/ CloseSend(c) \/ Cancelled(c)

StreamNext ==
  \/ EndpointStep \/ CloseNodeAndStreams
  \/ OpenStream \/ StreamOpens \/ OpenFails \/ ConnectionEnds
  \/ \E c \in Calls :
       \/ \E o \in Ops : StartCall(c, o)
       \/ CallStep(c) \/ WritePart(c) \/ ReadChunk(c) \/ IoFails(c) \/ DropCall(c)

(* A call that can go on is polled by the page; nothing is assumed of the
   connection, its errors included. *)
StreamSpec ==
  /\ StreamInit
  /\ [][StreamNext]_<<vars, streamVars>>
  /\ \A c \in Calls : WF_<<vars, streamVars>>(CallStep(c))

-----------------------------------------------------------------------------

(* A chunk whose send returned success is on the wire in one piece, after the
   chunks of earlier calls, although writes before and after it stop half way
   when they time out, are dropped or lose the mutex to a close. *)
AcceptedChunksStayWhole ==
  /\ \A c \in Calls :
       (op[c] \in Sends /\ at[c] = "Ok") =>
         \E i \in 0..Len(wire) - MaxParts : \A p \in 1..MaxParts : wire[i + p] = <<c, p>>
  /\ \A i, j \in 1..Len(wire) : (i < j /\ wire[j] # Fin) => wire[i][1] <= wire[j][1]

(* The send half is finished once, by the last chunk or by close_stream_send,
   and a call that queued before the end writes nothing after it. *)
NothingFollowsEnd ==
  \A i \in 1..Len(wire) : wire[i] = Fin => i = Len(wire)

(* The close of the node ends every call on the stream, the one that has the
   mutex and those that wait for it, without help from the connection. *)
StreamCallsEndWithNode ==
  \A c \in Calls : (closed /\ at[c] \in {"Locking", "Io"}) ~> at[c] \in Outcomes
=============================================================================
