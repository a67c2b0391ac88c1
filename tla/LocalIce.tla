------------------------------- MODULE LocalIce -------------------------------
(***************************************************************************)
(* The local ICE candidates of a peer connection on their way to the peer: *)
(* the browser's icecandidate events push them into the bounded            *)
(* LocalIceQueue (core/hub.rs), the end of gathering as a last event of    *)
(* its own, and the drain loop of the session takes them out and hands     *)
(* them to the signal writer until it meets that event                     *)
(* (browser_runtime/direct/dial.rs, bootstrap.rs).                         *)
(***************************************************************************)
EXTENDS Naturals, Sequences, SequencesExt

CONSTANTS Capacity,       \* local_ice_queue_capacity
          MaxCandidates   \* bound: candidates the browser gathers

ASSUME IceAssumption == Capacity \in Nat \ {0} /\ MaxCandidates \in Nat

VARIABLES queue,      \* queued events, at most Capacity: candidate numbers, or End
          closed,     \* the queue was closed with the peer connection
          drainWaker,  \* the waker of the drain loop is stored
          gathered,   \* candidates the browser reported
          ended,      \* the browser reported the end of gathering
          drain,      \* the drain loop: "None" before it is spawned, "Ready",
                      \* "Waiting", "Done", "Failed"
          signalled   \* events handed to the signal writer, in order

iceVars == <<queue, closed, drainWaker, gathered, ended, drain, signalled>>

End == MaxCandidates + 1   \* EndOfCandidates; candidates count from 1

IceInit ==
  /\ queue = <<>> /\ closed = FALSE /\ drainWaker = FALSE
  /\ gathered = 0 /\ ended = FALSE
  /\ drain = "None" /\ signalled = <<>>

-----------------------------------------------------------------------------

WakeDrain ==
  /\ drainWaker' = FALSE
  /\ drain' = IF drainWaker /\ drain = "Waiting" THEN "Ready" ELSE drain

Unchanged == UNCHANGED <<queue, drainWaker, drain>>

(* Mutant: the end of gathering is refused like any event by a full queue. *)
PushOrRefuse(event) ==
  IF Len(queue) < Capacity
  THEN queue' = Append(queue, event) /\ WakeDrain
  ELSE Unchanged

(* A full queue refuses a candidate, and gives up its oldest event for the end
   of gathering unless it holds one already. *)
Push(event) ==
  IF Len(queue) < Capacity
  THEN queue' = Append(queue, event) /\ WakeDrain
  ELSE IF event = End /\ ~Contains(queue, End)
       THEN queue' = Append(Tail(queue), End) /\ WakeDrain
       ELSE Unchanged

(* icecandidate events.  A push that is refused is ignored. *)
Gather ==
  /\ ~ended /\ gathered < MaxCandidates
  /\ gathered' = gathered + 1
  /\ IF closed THEN Unchanged ELSE Push(gathered + 1)
  /\ UNCHANGED <<closed, ended, signalled>>

(* The end may be reported twice. *)
GatheringEnds ==
  /\ ended' = TRUE
  /\ IF closed THEN Unchanged ELSE Push(End)
  /\ UNCHANGED <<closed, gathered, signalled>>

Close ==
  /\ closed' = TRUE
  /\ WakeDrain

-----------------------------------------------------------------------------
(* The drain loop: poll_next, then the event goes to the signal writer *)

SignalNext ==
  /\ drain = "Ready" /\ queue # <<>>
  /\ queue' = Tail(queue)
  /\ signalled' = Append(signalled, queue[1])
  /\ drain' = IF queue[1] = End THEN "Done" ELSE "Ready"
  /\ UNCHANGED <<closed, drainWaker, gathered, ended>>

(* The writer is gone: the event is lost and the loop ends. *)
SignalFails ==
  /\ drain = "Ready" /\ queue # <<>>
  /\ queue' = Tail(queue)
  /\ drain' = "Failed"
  /\ UNCHANGED <<closed, drainWaker, gathered, ended, signalled>>

(* The peer connection of a closed queue is no longer registered either, so
   what is still queued may not be asked for. *)
NextClosed ==
  /\ drain = "Ready" /\ closed
  /\ drain' = "Failed"
  /\ UNCHANGED <<queue, closed, drainWaker, gathered, ended, signalled>>

NextPending ==
  /\ drain = "Ready" /\ queue = <<>> /\ ~closed
  /\ drainWaker' = TRUE
  /\ drain' = "Waiting"
  /\ UNCHANGED <<queue, closed, gathered, ended, signalled>>
=============================================================================
