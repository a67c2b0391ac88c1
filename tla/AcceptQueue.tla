------------------------------ MODULE AcceptQueue ------------------------------
(***************************************************************************)
(* How connections a browser node admits reach the application: the accept *)
(* registration of one ALPN (browser_runtime/node/accept_state.rs,         *)
(* connection.rs) and the acceptors the facade hands out for it            *)
(* (browser/facade.rs).  A registration lives as long as the node; an      *)
(* acceptor claims it, and every accept call either takes a queued         *)
(* connection or waits on a oneshot of its own, which a dropped call       *)
(* leaves in the registration.                                             *)
(***************************************************************************)
EXTENDS Naturals, Sequences

CONSTANTS Acceptors,    \* acceptors the application opens, one after the other
          Calls,        \* accept calls
          Capacity,     \* capacity of the accept queue
          MaxIncoming   \* bound: connections that arrive in a run

ASSUME AcceptAssumption ==
  /\ "None" \notin Acceptors
  /\ Capacity \in Nat /\ MaxIncoming \in Nat

VARIABLES claimed,    \* an acceptor holds the registration
          queue,      \* admitted connections nobody accepted yet
          waiters,    \* calls whose oneshot the registration holds, oldest first
          gone,       \* history: connections a full queue refused or a close dropped
          nodeClosed,
          acceptor,   \* acceptor -> "New", "Open", "Closed"
          call,       \* call -> its state
          owner,      \* call -> the acceptor it was made on, or "None"
          got,        \* call -> the connection it was given, or 0
          arrived,    \* connections that arrived so far; the number of the last
          handedOut   \* connections given to calls, in order

registration == <<claimed, queue, waiters, gone>>
vars == <<registration, nodeClosed, acceptor, call, owner, got, arrived, handedOut>>

(* "Answered" and "Done": the oneshot was sent to, the call has yet to see it. *)
CallStates == {"Idle", "Waiting", "Answered", "Done", "Returned", "Dropped"}

TypeOK ==
  /\ claimed \in BOOLEAN /\ nodeClosed \in BOOLEAN
  /\ queue \in Seq(1..MaxIncoming) /\ Len(queue) <= Capacity
  /\ waiters \in Seq(Calls) /\ gone \subseteq 1..MaxIncoming
  /\ acceptor \in [Acceptors -> {"New", "Open", "Closed"}]
  /\ call \in [Calls -> CallStates]
  /\ owner \in [Calls -> Acceptors \cup {"None"}]
  /\ got \in [Calls -> 0..MaxIncoming]
  /\ arrived \in 0..MaxIncoming
  /\ handedOut \in Seq(1..MaxIncoming)

Init ==
  /\ claimed = FALSE /\ queue = <<>> /\ waiters = <<>> /\ gone = {}
  /\ nodeClosed = FALSE
  /\ acceptor = [a \in Acceptors |-> "New"]
  /\ call = [c \in Calls |-> "Idle"]
  /\ owner = [c \in Calls |-> "None"]
  /\ got = [c \in Calls |-> 0]
  /\ arrived = 0 /\ handedOut = <<>>

-----------------------------------------------------------------------------

Open(a) ==
  /\ acceptor[a] = "New" /\ ~nodeClosed /\ ~claimed
  /\ acceptor' = [acceptor EXCEPT ![a] = "Open"]
  /\ claimed' = TRUE
  /\ UNCHANGED <<queue, waiters, gone, nodeClosed, call, owner, got, arrived, handedOut>>

(* The first step of accept(); neither the acceptor's own closed flag nor the
   claim is asked for. *)
Calling(a, c) ==
  /\ acceptor[a] # "New" /\ call[c] = "Idle"
  /\ owner' = [owner EXCEPT ![c] = a]
  /\ UNCHANGED <<claimed, gone, nodeClosed, acceptor, arrived>>

AcceptOnClosed(a, c) ==
  /\ Calling(a, c) /\ nodeClosed
  /\ call' = [call EXCEPT ![c] = "Done"]
  /\ UNCHANGED <<queue, waiters, got, handedOut>>

AcceptTakes(a, c) ==
  /\ Calling(a, c) /\ ~nodeClosed /\ queue # <<>>
  /\ call' = [call EXCEPT ![c] = "Answered"]
  /\ got' = [got EXCEPT ![c] = queue[1]]
  /\ handedOut' = Append(handedOut, queue[1])
  /\ queue' = Tail(queue)
  /\ UNCHANGED waiters

(* Mutant: a call waits although a connection is queued. *)
AcceptWaitsRegardless(a, c) ==
  /\ Calling(a, c) /\ ~nodeClosed
  /\ call' = [call EXCEPT ![c] = "Waiting"]
  /\ waiters' = Append(waiters, c)
  /\ UNCHANGED <<queue, got, handedOut>>

AcceptWaits(a, c) ==
  /\ Calling(a, c) /\ ~nodeClosed /\ queue = <<>>
  /\ call' = [call EXCEPT ![c] = "Waiting"]
  /\ waiters' = Append(waiters, c)
  /\ UNCHANGED <<queue, got, handedOut>>

(* Done marks the acceptor closed. *)
AcceptReturns(c) ==
  /\ call[c] \in {"Answered", "Done"}
  /\ call' = [call EXCEPT ![c] = "Returned"]
  /\ acceptor' = IF call[c] = "Done" THEN [acceptor EXCEPT ![owner[c]] = "Closed"] ELSE acceptor
  /\ UNCHANGED <<registration, nodeClosed, owner, got, arrived, handedOut>>

(* The application drops the call, with the connection if it was given one. *)
DropAccept(c) ==
  /\ call[c] \in {"Waiting", "Answered", "Done"}
  /\ call' = [call EXCEPT ![c] = "Dropped"]
  /\ UNCHANGED <<registration, nodeClosed, acceptor, owner, got, arrived, handedOut>>

(* close_acceptor. *)
Empty ==
  /\ queue' = <<>> /\ gone' = gone \cup {queue[i] : i \in 1..Len(queue)}
  /\ waiters' = <<>>
  /\ call' = [c \in Calls |-> IF call[c] = "Waiting" THEN "Done" ELSE call[c]]

Close(a) ==
  /\ acceptor[a] = "Open"
  /\ acceptor' = [acceptor EXCEPT ![a] = "Closed"]
  /\ IF nodeClosed
     THEN UNCHANGED <<registration, call>>
     ELSE claimed' = FALSE /\ Empty
  /\ UNCHANGED <<nodeClosed, owner, got, arrived, handedOut>>

(* The registration goes with the node. *)
CloseNode ==
  /\ ~nodeClosed
  /\ nodeClosed' = TRUE
  /\ claimed' = FALSE /\ Empty
  /\ UNCHANGED <<acceptor, owner, got, arrived, handedOut>>

-----------------------------------------------------------------------------

(* The places of calls in the registration that still wait. *)
Live == {i \in 1..Len(waiters) : call[waiters[i]] = "Waiting"}

Oldest(i) == \A j \in Live : i <= j

(* The call at place i is answered; it and what is before it leave the list. *)
Wake(i, connection) ==
  /\ waiters' = SubSeq(waiters, i + 1, Len(waiters))
  /\ call' = [call EXCEPT ![waiters[i]] = "Answered"]
  /\ got' = [got EXCEPT ![waiters[i]] = connection]
  /\ handedOut' = Append(handedOut, connection)

(* A full queue refuses the connection. *)
Enqueue(connection) ==
  IF Len(queue) < Capacity
  THEN queue' = Append(queue, connection) /\ UNCHANGED gone
  ELSE gone' = gone \cup {connection} /\ UNCHANGED queue

(* Mutant: the connection is queued as well as given to the call. *)
PushAndWake(connection) ==
  /\ Enqueue(connection)
  /\ \/ \E i \in Live : Oldest(i) /\ Wake(i, connection)
     \/ Live = {} /\ waiters' = <<>> /\ UNCHANGED <<call, got, handedOut>>

(* Mutant: the connection goes to the oldest oneshot, of a dropped call too. *)
PushOrSwallow(connection) ==
  \/ /\ waiters # <<>> /\ waiters' = Tail(waiters)
     /\ IF call[waiters[1]] = "Waiting" THEN Wake(1, connection)
                                        ELSE UNCHANGED <<call, got, handedOut>>
     /\ UNCHANGED <<queue, gone>>
  \/ /\ waiters = <<>> /\ UNCHANGED waiters
     /\ Enqueue(connection)
     /\ UNCHANGED <<call, got, handedOut>>

(* Oneshots of dropped calls are thrown away on the way to the oldest call
   that still waits. *)
PushOrWake(connection) ==
  \/ \E i \in Live : Oldest(i) /\ Wake(i, connection) /\ UNCHANGED <<queue, gone>>
  \/ /\ Live = {} /\ waiters' = <<>>
     /\ Enqueue(connection)
     /\ UNCHANGED <<call, got, handedOut>>

(* The application may have dropped or closed every acceptor by now: what is
   queued waits for the next one. *)
Admit ==
  /\ ~nodeClosed /\ arrived < MaxIncoming
  /\ arrived' = arrived + 1
  /\ PushOrWake(arrived + 1)
  /\ UNCHANGED <<claimed, nodeClosed, acceptor, owner>>

Next ==
  \/ \E a \in Acceptors : Open(a) \/ Close(a)
  \/ \E a \in Acceptors, c \in Calls :
       AcceptOnClosed(a, c) \/ AcceptTakes(a, c) \/ AcceptWaits(a, c)
  \/ \E c \in Calls : AcceptReturns(c) \/ DropAccept(c)
  \/ Admit
  \/ CloseNode

Spec == Init /\ [][Next]_vars

-----------------------------------------------------------------------------

InOrder == \A i, j \in 1..Len(handedOut) : i < j => handedOut[i] < handedOut[j]

NoneIsSwallowed ==
  \A n \in 1..arrived :
    \/ n \in gone
    \/ \E i \in 1..Len(handedOut) : handedOut[i] = n
    \/ \E i \in 1..Len(queue) : queue[i] = n

(* Connections reach the application in the order they arrived, no connection
   reaches it twice, and all do but those a full queue refused or a close threw
   out, whatever calls wait, are dropped, or are made on an acceptor that was
   closed meanwhile: the oneshot of a dropped call swallows none. *)
HandedOutInOrder == InOrder /\ NoneIsSwallowed

(* A call never waits beside a queued connection, nor for a node that is
   closed: the registration still knows every call that waits. *)
NobodyWaitsInVain ==
  \A c \in Calls :
    call[c] = "Waiting" =>
      /\ queue = <<>> /\ ~nodeClosed
      /\ \E i \in 1..Len(waiters) : waiters[i] = c
=============================================================================
