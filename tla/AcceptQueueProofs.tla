--------------------------- MODULE AcceptQueueProofs ---------------------------
(***************************************************************************)
(* The accept queue of one ALPN for any acceptors, calls and capacity: the *)
(* order in which connections are handed out rests on no call waiting      *)
(* beside a queued connection, and both on the registration knowing every  *)
(* call that waits.                                                        *)
(***************************************************************************)
EXTENDS AcceptQueue, SequenceTheorems, TLAPS

(* What the order of the connections that were handed out rests on. *)
QueueInOrder ==
  /\ \A i, j \in 1..Len(queue) : i < j => queue[i] < queue[j]
  /\ \A i \in 1..Len(queue) : queue[i] <= arrived
  /\ \A i \in 1..Len(handedOut) : handedOut[i] <= arrived
  /\ \A i \in 1..Len(handedOut), j \in 1..Len(queue) : handedOut[i] < queue[j]

IInv == TypeOK /\ NobodyWaitsInVain /\ InOrder /\ QueueInOrder /\ NoneIsSwallowed

-----------------------------------------------------------------------------
(* The cases of an arrival *)

Arrives == ~nodeClosed /\ arrived < MaxIncoming /\ arrived' = arrived + 1
ArrivesElsewhere == UNCHANGED <<claimed, nodeClosed, acceptor, owner>>

Wakes(i) ==
  /\ Arrives /\ ArrivesElsewhere
  /\ i \in Live /\ Oldest(i) /\ Wake(i, arrived + 1)
  /\ UNCHANGED <<queue, gone>>

Queues ==
  /\ Arrives /\ ArrivesElsewhere
  /\ Live = {} /\ waiters' = <<>>
  /\ Enqueue(arrived + 1)
  /\ UNCHANGED <<call, got, handedOut>>

LEMMA AdmitCases ==
  ASSUME Admit
  PROVE  Queues \/ \E i \in Live : Wakes(i)
BY DEF Admit, PushOrWake, Arrives, ArrivesElsewhere, Wakes, Queues

-----------------------------------------------------------------------------
(* Types *)

LEMMA EmptyType ==
  ASSUME TypeOK, Empty
  PROVE  call' \in [Calls -> CallStates] /\ gone' \subseteq 1..MaxIncoming
<1>1. \A c \in Calls : call[c] \in CallStates /\ "Done" \in CallStates
  BY DEF CallStates, TypeOK
<1>2. call' \in [Calls -> CallStates]
  BY <1>1 DEF Empty
<1>3. ASSUME NEW i \in 1..Len(queue) PROVE queue[i] \in 1..MaxIncoming
  <2>1. queue \in Seq(1..MaxIncoming)
    BY DEF TypeOK
  <2> QED BY <2>1, ElementOfSeq
<1>4. gone' = gone \cup {queue[i] : i \in 1..Len(queue)} /\ gone \subseteq 1..MaxIncoming
  BY DEF TypeOK, Empty
<1>5. gone' \subseteq 1..MaxIncoming
  BY <1>3, <1>4, Zenon
<1> QED BY <1>2, <1>5

LEMMA EmptySequences ==
  AcceptAssumption => <<>> \in Seq(1..MaxIncoming) /\ <<>> \in Seq(Calls) /\ Len(<<>>) <= Capacity
BY DEF AcceptAssumption

LEMMA TypeStep ==
  ASSUME AcceptAssumption, TypeOK, [Next]_vars
  PROVE  TypeOK'
<1> USE DEF TypeOK, CallStates
<1>1. ASSUME NEW a \in Acceptors, Open(a) PROVE TypeOK'
  BY <1>1 DEF Open
<1>2. ASSUME NEW a \in Acceptors, Close(a) PROVE TypeOK'
  <2>1. CASE nodeClosed
    BY <1>2, <2>1 DEF Close, registration
  <2>2. CASE ~nodeClosed
    <3>1. /\ claimed' = FALSE /\ queue' = <<>> /\ waiters' = <<>> /\ Empty
          /\ acceptor' = [acceptor EXCEPT ![a] = "Closed"]
          /\ UNCHANGED <<nodeClosed, owner, got, arrived, handedOut>>
      BY <1>2, <2>2 DEF Close, Empty
    <3>2. call' \in [Calls -> CallStates] /\ gone' \subseteq 1..MaxIncoming
      BY <3>1, EmptyType
    <3> QED BY <3>1, <3>2, EmptySequences
  <2> QED BY <2>1, <2>2
<1>3. ASSUME NEW a \in Acceptors, NEW c \in Calls, AcceptOnClosed(a, c) PROVE TypeOK'
  BY <1>3 DEF AcceptOnClosed, Calling
<1>4. ASSUME NEW a \in Acceptors, NEW c \in Calls, AcceptTakes(a, c) PROVE TypeOK'
  <2>1. queue[1] \in 1..MaxIncoming /\ Tail(queue) \in Seq(1..MaxIncoming)
        /\ Len(Tail(queue)) <= Capacity
    BY <1>4 DEF AcceptTakes, Calling, AcceptAssumption
  <2>2. handedOut' \in Seq(1..MaxIncoming)
    BY <1>4, <2>1 DEF AcceptTakes, Calling
  <2>3. got' \in [Calls -> 0..MaxIncoming]
    BY <1>4, <2>1 DEF AcceptTakes, Calling
  <2> QED BY <1>4, <2>1, <2>2, <2>3 DEF AcceptTakes, Calling
<1>5. ASSUME NEW a \in Acceptors, NEW c \in Calls, AcceptWaits(a, c) PROVE TypeOK'
  BY <1>5 DEF AcceptWaits, Calling
<1>6. ASSUME NEW c \in Calls, AcceptReturns(c) PROVE TypeOK'
  BY <1>6 DEF AcceptReturns, registration
<1>7. ASSUME NEW c \in Calls, DropAccept(c) PROVE TypeOK'
  BY <1>7 DEF DropAccept, registration
<1>8. ASSUME NEW i \in Live, Wakes(i) PROVE TypeOK'
  <2>1. i \in 1..Len(waiters) /\ waiters[i] \in Calls
    BY DEF Live
  <2>2. waiters' \in Seq(Calls)
    <3>1. \A k \in i + 1..Len(waiters) : waiters[k] \in Calls
      BY <2>1
    <3> QED BY <1>8, <2>1, <3>1, SubSeqProperties DEF Wakes, Wake
  <2>3. arrived + 1 \in 1..MaxIncoming
    BY <1>8 DEF Wakes, Arrives, AcceptAssumption
  <2>4. /\ call' \in [Calls -> CallStates] /\ got' \in [Calls -> 0..MaxIncoming]
        /\ handedOut' \in Seq(1..MaxIncoming) /\ arrived' \in 0..MaxIncoming
    BY <1>8, <2>1, <2>3 DEF Wakes, Wake, Arrives
  <2> QED BY <1>8, <2>2, <2>4 DEF Wakes, ArrivesElsewhere
<1>9. ASSUME Queues PROVE TypeOK'
  <2>1. arrived + 1 \in 1..MaxIncoming
    BY <1>9 DEF Queues, Arrives, AcceptAssumption
  <2>2. queue' \in Seq(1..MaxIncoming) /\ Len(queue') <= Capacity /\ gone' \subseteq 1..MaxIncoming
    <3>1. CASE queue' = queue /\ gone' = gone \cup {arrived + 1}
      BY <2>1, <3>1
    <3>2. CASE Len(queue) < Capacity /\ queue' = Append(queue, arrived + 1) /\ gone' = gone
      <4>1. queue' \in Seq(1..MaxIncoming) /\ Len(queue') = Len(queue) + 1
        BY <2>1, <3>2, AppendProperties
      <4> QED BY <3>2, <4>1 DEF AcceptAssumption
    <3> QED BY <1>9, <3>1, <3>2 DEF Queues, Enqueue
  <2>3. waiters' \in Seq(Calls) /\ arrived' \in 0..MaxIncoming
    BY <1>9, <2>1 DEF Queues, Arrives
  <2>4. UNCHANGED <<claimed, nodeClosed, acceptor, owner, call, got, handedOut>>
    BY <1>9 DEF Queues, ArrivesElsewhere
  <2> QED BY <2>2, <2>3, <2>4
<1>10. ASSUME CloseNode PROVE TypeOK'
  <2>1. call' \in [Calls -> CallStates] /\ gone' \subseteq 1..MaxIncoming
    BY <1>10, EmptyType DEF CloseNode
  <2> QED BY <1>10, <2>1, EmptySequences DEF CloseNode, Empty
<1>11. ASSUME UNCHANGED vars PROVE TypeOK'
  BY <1>11 DEF vars, registration
<1> QED BY <1>1, <1>2, <1>3, <1>4, <1>5, <1>6, <1>7, <1>8, <1>9, <1>10, <1>11,
           AdmitCases DEF Next

-----------------------------------------------------------------------------
(* Calls that wait *)

LEMMA WaitStep ==
  ASSUME AcceptAssumption, TypeOK, NobodyWaitsInVain, [Next]_vars
  PROVE  NobodyWaitsInVain'
<1> USE DEF TypeOK, CallStates, NobodyWaitsInVain
<1>1. ASSUME NEW a \in Acceptors, Open(a) PROVE NobodyWaitsInVain'
  BY <1>1 DEF Open
<1>2. ASSUME NEW a \in Acceptors, Close(a) PROVE NobodyWaitsInVain'
  BY <1>2 DEF Close, registration, Empty
<1>3. ASSUME NEW a \in Acceptors, NEW c \in Calls, AcceptOnClosed(a, c)
      PROVE  NobodyWaitsInVain'
  BY <1>3 DEF AcceptOnClosed, Calling
<1>4. ASSUME NEW a \in Acceptors, NEW c \in Calls, AcceptTakes(a, c)
      PROVE  NobodyWaitsInVain'
  BY <1>4 DEF AcceptTakes, Calling
<1>5. ASSUME NEW a \in Acceptors, NEW c \in Calls, AcceptWaits(a, c)
      PROVE  NobodyWaitsInVain'
  <2>1. /\ Len(waiters') = Len(waiters) + 1 /\ waiters'[Len(waiters) + 1] = c
        /\ \A i \in 1..Len(waiters) : waiters'[i] = waiters[i]
    BY <1>5 DEF AcceptWaits, Calling
  <2> QED BY <1>5, <2>1 DEF AcceptWaits, Calling
<1>6. ASSUME NEW c \in Calls, AcceptReturns(c) PROVE NobodyWaitsInVain'
  BY <1>6 DEF AcceptReturns, registration
<1>7. ASSUME NEW c \in Calls, DropAccept(c) PROVE NobodyWaitsInVain'
  BY <1>7 DEF DropAccept, registration
<1>8. ASSUME NEW i \in Live, Wakes(i) PROVE NobodyWaitsInVain'
  <2> SUFFICES ASSUME NEW d \in Calls, call'[d] = "Waiting"
               PROVE  /\ queue' = <<>> /\ ~nodeClosed'
                      /\ \E k \in 1..Len(waiters') : waiters'[k] = d
    OBVIOUS
  <2>1. i \in 1..Len(waiters) /\ waiters[i] \in Calls /\ Len(waiters) \in Nat
    BY DEF Live
  <2>2. d # waiters[i] /\ call[d] = "Waiting"
    BY <1>8, <2>1 DEF Wakes, Wake
  <2>3. PICK k \in 1..Len(waiters) : waiters[k] = d
    BY <2>2
  <2>4. i < k
    BY <1>8, <2>1, <2>2, <2>3, SMTT(20) DEF Wakes, Oldest, Live
  <2>5. /\ Len(waiters') = Len(waiters) - i
        /\ waiters'[k - i] = waiters[k]
    <3> HIDE DEF NobodyWaitsInVain, TypeOK
    <3>1. \A m \in i + 1..Len(waiters) : waiters[m] \in Calls
      BY <2>1 DEF TypeOK
    <3>2. waiters' = SubSeq(waiters, i + 1, Len(waiters))
      BY <1>8 DEF Wakes, Wake
    <3>3. i \in Int /\ k \in Int /\ i + 1 \in Int /\ Len(waiters) \in Int
          /\ i + 1 <= Len(waiters)
      BY <2>1, <2>3, <2>4
    <3>4. /\ Len(waiters') = Len(waiters) - (i + 1) + 1
          /\ \A m \in 1..Len(waiters) - (i + 1) + 1 : waiters'[m] = waiters[(i + 1) + m - 1]
      BY <3>1, <3>2, <3>3, SubSeqProperties
    <3>5. k - i \in 1..Len(waiters) - (i + 1) + 1 /\ (i + 1) + (k - i) - 1 = k
      BY <2>1, <2>3, <2>4
    <3>6. waiters'[k - i] = waiters[k]
      BY <3>4, <3>5
    <3> QED BY <3>3, <3>4, <3>6
  <2>6. k - i \in 1..Len(waiters')
    <3> HIDE DEF NobodyWaitsInVain, TypeOK
    <3> QED BY <2>1, <2>3, <2>4, <2>5
  <2> QED BY <1>8, <2>2, <2>3, <2>5, <2>6 DEF Wakes, ArrivesElsewhere
<1>9. ASSUME Queues PROVE NobodyWaitsInVain'
  BY <1>9 DEF Queues, Live
<1>10. ASSUME CloseNode PROVE NobodyWaitsInVain'
  BY <1>10 DEF CloseNode, Empty
<1>11. ASSUME UNCHANGED vars PROVE NobodyWaitsInVain'
  BY <1>11 DEF vars, registration
<1> QED BY <1>1, <1>2, <1>3, <1>4, <1>5, <1>6, <1>7, <1>8, <1>9, <1>10, <1>11,
           AdmitCases DEF Next

-----------------------------------------------------------------------------
(* The order of connections *)

Ordered == InOrder /\ QueueInOrder

LEMMA AppendOrdered ==
  ASSUME NEW s \in Seq(Nat), NEW x \in Nat,
         \A i, j \in 1..Len(s) : i < j => s[i] < s[j],
         \A i \in 1..Len(s) : s[i] < x
  PROVE  /\ Len(Append(s, x)) = Len(s) + 1
         /\ \A i \in 1..Len(s) + 1 : Append(s, x)[i] = IF i <= Len(s) THEN s[i] ELSE x
         /\ \A i, j \in 1..Len(s) + 1 : i < j => Append(s, x)[i] < Append(s, x)[j]
<1> DEFINE t == Append(s, x)
<1>1. /\ Len(s) \in Nat /\ Len(t) = Len(s) + 1 /\ t[Len(s) + 1] = x
      /\ \A i \in 1..Len(s) : t[i] = s[i]
  BY AppendProperties
<1> HIDE DEF t
<1>2. \A i \in 1..Len(s) + 1 : t[i] = IF i <= Len(s) THEN s[i] ELSE x
  BY <1>1
<1>3. ASSUME NEW i \in 1..Len(s) + 1, NEW j \in 1..Len(s) + 1, i < j
      PROVE  t[i] < t[j]
  <2>1. i \in 1..Len(s)
    BY <1>1, <1>3
  <2>2. CASE j = Len(s) + 1
    BY <1>1, <2>1, <2>2
  <2>3. CASE j \in 1..Len(s)
    BY <1>1, <1>3, <2>1, <2>3
  <2> QED BY <1>1, <2>2, <2>3
<1> QED BY <1>1, <1>2, <1>3 DEF t

LEMMA NumbersAreNat ==
  ASSUME AcceptAssumption, TypeOK
  PROVE  queue \in Seq(Nat) /\ handedOut \in Seq(Nat) /\ arrived \in Nat
<1>1. 1..MaxIncoming \subseteq Nat
  BY DEF AcceptAssumption
<1> QED BY <1>1 DEF TypeOK

(* What leaves handedOut and arrived alone may keep or empty the queue. *)
LEMMA OrderKept ==
  ASSUME Ordered, UNCHANGED <<handedOut, arrived>>, queue' \in {queue, <<>>}
  PROVE  Ordered'
BY DEF Ordered, InOrder, QueueInOrder

LEMMA OrderStep ==
  ASSUME AcceptAssumption, TypeOK, NobodyWaitsInVain, Ordered, [Next]_vars
  PROVE  Ordered'
<1>1. ASSUME NEW a \in Acceptors, Open(a) PROVE Ordered'
  BY <1>1, OrderKept DEF Open
<1>2. ASSUME NEW a \in Acceptors, Close(a) PROVE Ordered'
  BY <1>2, OrderKept DEF Close, registration, Empty
<1>3. ASSUME NEW a \in Acceptors, NEW c \in Calls, AcceptOnClosed(a, c) PROVE Ordered'
  BY <1>3, OrderKept DEF AcceptOnClosed, Calling
<1>4. ASSUME NEW a \in Acceptors, NEW c \in Calls, AcceptTakes(a, c) PROVE Ordered'
  <2>1. /\ queue # <<>> /\ queue' = Tail(queue) /\ arrived' = arrived
        /\ handedOut' = Append(handedOut, queue[1])
    BY <1>4 DEF AcceptTakes, Calling
  <2>2. queue \in Seq(Nat) /\ handedOut \in Seq(Nat) /\ Len(queue) \in Nat /\ Len(handedOut) \in Nat
    BY NumbersAreNat
  <2>3. /\ Len(queue) >= 1 /\ Len(queue') = Len(queue) - 1
        /\ \A i \in 1..Len(queue') : queue'[i] = queue[i + 1]
        /\ \A i \in 1..Len(queue) : queue[i] \in Nat
    <3>1. Len(queue) # 0 /\ \A i \in 1..Len(queue) : queue[i] \in Nat
      BY <2>1, <2>2, EmptySeq
    <3> QED BY <2>1, <2>2, <3>1, HeadTailProperties
  <2>4. 1 \in 1..Len(queue) /\ \A i \in 1..Len(handedOut) : handedOut[i] < queue[1]
    BY <2>2, <2>3 DEF Ordered, QueueInOrder
  <2>5. /\ Len(handedOut') = Len(handedOut) + 1
        /\ \A i \in 1..Len(handedOut) + 1 :
             handedOut'[i] = IF i <= Len(handedOut) THEN handedOut[i] ELSE queue[1]
        /\ \A i, j \in 1..Len(handedOut) + 1 : i < j => handedOut'[i] < handedOut'[j]
    <3>1. \A i, j \in 1..Len(handedOut) : i < j => handedOut[i] < handedOut[j]
      BY DEF Ordered, InOrder
    <3> QED BY <2>1, <2>2, <2>3, <2>4, <3>1, AppendOrdered
  <2>6. InOrder'
    BY <2>5 DEF InOrder
  <2>7. \A i \in 1..Len(queue) - 1 :
          /\ queue'[i] = queue[i + 1] /\ i + 1 \in 1..Len(queue)
          /\ queue[1] < queue[i + 1]
    BY <2>2, <2>3, <2>4 DEF Ordered, QueueInOrder
  <2>8. \A i, j \in 1..Len(queue') : i < j => queue'[i] < queue'[j]
    <3> SUFFICES ASSUME NEW i \in 1..Len(queue'), NEW j \in 1..Len(queue'), i < j
                 PROVE  queue'[i] < queue'[j]
      OBVIOUS
    <3>1. /\ i + 1 \in 1..Len(queue) /\ j + 1 \in 1..Len(queue) /\ i + 1 < j + 1
          /\ queue'[i] = queue[i + 1] /\ queue'[j] = queue[j + 1]
      BY <2>2, <2>3
    <3> QED BY <3>1 DEF Ordered, QueueInOrder
  <2>9. \A i \in 1..Len(queue') : queue'[i] <= arrived'
    BY <2>1, <2>3, <2>7 DEF Ordered, QueueInOrder
  <2>10. \A i \in 1..Len(handedOut') : handedOut'[i] <= arrived'
    BY <2>1, <2>2, <2>4, <2>5 DEF Ordered, QueueInOrder
  <2>11. \A i \in 1..Len(handedOut'), j \in 1..Len(queue') : handedOut'[i] < queue'[j]
    <3> SUFFICES ASSUME NEW i \in 1..Len(handedOut'), NEW j \in 1..Len(queue')
                 PROVE  handedOut'[i] < queue'[j]
      OBVIOUS
    <3>1. j + 1 \in 1..Len(queue) /\ queue'[j] = queue[j + 1] /\ queue[1] < queue[j + 1]
      BY <2>2, <2>3, <2>7
    <3>2. CASE i <= Len(handedOut)
      <4>1. i \in 1..Len(handedOut) /\ handedOut'[i] = handedOut[i]
        BY <2>2, <2>5, <3>2
      <4> QED BY <3>1, <4>1 DEF Ordered, QueueInOrder
    <3>3. CASE ~(i <= Len(handedOut))
      BY <2>2, <2>5, <3>1, <3>3
    <3> QED BY <3>2, <3>3
  <2> QED BY <2>6, <2>8, <2>9, <2>10, <2>11 DEF Ordered, QueueInOrder
<1>5. ASSUME NEW a \in Acceptors, NEW c \in Calls, AcceptWaits(a, c) PROVE Ordered'
  BY <1>5, OrderKept DEF AcceptWaits, Calling
<1>6. ASSUME NEW c \in Calls, AcceptReturns(c) PROVE Ordered'
  BY <1>6, OrderKept DEF AcceptReturns, registration
<1>7. ASSUME NEW c \in Calls, DropAccept(c) PROVE Ordered'
  BY <1>7, OrderKept DEF DropAccept, registration
<1>8. ASSUME NEW i \in Live, Wakes(i) PROVE Ordered'
  <2>1. queue = <<>>
    BY <1>8 DEF Live, NobodyWaitsInVain, TypeOK
  <2>2. arrived' = arrived + 1 /\ queue' = <<>> /\ handedOut' = Append(handedOut, arrived + 1)
    BY <1>8, <2>1 DEF Wakes, Wake, Arrives
  <2>3. /\ handedOut \in Seq(Nat) /\ Len(handedOut) \in Nat /\ arrived \in Nat
        /\ \A k \in 1..Len(handedOut) : handedOut[k] \in Nat /\ handedOut[k] <= arrived
    <3>1. handedOut \in Seq(Nat) /\ arrived \in Nat
      BY NumbersAreNat
    <3> QED BY <3>1 DEF Ordered, QueueInOrder
  <2>4. /\ Len(handedOut') = Len(handedOut) + 1
        /\ \A k \in 1..Len(handedOut) + 1 :
             handedOut'[k] = IF k <= Len(handedOut) THEN handedOut[k] ELSE arrived + 1
        /\ \A k, m \in 1..Len(handedOut) + 1 : k < m => handedOut'[k] < handedOut'[m]
    <3>1. \A k, m \in 1..Len(handedOut) : k < m => handedOut[k] < handedOut[m]
      BY DEF Ordered, InOrder
    <3>2. arrived + 1 \in Nat /\ \A k \in 1..Len(handedOut) : handedOut[k] < arrived + 1
      BY <2>3
    <3> QED BY <2>2, <2>3, <3>1, <3>2, AppendOrdered
  <2>5. InOrder'
    BY <2>4 DEF InOrder
  <2>6. QueueInOrder'
    BY <2>2, <2>3, <2>4 DEF QueueInOrder
  <2> QED BY <2>5, <2>6 DEF Ordered
<1>9. ASSUME Queues PROVE Ordered'
  <2>1. arrived' = arrived + 1 /\ handedOut' = handedOut
    BY <1>9 DEF Queues, Arrives
  <2>2. /\ queue \in Seq(Nat) /\ Len(queue) \in Nat
        /\ handedOut \in Seq(Nat) /\ Len(handedOut) \in Nat /\ arrived \in Nat
        /\ \A i \in 1..Len(queue) : queue[i] \in Nat
        /\ \A i \in 1..Len(handedOut) : handedOut[i] \in Nat
    BY NumbersAreNat
  <2>3. CASE queue' = queue
    BY <2>1, <2>2, <2>3 DEF Ordered, InOrder, QueueInOrder
  <2>4. CASE queue' = Append(queue, arrived + 1)
    <3>1. /\ Len(queue') = Len(queue) + 1
          /\ \A i \in 1..Len(queue) + 1 :
               queue'[i] = IF i <= Len(queue) THEN queue[i] ELSE arrived + 1
          /\ \A i, j \in 1..Len(queue) + 1 : i < j => queue'[i] < queue'[j]
      <4>1. /\ \A i, j \in 1..Len(queue) : i < j => queue[i] < queue[j]
            /\ \A i \in 1..Len(queue) : queue[i] < arrived + 1
        BY <2>2 DEF Ordered, QueueInOrder
      <4> QED BY <2>2, <2>4, <4>1, AppendOrdered, SMTT(20)
    <3>2. InOrder'
      BY <2>1 DEF Ordered, InOrder
    <3>3. QueueInOrder'
      <4>1. ASSUME NEW i \in 1..Len(queue) + 1
            PROVE  queue'[i] <= arrived + 1
        <5>1. CASE i <= Len(queue)
          <6>1. i \in 1..Len(queue) /\ queue'[i] = queue[i] /\ queue[i] \in Nat
            BY <2>2, <3>1, <5>1
          <6>2. queue[i] <= arrived
            BY <6>1 DEF Ordered, QueueInOrder
          <6> QED BY <2>2, <6>1, <6>2
        <5>2. CASE ~(i <= Len(queue))
          BY <2>2, <3>1, <5>2
        <5> QED BY <5>1, <5>2
      <4>2. \A i \in 1..Len(handedOut) : handedOut[i] <= arrived + 1
        BY <2>2 DEF Ordered, QueueInOrder
      <4>3. ASSUME NEW i \in 1..Len(handedOut), NEW j \in 1..Len(queue) + 1
            PROVE  handedOut[i] < queue'[j]
        <5>1. handedOut[i] \in Nat /\ handedOut[i] <= arrived
          BY <2>2 DEF Ordered, QueueInOrder
        <5>2. CASE j <= Len(queue)
          <6>1. j \in 1..Len(queue) /\ queue'[j] = queue[j]
            BY <2>2, <3>1, <5>2
          <6> QED BY <6>1 DEF Ordered, QueueInOrder
        <5>3. CASE ~(j <= Len(queue))
          BY <2>2, <3>1, <5>1, <5>3
        <5> QED BY <5>2, <5>3
      <4> QED BY <2>1, <3>1, <4>1, <4>2, <4>3 DEF QueueInOrder
    <3> QED BY <3>2, <3>3 DEF Ordered
  <2> QED BY <1>9, <2>3, <2>4 DEF Queues, Enqueue
<1>10. ASSUME CloseNode PROVE Ordered'
  BY <1>10, OrderKept DEF CloseNode, Empty
<1>11. ASSUME UNCHANGED vars PROVE Ordered'
  BY <1>11, OrderKept DEF vars, registration
<1> QED BY <1>1, <1>2, <1>3, <1>4, <1>5, <1>6, <1>7, <1>8, <1>9, <1>10, <1>11,
           AdmitCases DEF Next, TypeOK

-----------------------------------------------------------------------------
(* Where a connection that arrived is *)

Held(n) ==
  \/ n \in gone
  \/ \E i \in 1..Len(handedOut) : handedOut[i] = n
  \/ \E i \in 1..Len(queue) : queue[i] = n

(* What appends to a sequence keeps what is in it. *)
LEMMA AppendHolds ==
  ASSUME NEW s \in Seq(Nat), NEW x \in Nat
  PROVE  /\ \A i \in 1..Len(s) : i \in 1..Len(Append(s, x)) /\ Append(s, x)[i] = s[i]
         /\ Len(s) + 1 \in 1..Len(Append(s, x)) /\ Append(s, x)[Len(s) + 1] = x
BY AppendProperties

LEMMA AccountStep ==
  ASSUME AcceptAssumption, TypeOK, NoneIsSwallowed, [Next]_vars
  PROVE  NoneIsSwallowed'
<1> SUFFICES ASSUME NEW n \in 1..arrived' PROVE Held(n)'
  BY DEF NoneIsSwallowed, Held
<1>n. /\ queue \in Seq(Nat) /\ handedOut \in Seq(Nat) /\ arrived \in Nat
      /\ n \in 1..arrived => Held(n)
  BY NumbersAreNat DEF NoneIsSwallowed, Held
<1>k. UNCHANGED <<queue, gone, handedOut, arrived>> => Held(n)'
  BY <1>n DEF Held
<1>e. Empty /\ UNCHANGED <<handedOut, arrived>> => Held(n)'
  BY <1>n DEF Held, Empty
<1>1. ASSUME NEW a \in Acceptors, Open(a) PROVE Held(n)'
  BY <1>1, <1>k DEF Open
<1>2. ASSUME NEW a \in Acceptors, Close(a) PROVE Held(n)'
  BY <1>2, <1>k, <1>e DEF Close, registration
<1>3. ASSUME NEW a \in Acceptors, NEW c \in Calls, AcceptOnClosed(a, c) PROVE Held(n)'
  BY <1>3, <1>k DEF AcceptOnClosed, Calling
<1>4. ASSUME NEW a \in Acceptors, NEW c \in Calls, AcceptTakes(a, c) PROVE Held(n)'
  <2>1. /\ queue # <<>> /\ queue' = Tail(queue) /\ arrived' = arrived /\ gone' = gone
        /\ handedOut' = Append(handedOut, queue[1])
    BY <1>4 DEF AcceptTakes, Calling
  <2>2. /\ Len(queue) \in Nat \ {0} /\ queue[1] \in Nat /\ Len(queue') = Len(queue) - 1
        /\ \A i \in 1..Len(queue') : queue'[i] = queue[i + 1]
    <3>1. Len(queue) \in Nat \ {0} /\ queue[1] \in Nat
      BY <1>n, <2>1, EmptySeq
    <3> QED BY <1>n, <2>1, <3>1, HeadTailProperties
  <2>3. CASE n \in gone
    BY <2>1, <2>3 DEF Held
  <2>4. ASSUME NEW i \in 1..Len(handedOut), handedOut[i] = n PROVE Held(n)'
    <3>1. i \in 1..Len(handedOut') /\ handedOut'[i] = n
      BY <1>n, <2>1, <2>2, <2>4, AppendHolds
    <3> QED BY <3>1 DEF Held
  <2>5. CASE queue[1] = n
    <3>1. /\ Len(handedOut) + 1 \in 1..Len(handedOut')
          /\ handedOut'[Len(handedOut) + 1] = n
      BY <1>n, <2>1, <2>2, <2>5, AppendHolds
    <3> QED BY <3>1 DEF Held
  <2>6. ASSUME NEW i \in 2..Len(queue), queue[i] = n PROVE Held(n)'
    <3>1. i - 1 \in 1..Len(queue') /\ queue'[i - 1] = n
      BY <2>2, <2>6
    <3> QED BY <3>1 DEF Held
  <2>7. \A i \in 1..Len(queue) : i = 1 \/ i \in 2..Len(queue)
    BY <2>2
  <2>8. Held(n)
    BY <1>n, <2>1
  <2> QED BY <2>3, <2>4, <2>5, <2>6, <2>7, <2>8, Zenon DEF Held
<1>5. ASSUME NEW a \in Acceptors, NEW c \in Calls, AcceptWaits(a, c) PROVE Held(n)'
  BY <1>5, <1>k DEF AcceptWaits, Calling
<1>6. ASSUME NEW c \in Calls, AcceptReturns(c) \/ DropAccept(c) PROVE Held(n)'
  BY <1>6, <1>k DEF AcceptReturns, DropAccept, registration
<1>7. ASSUME NEW i \in Live, Wakes(i) PROVE Held(n)'
  <2>1. /\ arrived' = arrived + 1 /\ UNCHANGED <<queue, gone>>
        /\ handedOut' = Append(handedOut, arrived + 1)
    BY <1>7 DEF Wakes, Wake, Arrives
  <2>2. CASE n = arrived + 1
    BY <1>n, <2>1, <2>2, AppendHolds DEF Held
  <2>3. CASE n # arrived + 1
    <3>1. n \in 1..arrived
      BY <1>n, <2>1, <2>3
    <3>2. ASSUME NEW j \in 1..Len(handedOut), handedOut[j] = n PROVE Held(n)'
      BY <1>n, <2>1, <3>2, AppendHolds DEF Held
    <3> QED BY <1>n, <2>1, <3>1, <3>2 DEF Held
  <2> QED BY <2>2, <2>3
<1>8. ASSUME Queues PROVE Held(n)'
  <2>1. arrived' = arrived + 1 /\ handedOut' = handedOut
    BY <1>8 DEF Queues, Arrives
  <2>2. \/ queue' = Append(queue, arrived + 1) /\ gone' = gone
        \/ queue' = queue /\ gone' = gone \cup {arrived + 1}
    BY <1>8 DEF Queues, Enqueue
  <2>3. CASE n = arrived + 1
    BY <1>n, <2>2, <2>3, AppendHolds DEF Held
  <2>4. CASE n # arrived + 1
    <3>1. n \in 1..arrived
      BY <1>n, <2>1, <2>4
    <3>2. ASSUME NEW j \in 1..Len(queue), queue[j] = n PROVE Held(n)'
      <4>1. CASE queue' = Append(queue, arrived + 1)
        <5>1. /\ j \in 1..Len(Append(queue, arrived + 1))
              /\ Append(queue, arrived + 1)[j] = queue[j]
          BY <1>n, AppendHolds
        <5> QED BY <3>2, <4>1, <5>1 DEF Held
      <4>2. CASE queue' = queue
        BY <3>2, <4>2 DEF Held
      <4> QED BY <2>2, <4>1, <4>2
    <3>3. gone \subseteq gone'
      BY <2>2
    <3>4. Held(n) /\ handedOut' = handedOut
      BY <1>n, <2>1, <3>1
    <3>5. CASE \E i \in 1..Len(handedOut) : handedOut[i] = n
      BY <3>4, <3>5 DEF Held
    <3> QED BY <3>2, <3>3, <3>4, <3>5 DEF Held
  <2> QED BY <2>3, <2>4
<1>9. CASE CloseNode
  BY <1>9, <1>e DEF CloseNode
<1>10. CASE UNCHANGED vars
  BY <1>10, <1>k DEF vars, registration
<1> QED BY <1>1, <1>2, <1>3, <1>4, <1>5, <1>6, <1>7, <1>8, <1>9, <1>10, AdmitCases DEF Next

-----------------------------------------------------------------------------
(* The theorems *)

LEMMA InvariantHolds ==
  Spec => []IInv
<1>1. Init => IInv
  <2> SUFFICES ASSUME Init PROVE IInv
    OBVIOUS
  <2>1. TypeOK
    <3>1. /\ claimed = FALSE /\ queue = <<>> /\ waiters = <<>> /\ nodeClosed = FALSE
          /\ acceptor \in [Acceptors -> {"New", "Open", "Closed"}]
          /\ call \in [Calls -> CallStates]
          /\ owner \in [Calls -> Acceptors \cup {"None"}]
          /\ handedOut = <<>> /\ gone \subseteq 1..MaxIncoming
      BY DEF Init, CallStates
    <3>2. got \in [Calls -> 0..MaxIncoming] /\ arrived \in 0..MaxIncoming
      BY AcceptAssumption DEF Init, AcceptAssumption
    <3> QED BY <3>1, <3>2, AcceptAssumption, EmptySequences DEF TypeOK
  <2>2. NobodyWaitsInVain
    BY DEF Init, NobodyWaitsInVain
  <2>3. InOrder /\ QueueInOrder
    BY DEF Init, InOrder, QueueInOrder
  <2>4. NoneIsSwallowed
    BY DEF Init, NoneIsSwallowed
  <2> QED BY <2>1, <2>2, <2>3, <2>4 DEF IInv
<1>2. IInv /\ [Next]_vars => IInv'
  BY TypeStep, WaitStep, OrderStep, AccountStep, AcceptAssumption DEF IInv, Ordered
<1> QED BY <1>1, <1>2, PTL DEF Spec

(* Every state of the registration and of its calls is of its type, and the queue
   never holds more than its capacity (accept_state.rs, enqueue). *)
THEOREM AcceptTypeCorrect ==
  Spec => []TypeOK
<1>1. IInv => TypeOK
  BY DEF IInv
<1> QED BY <1>1, InvariantHolds, PTL

(* However many acceptors and calls there are, no call waits beside a queued
   connection or for a closed node (accept_state.rs). *)
THEOREM NobodyEverWaitsInVain ==
  Spec => []NobodyWaitsInVain
<1>1. IInv => NobodyWaitsInVain
  BY DEF IInv
<1> QED BY <1>1, InvariantHolds, PTL

(* Connections are handed out in the order they arrived, none twice, and none is
   lost but to a full queue or a close, whatever calls are dropped and acceptors
   closed (accept_state.rs, connection.rs). *)
THEOREM ConnectionsAreHandedOutInOrder ==
  Spec => []HandedOutInOrder
<1>1. IInv => HandedOutInOrder
  BY DEF IInv, HandedOutInOrder
<1> QED BY <1>1, InvariantHolds, PTL
=============================================================================
