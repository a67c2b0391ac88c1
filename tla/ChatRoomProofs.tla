----------------------------- MODULE ChatRoomProofs -----------------------------
(***************************************************************************)
(* The chat room example for any number of peers, packets, commands and    *)
(* saves: what its replay filter lets through, what its user sees of the   *)
(* room, and what a reload brings back.                                    *)
(***************************************************************************)
EXTENDS ChatRoom, SequenceTheorems, TLAPS

-----------------------------------------------------------------------------
(* The replay filter.  It holds the newest packets it let through, as many as
   it may, so what it lets through again was let through longer ago. *)

Keeps(seen, shown) ==
  /\ seen \in Seq(Nat) /\ shown \in Seq(Nat)
  /\ Len(seen) <= ReplayCap
  /\ \E o \in 0..1 :
       /\ Len(shown) = Len(seen) + o
       /\ o = 1 => Len(seen) = ReplayCap
       /\ \A k \in 1..Len(seen) : seen[k] = shown[k + o]

Apart(shown) ==
  \A i, j \in DOMAIN shown : i < j /\ shown[i] = shown[j] => j - i > ReplayCap

(* Of a sequence that is one too long, the newest elements are all but the first. *)
LEMMA NewestElements ==
  ASSUME NEW S, NEW s \in Seq(S), NEW n \in Nat, Len(s) <= n + 1
  PROVE  /\ Newest(n, s) \in Seq(S)
         /\ \E o \in 0..1 :
              /\ o = 1 <=> Len(s) = n + 1
              /\ Len(s) = Len(Newest(n, s)) + o
              /\ \A k \in 1..Len(Newest(n, s)) : Newest(n, s)[k] = s[k + o]
<1>1. Len(s) \in Nat
  OBVIOUS
<1>2. CASE Len(s) <= n
  <2>1. Newest(n, s) = s /\ Len(s) # n + 1
    BY <1>1, <1>2 DEF Newest
  <2> QED
    BY <1>1, <2>1
<1>3. CASE Len(s) = n + 1
  <2>1. Newest(n, s) = SubSeq(s, 2, n + 1)
    BY <1>1, <1>3 DEF Newest
  <2>2. \A i \in 2..n + 1 : s[i] \in S
    BY <1>3
  <2>3. /\ SubSeq(s, 2, n + 1) \in Seq(S)
        /\ Len(SubSeq(s, 2, n + 1)) = n
        /\ \A k \in 1..n : SubSeq(s, 2, n + 1)[k] = s[k + 1]
    <3>1. /\ SubSeq(s, 2, n + 1) \in Seq(S)
          /\ Len(SubSeq(s, 2, n + 1)) = IF 2 <= n + 1 THEN n + 1 - 2 + 1 ELSE 0
          /\ \A k \in 1..n + 1 - 2 + 1 : SubSeq(s, 2, n + 1)[k] = s[2 + k - 1]
      BY <2>2, SubSeqProperties
    <3> QED
      BY <3>1
  <2> QED
    BY <1>3, <2>1, <2>3
<1> QED
  BY <1>1, <1>2, <1>3

(* check_and_insert: the packet comes last, the oldest goes at the cap. *)
LEMMA InsertElements ==
  ASSUME NEW seen \in Seq(Nat), NEW nonce \in Nat, Len(seen) <= ReplayCap
  PROVE  /\ Insert(seen, nonce) \in Seq(Nat)
         /\ \E d \in 0..1 :
              /\ d = 1 <=> Len(seen) = ReplayCap
              /\ Len(Insert(seen, nonce)) = Len(seen) + 1 - d
              /\ \A k \in 1..Len(seen) - d : Insert(seen, nonce)[k] = seen[k + d]
              /\ Insert(seen, nonce)[Len(seen) + 1 - d] = nonce
<1>1. ReplayCap \in Nat \ {0} /\ Len(seen) \in Nat
  BY ChatAssumption
<1>2. CASE Len(seen) = ReplayCap
  <2>1. Insert(seen, nonce) = Append(Tail(seen), nonce) /\ seen # <<>>
    BY <1>1, <1>2 DEF Insert
  <2>2. /\ Tail(seen) \in Seq(Nat) /\ Len(Tail(seen)) = Len(seen) - 1
        /\ \A k \in 1..Len(Tail(seen)) : Tail(seen)[k] = seen[k + 1]
    BY <2>1, HeadTailProperties
  <2>3. /\ Insert(seen, nonce) \in Seq(Nat)
        /\ Len(Insert(seen, nonce)) = Len(Tail(seen)) + 1
        /\ \A k \in 1..Len(Tail(seen)) : Insert(seen, nonce)[k] = Tail(seen)[k]
        /\ Insert(seen, nonce)[Len(Tail(seen)) + 1] = nonce
    BY <2>1, <2>2, AppendProperties
  <2>4. /\ Len(Insert(seen, nonce)) = Len(seen) + 1 - 1
        /\ Insert(seen, nonce)[Len(seen) + 1 - 1] = nonce
    BY <1>1, <2>2, <2>3
  <2>5. ASSUME NEW k \in 1..Len(seen) - 1 PROVE Insert(seen, nonce)[k] = seen[k + 1]
    BY <2>2, <2>3
  <2> QED
    BY <1>2, <2>3, <2>4, <2>5
<1>3. CASE Len(seen) # ReplayCap
  <2>1. Insert(seen, nonce) = Append(seen, nonce)
    BY <1>1, <1>3 DEF Insert
  <2>2. /\ Insert(seen, nonce) \in Seq(Nat)
        /\ Len(Insert(seen, nonce)) = Len(seen) + 1
        /\ \A k \in 1..Len(seen) : Insert(seen, nonce)[k] = seen[k]
        /\ Insert(seen, nonce)[Len(seen) + 1] = nonce
    BY <2>1, AppendProperties
  <2> QED
    BY <1>1, <1>3, <2>2
<1> QED
  BY <1>2, <1>3

(* What the filter lets through is none of the packets it holds, and what is
   remembered of the others is younger than the one it forgets. *)
LEMMA FilterStep ==
  ASSUME NEW seen, NEW shown, Keeps(seen, shown), Apart(shown),
         NEW nonce \in Nat, ~Replayed(seen, nonce)
  PROVE  /\ Keeps(Insert(seen, nonce), Newest(ReplayCap + 1, Append(shown, nonce)))
         /\ Apart(Newest(ReplayCap + 1, Append(shown, nonce)))
<1> DEFINE a == Append(shown, nonce)
           t == Newest(ReplayCap + 1, a)
           w == Insert(seen, nonce)
           m == Len(seen)
<1>1. PICK o \in 0..1 :
        /\ Len(shown) = m + o
        /\ o = 1 => m = ReplayCap
        /\ \A k \in 1..m : seen[k] = shown[k + o]
  BY DEF Keeps
<1>2. /\ ReplayCap \in Nat \ {0} /\ m \in Nat /\ m <= ReplayCap
      /\ seen \in Seq(Nat) /\ shown \in Seq(Nat)
  BY ChatAssumption DEF Keeps
<1>3. /\ a \in Seq(Nat) /\ Len(a) = m + o + 1
      /\ \A k \in 1..m + o : a[k] = shown[k]
      /\ a[m + o + 1] = nonce
  BY <1>1, <1>2, AppendProperties
<1>4. PICK d \in 0..1 :
        /\ w \in Seq(Nat)
        /\ d = 1 <=> m = ReplayCap
        /\ Len(w) = m + 1 - d
        /\ \A k \in 1..m - d : w[k] = seen[k + d]
        /\ w[m + 1 - d] = nonce
  BY <1>2, InsertElements
<1>5. ~(\E k \in 1..m : seen[k] = nonce)
  BY <1>2 DEF Replayed
<1> HIDE DEF a, w, m
<1>6. /\ t \in Seq(Nat) /\ Len(t) = m + 1
      /\ \A k \in 1..m + 1 : t[k] = a[k + o]
  <2>1. Len(a) <= ReplayCap + 1 + 1
    <3>1. m \in Nat /\ ReplayCap \in Nat /\ m <= ReplayCap /\ o \in 0..1
      BY <1>2
    <3>2. Len(a) = m + o + 1
      BY <1>3
    <3> HIDE DEF t
    <3> QED BY <3>1, <3>2
  <2>2. ReplayCap + 1 \in Nat
    BY <1>2
  <2>3. PICK e \in 0..1 :
          /\ t \in Seq(Nat)
          /\ e = 1 <=> Len(a) = ReplayCap + 1 + 1
          /\ Len(a) = Len(t) + e
          /\ \A k \in 1..Len(t) : t[k] = a[k + e]
    <3>1. a \in Seq(Nat)
      BY <1>3
    <3> QED BY <2>1, <2>2, <3>1, NewestElements
  <2> HIDE DEF t
  <2>4. e = o
    BY <1>1, <1>2, <1>3, <2>3
  <2>5. Len(t) \in Nat
    BY <2>3
  <2> QED
    BY <1>2, <1>3, <2>3, <2>4, <2>5
<1> HIDE DEF t
<1>7. Keeps(w, t)
  <2>1. ASSUME NEW k \in 1..m + 1 - d PROVE w[k] = t[k + d]
    <3>1. PICK x \in 1..m + 1 : x = k + d
      BY <1>2
    <3>2. t[x] = a[x + o]
      BY <1>6
    <3>3. CASE k = m + 1 - d
      <4>1. x + o = m + o + 1
        BY <1>2, <3>1, <3>3
      <4> QED
        BY <1>3, <1>4, <3>1, <3>2, <3>3, <4>1
    <3>4. CASE k \in 1..m - d
      <4>1. x \in 1..m /\ x + o \in 1..m + o
        BY <1>2, <3>1, <3>4
      <4>2. w[k] = seen[x] /\ seen[x] = shown[x + o] /\ a[x + o] = shown[x + o]
        BY <1>1, <1>3, <1>4, <3>1, <3>4, <4>1
      <4> QED
        BY <3>1, <3>2, <4>2
    <3> QED
      BY <1>2, <3>3, <3>4
  <2>2. Len(w) <= ReplayCap /\ Len(t) = Len(w) + d /\ (d = 1 => Len(w) = ReplayCap)
    <3>1. /\ m \in Nat /\ ReplayCap \in Nat /\ m <= ReplayCap /\ d \in 0..1
          /\ d = 1 <=> m = ReplayCap
      BY <1>2, <1>4
    <3>2. Len(w) = m + 1 - d /\ Len(t) = m + 1
      BY <1>4, <1>6
    <3> QED BY <3>1, <3>2
  <2> QED
    BY <1>4, <1>6, <2>1, <2>2 DEF Keeps
<1>8. Apart(t)
  <2> SUFFICES ASSUME NEW i \in 1..m + 1, NEW j \in 1..m + 1, i < j, t[i] = t[j]
               PROVE  j - i > ReplayCap
    BY <1>6 DEF Apart
  <2>1. i \in 1..m /\ i + o \in 1..m + o /\ t[i] = shown[i + o] /\ seen[i] = shown[i + o]
    BY <1>1, <1>2, <1>3, <1>6
  <2>2. CASE j = m + 1
    <3>1. t[j] = nonce
      BY <1>2, <1>3, <1>6, <2>2
    <3> QED
      BY <1>5, <2>1, <3>1
  <2>3. CASE j \in 1..m
    <3>1. PICK x \in 1..m + o, y \in 1..m + o : x = i + o /\ y = j + o
      BY <1>2, <2>1, <2>3
    <3>2. t[i] = shown[x] /\ t[j] = shown[y]
      BY <1>3, <1>6, <2>1, <3>1
    <3>3. x \in DOMAIN shown /\ y \in DOMAIN shown /\ x < y
      BY <1>1, <1>2, <3>1
    <3>4. y - x > ReplayCap
      BY <3>2, <3>3 DEF Apart
    <3> QED
      BY <1>2, <3>1, <3>4
  <2> QED
    BY <1>2, <2>2, <2>3
<1> QED
  BY <1>7, <1>8 DEF a, w, t

-----------------------------------------------------------------------------
(* The receiver task and the room. *)

(* A receiver task that was spawned, while it is in the map. *)
Receivers ==
  [sub : Nat, at : {"Idle", "Announcing", "Ended"}, linked : SUBSET Peers,
   seen : [Peers -> Seq(Nat)], shown : [Peers -> Seq(Nat)]]

Rooms ==
  [present : {TRUE}, joined : BOOLEAN, participants : SUBSET Peers, left : SUBSET Peers]

ChatTypeOK ==
  /\ topic \in Nat /\ used \in Nat /\ joining \subseteq Nat \ {0}
  /\ receiver = NoReceiver \/ receiver \in Receivers
  /\ room.present \in BOOLEAN /\ (room.present => room \in Rooms)

FilterOK ==
  receiver # NoReceiver =>
    \A p \in Peers : /\ Keeps(receiver.seen[p], receiver.shown[p])
                     /\ Apart(receiver.shown[p])

RoomHasKeys == room.present => keys

NoReceiverWithoutTopic == topic = 0 => receiver = NoReceiver

(* Without a command that overlaps a Join, one Join waits at most, for a topic the
   maps do not have yet. *)
JoinsAlone ==
  ~overlapped =>
    /\ \A i, j \in joining : i = j
    /\ joining # {} => topic = 0 /\ room.present
    /\ topic # 0 => room.present

RoomInv ==
  /\ ChatTypeOK /\ FilterOK
  /\ RoomHasKeys /\ JoinedRoomCanSend /\ NoReceiverWithoutTopic
  /\ JoinsAlone /\ RoomListsNeighbours

LEMMA ReceiverFields ==
  /\ NoReceiver.at = "None"
  /\ \A r \in Receivers : r.at \in {"Idle", "Announcing", "Ended"} /\ r # NoReceiver
  /\ \A j \in Nat :
       /\ NewReceiver(j) \in Receivers /\ NewReceiver(j).linked = {}
       /\ \A p \in Peers : Keeps(NewReceiver(j).seen[p], NewReceiver(j).shown[p])
                           /\ Apart(NewReceiver(j).shown[p])
<1>1. NoReceiver.at = "None"
  BY DEF NoReceiver
<1>2. \A r \in Receivers : r.at \in {"Idle", "Announcing", "Ended"}
  BY DEF Receivers
<1>3. <<>> \in Seq(Nat) /\ Len(<<>>) = 0 /\ DOMAIN <<>> = {}
  OBVIOUS
<1>4. Keeps(<<>>, <<>>) /\ Apart(<<>>)
  <2>1. 0 \in 0..1 /\ 0 <= ReplayCap
    BY ChatAssumption
  <2> QED
    BY <1>3, <2>1 DEF Keeps, Apart
<1>5. ASSUME NEW j \in Nat
      PROVE  /\ NewReceiver(j) \in Receivers /\ NewReceiver(j).linked = {}
             /\ \A p \in Peers : NewReceiver(j).seen[p] = <<>> /\ NewReceiver(j).shown[p] = <<>>
  BY <1>3 DEF NewReceiver, Receivers
<1> QED
  BY <1>1, <1>2, <1>4, <1>5

LEMMA RoomFields ==
  /\ NoRoom.present = FALSE
  /\ NewRoom \in Rooms /\ NewRoom.joined = FALSE /\ NewRoom.participants = {}
  /\ \A r \in Rooms : r.present = TRUE
  /\ \A r \in Rooms : LET j == RoomJoined(r)
                      IN  j \in Rooms /\ j.participants = r.participants /\ j.left = r.left
  BY DEF NoRoom, NewRoom, Rooms, RoomJoined

(* What a command that joins does to the room. *)
LEMMA AddRoomFields ==
  ASSUME ChatTypeOK
  PROVE  /\ AddRoom \in Rooms
         /\ room.present => AddRoom = room
         /\ ~room.present => AddRoom = NewRoom
         /\ RoomJoined(AddRoom) \in Rooms
         /\ RoomJoined(AddRoom).participants = AddRoom.participants
         /\ RoomJoined(AddRoom).left = AddRoom.left
  BY RoomFields DEF ChatTypeOK, AddRoom

LEMMA ChatInitEstablishes == ChatInit => RoomInv
<1> SUFFICES ASSUME ChatInit PROVE RoomInv
  OBVIOUS
<1>1. /\ topic = 0 /\ receiver = NoReceiver /\ joining = {} /\ room = NoRoom /\ used = 0
  BY DEF ChatInit
<1> QED
  BY <1>1, RoomFields DEF RoomInv, ChatTypeOK, FilterOK, RoomHasKeys, JoinedRoomCanSend,
     NoReceiverWithoutTopic, JoinsAlone, RoomListsNeighbours

(* Join of a topic the map has, and of another one. *)
LEMMA JoinPreserves ==
  ASSUME RoomInv, DoJoin PROVE RoomInv'
<1> USE DEF DoJoin, Command
<1>1. /\ keys' = TRUE /\ used' = used + 1 /\ UNCHANGED <<topic, receiver>>
      /\ overlapped' = (overlapped \/ joining # {})
      /\ used \in Nat /\ used' \in Nat \ {0} /\ topic \in Nat /\ ChatTypeOK
  BY DEF RoomInv, ChatTypeOK
<1>2. room' \in Rooms /\ room'.participants = AddRoom.participants /\ room'.left = AddRoom.left
  BY <1>1, AddRoomFields DEF JoinAgain, Join
<1>3. room'.present /\ room'.present \in BOOLEAN
  BY <1>2 DEF Rooms
<1>4. FilterOK' /\ RoomHasKeys' /\ NoReceiverWithoutTopic'
  BY <1>1 DEF RoomInv, FilterOK, RoomHasKeys, NoReceiverWithoutTopic, NoReceiver
<1>5. CASE JoinAgain
  <2>1. topic # 0 /\ UNCHANGED joining
    BY <1>5 DEF JoinAgain
  <2>2. ChatTypeOK'
    BY <1>1, <1>2, <1>3, <2>1 DEF ChatTypeOK, Receivers, NoReceiver
  <2>3. JoinedRoomCanSend'
    BY <1>1, <2>1 DEF JoinedRoomCanSend
  <2>4. JoinsAlone'
    BY <1>1, <1>3, <2>1 DEF RoomInv, JoinsAlone
  <2>5. RoomListsNeighbours'
    <3>1. ~overlapped' => ~overlapped /\ room.present
      BY <1>1, <2>1 DEF RoomInv, JoinsAlone
    <3> QED
      BY <1>1, <1>2, <3>1, AddRoomFields DEF RoomInv, RoomListsNeighbours, Running
  <2> QED
    BY <1>4, <2>2, <2>3, <2>4, <2>5 DEF RoomInv
<1>6. CASE Join
  <2>1. topic = 0 /\ joining' = joining \cup {used'} /\ room' = AddRoom
    BY <1>6 DEF Join
  <2>2. ChatTypeOK'
    BY <1>1, <1>2, <1>3, <2>1 DEF ChatTypeOK, Receivers, NoReceiver
  <2>3. JoinedRoomCanSend'
    BY <1>1, <2>1, AddRoomFields, RoomFields DEF RoomInv, JoinedRoomCanSend
  <2>4. JoinsAlone'
    BY <1>1, <1>3, <2>1 DEF RoomInv, JoinsAlone
  <2>5. RoomListsNeighbours'
    <3>1. receiver = NoReceiver
      BY <2>1 DEF RoomInv, NoReceiverWithoutTopic
    <3> QED
      BY <1>1, <2>1, <3>1, AddRoomFields, RoomFields, ReceiverFields
         DEF RoomInv, RoomListsNeighbours, Running
  <2> QED
    BY <1>4, <2>2, <2>3, <2>4, <2>5 DEF RoomInv
<1> QED
  BY <1>5, <1>6

(* A subscription starts with no neighbours, and so does the list. *)
LEMMA SubscribedPreserves ==
  ASSUME RoomInv, NEW j \in joining, Subscribed(j) PROVE RoomInv'
<1>1. /\ joining' = joining \ {j} /\ topic' = j /\ receiver' = NewReceiver(j)
      /\ room' = RoomJoined(room) /\ UNCHANGED <<keys, used, overlapped>>
      /\ j \in Nat \ {0}
  BY DEF RoomInv, ChatTypeOK, Subscribed
<1>2. /\ receiver' \in Receivers /\ receiver'.linked = {}
      /\ receiver' # NoReceiver /\ receiver'.at \in {"Idle", "Announcing", "Ended"}
  BY <1>1, ReceiverFields
<1>3. /\ room'.present = room.present
      /\ room.present => room' \in Rooms /\ room'.participants = room.participants
  BY <1>1, RoomFields DEF RoomInv, ChatTypeOK, RoomJoined
<1>4. ChatTypeOK'
  BY <1>1, <1>2, <1>3 DEF RoomInv, ChatTypeOK, Receivers, Rooms
<1>5. FilterOK'
  BY <1>1, ReceiverFields DEF FilterOK
<1>6. RoomHasKeys' /\ JoinedRoomCanSend' /\ NoReceiverWithoutTopic'
  BY <1>1, <1>3 DEF RoomInv, RoomHasKeys, JoinedRoomCanSend, NoReceiverWithoutTopic
<1>7. JoinsAlone'
  BY <1>1, <1>3 DEF RoomInv, JoinsAlone
<1>8. RoomListsNeighbours'
  <2> SUFFICES ASSUME ~overlapped, room.present
               PROVE  room'.participants = {}
    BY <1>1, <1>2, <1>3 DEF RoomListsNeighbours
  <2>1. topic = 0
    BY DEF RoomInv, JoinsAlone
  <2>2. receiver = NoReceiver
    BY <2>1 DEF RoomInv, NoReceiverWithoutTopic
  <2> QED
    BY <1>3, <2>2, ReceiverFields DEF RoomInv, RoomListsNeighbours, Running
<1> QED
  BY <1>4, <1>5, <1>6, <1>7, <1>8 DEF RoomInv

(* A Leave and a reload drop receiver and room, or begin with a new room. *)
LEMMA LeavePreserves ==
  ASSUME RoomInv, DoLeave PROVE RoomInv'
<1>1. /\ topic' = 0 /\ keys' = FALSE /\ receiver' = NoReceiver /\ room' = NoRoom
      /\ joining' = joining /\ used' = used + 1
      /\ overlapped' = (overlapped \/ joining # {})
  BY DEF DoLeave, Leave, Command
<1>2. room'.present = FALSE
  BY <1>1, RoomFields
<1>3. ChatTypeOK' /\ FilterOK'
  <2>1. used' \in Nat /\ joining' \subseteq Nat \ {0} /\ topic' \in Nat
    BY <1>1 DEF RoomInv, ChatTypeOK
  <2> QED
    BY <1>1, <1>2, <2>1 DEF ChatTypeOK, FilterOK, NoReceiver
<1>4. RoomHasKeys' /\ JoinedRoomCanSend' /\ NoReceiverWithoutTopic'
  BY <1>1, <1>2 DEF RoomHasKeys, JoinedRoomCanSend, NoReceiverWithoutTopic, NoReceiver
<1>5. JoinsAlone' /\ RoomListsNeighbours'
  BY <1>1, <1>2 DEF RoomInv, JoinsAlone, RoomListsNeighbours
<1> QED
  BY <1>3, <1>4, <1>5 DEF RoomInv

LEMMA ReloadPreserves ==
  ASSUME RoomInv, profile \in BOOLEAN, Reload PROVE RoomInv'
<1>1. /\ topic' = 0 /\ receiver' = NoReceiver /\ used' = used + 1 /\ used' \in Nat \ {0}
      /\ room' = (IF profile THEN NewRoom ELSE NoRoom) /\ keys' = profile
      /\ joining' = (IF profile THEN {used'} ELSE {})
  BY DEF Reload, RoomInv, ChatTypeOK
<1>2. room'.present = profile /\ (profile => room' \in Rooms /\ room'.joined = FALSE
                                             /\ room'.participants = {})
  BY <1>1, RoomFields
<1>3. receiver'.at = "None"
  BY <1>1, ReceiverFields
<1>4. ChatTypeOK' /\ FilterOK' /\ RoomHasKeys' /\ NoReceiverWithoutTopic'
  BY <1>1, <1>2 DEF RoomInv, ChatTypeOK, FilterOK, RoomHasKeys, NoReceiverWithoutTopic,
     NoReceiver
<1>5. JoinedRoomCanSend' /\ JoinsAlone'
  BY <1>1, <1>2 DEF JoinedRoomCanSend, JoinsAlone
<1>6. RoomListsNeighbours'
  BY <1>2, <1>3 DEF RoomListsNeighbours, Running
<1> QED
  BY <1>4, <1>5, <1>6 DEF RoomInv

(* What the receiver task does to the room, if the room is there. *)
LEMMA RoomUpdates ==
  ASSUME NEW p \in Peers, room \in Rooms
  PROVE  /\ RoomNeighborUp(p) \in Rooms
         /\ RoomNeighborUp(p).participants = room.participants \cup {p}
         /\ RoomNeighborUp(p).left = room.left \ {p}
         /\ RoomNeighborUp(p).joined = room.joined
         /\ RoomNeighborDown(p) \in Rooms
         /\ RoomNeighborDown(p).participants = room.participants \ {p}
         /\ RoomNeighborDown(p).left = room.left
         /\ RoomNeighborDown(p).joined = room.joined
         /\ RoomPeerLeft(p) \in Rooms
         /\ RoomPeerLeft(p).participants = room.participants \ {p}
         /\ RoomPeerLeft(p).left = room.left \cup {p}
         /\ RoomPeerLeft(p).joined = room.joined
  BY DEF Rooms, RoomNeighborUp, RoomNeighborDown, RoomPeerLeft

(* A receiver task goes on with the same filter, and the list of the room follows
   its links. *)
LEMMA ReceiverGoesOn ==
  ASSUME RoomInv, UNCHANGED <<topic, keys, joining, used, overlapped>>,
         receiver \in Receivers, receiver' \in Receivers, FilterOK',
         room'.present = room.present,
         room.present =>
           /\ room' \in Rooms /\ room'.joined = room.joined
           /\ room.participants = receiver.linked \ room.left =>
                room'.participants = receiver'.linked \ room'.left
  PROVE  RoomInv'
<1>1. receiver.at \in {"Idle", "Announcing", "Ended"} /\ receiver # NoReceiver
  BY ReceiverFields
<1>2. receiver'.at \in {"Idle", "Announcing", "Ended"}
  BY ReceiverFields
<1>3. ChatTypeOK'
  BY DEF RoomInv, ChatTypeOK, Receivers, Rooms, NoReceiver
<1>4. RoomHasKeys' /\ JoinedRoomCanSend'
  BY DEF RoomInv, RoomHasKeys, JoinedRoomCanSend
<1>5. NoReceiverWithoutTopic' /\ JoinsAlone'
  BY <1>1 DEF RoomInv, NoReceiverWithoutTopic, JoinsAlone
<1>6. RoomListsNeighbours'
  <2> SUFFICES ASSUME ~overlapped, room.present
               PROVE  room'.participants = receiver'.linked \ room'.left
    BY <1>2 DEF RoomListsNeighbours, Running
  <2>1. room.participants = receiver.linked \ room.left
    BY <1>1 DEF RoomInv, RoomListsNeighbours, Running
  <2> QED
    BY <2>1
<1> QED
  BY <1>3, <1>4, <1>5, <1>6 DEF RoomInv

LEMMA LinksPreserve ==
  ASSUME RoomInv, NEW p \in Peers, NeighborUp(p) \/ NeighborDown(p)
  PROVE  RoomInv'
<1>1. receiver.at = "Idle" /\ UNCHANGED <<topic, keys, joining, used, overlapped>>
  BY DEF NeighborUp, NeighborDown
<1>2. receiver \in Receivers
  BY <1>1, ReceiverFields DEF RoomInv, ChatTypeOK
<1>3. room.present => room \in Rooms
  BY DEF RoomInv, ChatTypeOK
<1>4. /\ receiver' \in Receivers
      /\ receiver'.seen = receiver.seen /\ receiver'.shown = receiver.shown
      /\ NeighborUp(p) => receiver'.linked = receiver.linked \cup {p}
      /\ NeighborDown(p) => receiver'.linked = receiver.linked \ {p}
  <2>1. NeighborUp(p) => receiver' = [receiver EXCEPT !.linked = receiver.linked \cup {p},
                                                      !.at = "Announcing"]
    BY DEF NeighborUp
  <2>2. NeighborDown(p) => receiver' = [receiver EXCEPT !.linked = receiver.linked \ {p}]
    BY DEF NeighborDown
  <2>3. NeighborUp(p) => p \notin receiver.linked
    BY DEF NeighborUp
  <2>4. NeighborDown(p) => p \in receiver.linked
    BY DEF NeighborDown
  <2>5. CASE NeighborUp(p)
    <3>1. ~NeighborDown(p)
      BY <2>3, <2>4, <2>5
    <3>2. receiver.linked \cup {p} \in SUBSET Peers
      BY <1>2 DEF Receivers
    <3>3. /\ receiver' \in Receivers /\ receiver'.linked = receiver.linked \cup {p}
          /\ receiver'.seen = receiver.seen /\ receiver'.shown = receiver.shown
      BY <1>2, <2>1, <2>5, <3>2 DEF Receivers
    <3> QED
      BY <3>1, <3>3
  <2>6. CASE NeighborDown(p)
    <3>1. ~NeighborUp(p)
      BY <2>3, <2>4, <2>6
    <3> QED
      BY <1>2, <2>2, <2>6, <3>1 DEF Receivers
  <2> QED
    BY <2>5, <2>6
<1>5. FilterOK'
  BY <1>2, <1>4, ReceiverFields DEF RoomInv, FilterOK
<1>6. CASE NeighborUp(p)
  <2>1. room' = IF room.present THEN RoomNeighborUp(p) ELSE room
    BY <1>6 DEF NeighborUp, Shows
  <2>2. room'.present = room.present
    <3>1. CASE room.present
      BY <1>3, <2>1, <3>1, RoomUpdates, RoomFields
    <3>2. CASE ~room.present
      BY <2>1, <3>2
    <3> QED
      BY <3>1, <3>2
  <2>3. room.present =>
          /\ room' \in Rooms /\ room'.joined = room.joined
          /\ room'.participants = room.participants \cup {p} /\ room'.left = room.left \ {p}
    BY <1>3, <2>1, RoomUpdates
  <2> QED
    BY <1>1, <1>2, <1>4, <1>5, <1>6, <2>2, <2>3, ReceiverGoesOn
<1>7. CASE NeighborDown(p)
  <2>1. room' = IF room.present THEN RoomNeighborDown(p) ELSE room
    BY <1>7 DEF NeighborDown, Shows
  <2>2. room'.present = room.present
    <3>1. CASE room.present
      BY <1>3, <2>1, <3>1, RoomUpdates, RoomFields
    <3>2. CASE ~room.present
      BY <2>1, <3>2
    <3> QED
      BY <3>1, <3>2
  <2>3. room.present =>
          /\ room' \in Rooms /\ room'.joined = room.joined
          /\ room'.participants = room.participants \ {p} /\ room'.left = room.left
    BY <1>3, <2>1, RoomUpdates
  <2> QED
    BY <1>1, <1>2, <1>4, <1>5, <1>7, <2>2, <2>3, ReceiverGoesOn
<1> QED
  BY <1>6, <1>7

LEMMA SignedPreserves ==
  ASSUME RoomInv, NEW p \in Peers, NEW nonce \in DOMAIN Signed[p], ReceivesSigned(p, nonce)
  PROVE  RoomInv'
<1> DEFINE s == Insert(receiver.seen[p], nonce)
           t == Newest(ReplayCap + 1, Append(receiver.shown[p], nonce))
<1>1. /\ receiver.at = "Idle" /\ UNCHANGED <<topic, keys, joining, used, overlapped>>
      /\ ~Replayed(receiver.seen[p], nonce)
      /\ receiver' = [receiver EXCEPT !.seen[p] = s, !.shown[p] = t]
      /\ room' = IF room.present
                   THEN IF Signed[p][nonce] = "Leave" THEN RoomPeerLeft(p) ELSE room
                   ELSE room
  BY DEF ReceivesSigned, Shows
<1>2. receiver \in Receivers /\ receiver # NoReceiver
  BY <1>1, ReceiverFields DEF RoomInv, ChatTypeOK
<1>3. nonce \in Nat
  <2>1. Signed[p] \in Seq({"AboutMe", "Chat", "Leave"})
    BY ChatAssumption
  <2>2. DOMAIN Signed[p] = 1..Len(Signed[p]) /\ Len(Signed[p]) \in Nat
    BY <2>1
  <2> QED
    BY <2>2
<1>4. Keeps(s, t) /\ Apart(t)
  BY <1>1, <1>2, <1>3, FilterStep DEF RoomInv, FilterOK
<1> HIDE DEF s, t
<1>5. /\ receiver' \in Receivers /\ receiver'.linked = receiver.linked
      /\ receiver'.seen = [receiver.seen EXCEPT ![p] = s]
      /\ receiver'.shown = [receiver.shown EXCEPT ![p] = t]
  <2>1. s \in Seq(Nat) /\ t \in Seq(Nat)
    BY <1>4 DEF Keeps
  <2> QED
    BY <1>1, <1>2, <2>1 DEF Receivers
<1>6. FilterOK'
  <2> SUFFICES ASSUME NEW q \in Peers
               PROVE  Keeps(receiver'.seen[q], receiver'.shown[q]) /\ Apart(receiver'.shown[q])
    BY DEF FilterOK
  <2>1. receiver.seen \in [Peers -> Seq(Nat)] /\ receiver.shown \in [Peers -> Seq(Nat)]
    BY <1>2 DEF Receivers
  <2>2. CASE q = p
    BY <1>4, <1>5, <2>1, <2>2
  <2>3. CASE q # p
    <3>1. receiver'.seen[q] = receiver.seen[q] /\ receiver'.shown[q] = receiver.shown[q]
      BY <1>5, <2>1, <2>3
    <3> QED
      BY <1>2, <3>1 DEF RoomInv, FilterOK
  <2> QED
    BY <2>2, <2>3
<1>7. room.present => room \in Rooms
  BY DEF RoomInv, ChatTypeOK
<1>8. room'.present = room.present
  BY <1>1, <1>7, RoomUpdates, RoomFields
<1>9. room.present =>
        /\ room' \in Rooms /\ room'.joined = room.joined
        /\ \/ room' = room
           \/ room'.participants = room.participants \ {p} /\ room'.left = room.left \cup {p}
  BY <1>1, <1>7, RoomUpdates
<1> QED
  BY <1>1, <1>2, <1>5, <1>6, <1>8, <1>9, ReceiverGoesOn

(* An announcement that is broadcast, and an error of the topic. *)
LEMMA ReceiverMovesPreserves ==
  ASSUME RoomInv, NeighborAnnounced \/ ReceiverFails PROVE RoomInv'
<1>1. /\ receiver.at \in {"Idle", "Announcing"}
      /\ UNCHANGED <<topic, keys, joining, used, overlapped, room>>
  BY DEF NeighborAnnounced, ReceiverFails
<1>2. receiver \in Receivers /\ receiver # NoReceiver
  BY <1>1, ReceiverFields DEF RoomInv, ChatTypeOK
<1>3. /\ receiver' \in Receivers /\ receiver'.linked = receiver.linked
      /\ receiver'.seen = receiver.seen /\ receiver'.shown = receiver.shown
  BY <1>2 DEF NeighborAnnounced, ReceiverFails, Receivers
<1>4. FilterOK'
  BY <1>2, <1>3 DEF RoomInv, FilterOK
<1>5. room.present => room \in Rooms
  BY DEF RoomInv, ChatTypeOK
<1> QED
  BY <1>1, <1>2, <1>3, <1>4, <1>5, ReceiverGoesOn

(* The steps of the other tasks leave what the invariant is about, or end a Join. *)
LEMMA OtherStepsPreserve ==
  ASSUME RoomInv, UNCHANGED <<topic, keys, receiver, room>>,
         joining' \subseteq joining, used' = used \/ used' = used + 1,
         overlapped => overlapped'
  PROVE  RoomInv'
<1>1. ChatTypeOK' /\ FilterOK'
  <2>1. FilterOK'
    BY DEF RoomInv, FilterOK, NoReceiver, Keeps, Apart
  <2>2. used' \in Nat /\ joining' \subseteq Nat \ {0} /\ topic' \in Nat
    BY DEF RoomInv, ChatTypeOK
  <2>3. receiver' = NoReceiver' \/ receiver' \in Receivers'
    BY DEF RoomInv, ChatTypeOK, NoReceiver, Receivers
  <2>4. room'.present \in BOOLEAN /\ (room'.present => room' \in Rooms')
    BY DEF RoomInv, ChatTypeOK, Rooms
  <2> QED
    BY <2>1, <2>2, <2>3, <2>4 DEF ChatTypeOK
<1>2. RoomHasKeys' /\ JoinedRoomCanSend' /\ NoReceiverWithoutTopic'
  BY DEF RoomInv, RoomHasKeys, JoinedRoomCanSend, NoReceiverWithoutTopic, NoReceiver
<1>3. JoinsAlone'
  BY DEF RoomInv, JoinsAlone
<1>4. RoomListsNeighbours'
  BY DEF RoomInv, RoomListsNeighbours, Running
<1> QED
  BY <1>1, <1>2, <1>3, <1>4 DEF RoomInv

LEMMA ChatNextPreserves ==
  ASSUME RoomInv, profile \in BOOLEAN, [ChatNext]_chatVars PROVE RoomInv'
<1> USE DEF maps, storage
<1>1. CASE DoSend
  <2>1. /\ UNCHANGED <<topic, keys, receiver, room, joining>> /\ used' = used + 1
        /\ overlapped => overlapped'
    BY <1>1 DEF DoSend, Send, Command
  <2> QED
    BY <2>1, OtherStepsPreserve
<1>2. CASE TasksRun \/ SavesAgain \/ (\E present \in BOOLEAN : SaveLands(present))
           \/ ReceivesSync \/ UNCHANGED chatVars
  <2>1. UNCHANGED <<topic, keys, receiver, room, joining, used, overlapped>>
    BY <1>2 DEF TasksRun, TaskEnds, SavesAgain, SaveLands, ReceivesSync, chatVars
  <2> QED
    BY <2>1, OtherStepsPreserve
<1>3. ASSUME NEW j \in joining, JoinFails(j) PROVE RoomInv'
  <2>1. UNCHANGED <<topic, keys, receiver, room, used, overlapped>> /\ joining' = joining \ {j}
    BY <1>3 DEF JoinFails
  <2> QED
    BY <2>1, OtherStepsPreserve
<1>4. CASE Receives
  BY <1>2, <1>4, LinksPreserve, SignedPreserves, ReceiverMovesPreserves DEF Receives
<1> QED
  BY <1>1, <1>2, <1>3, <1>4, JoinPreserves, SubscribedPreserves, LeavePreserves,
     ReloadPreserves DEF ChatNext, User, Subscribes, Stores

-----------------------------------------------------------------------------
(* The profile.  As long as saves do not race, those under way agree with the room,
   and what was stored last does so once there is none. *)

SavesAgree ==
  ~raced =>
    /\ BagToSet(saves) \subseteq {room.present}
    /\ BagToSet(saves) = {} => profile = room.present

ProfileInv == profile \in BOOLEAN /\ SavesAgree

(* What a bag holds when one element comes in or goes out. *)
LEMMA BagElements ==
  /\ BagToSet(EmptyBag) = {}
  /\ \A x : BagToSet(SetToBag({x})) = {x}
  /\ \A B, x : BagToSet(B (+) SetToBag({x})) = BagToSet(B) \cup {x}
  /\ \A B, x : BagToSet(B (-) SetToBag({x})) \subseteq BagToSet(B)
  BY DEF BagToSet, SetToBag, EmptyBag, (+), (-)

(* What a save adds to those under way, where the room is or has become present. *)
LEMMA SavePreserves ==
  ASSUME ProfileInv, Save(room'.present), room.present \in BOOLEAN, room'.present \in BOOLEAN
  PROVE  ProfileInv'
<1>1. /\ saves' = saves (+) SetToBag({room'.present})
      /\ ~raced' => ~raced /\ ~BagIn(~room'.present, saves)
      /\ profile' = profile
  BY DEF Save
<1>2. /\ BagToSet(saves') = BagToSet(saves) \cup {room'.present}
      /\ ~raced' => (~room'.present) \notin BagToSet(saves)
  BY <1>1, BagElements DEF BagIn
<1>3. ~raced => BagToSet(saves) \subseteq {TRUE, FALSE}
  BY DEF ProfileInv, SavesAgree
<1>4. ~raced' => BagToSet(saves') \subseteq {room'.present}
  BY <1>1, <1>2, <1>3
<1> QED
  BY <1>1, <1>2, <1>4 DEF ProfileInv, SavesAgree

LEMMA ProfileInitEstablishes == ChatInit => ProfileInv
<1> SUFFICES ASSUME ChatInit PROVE ProfileInv
  OBVIOUS
<1>1. profile = FALSE /\ saves = SetToBag({FALSE}) /\ room.present = FALSE
  BY RoomFields DEF ChatInit
<1>2. BagToSet(saves) = {FALSE}
  BY <1>1, BagElements
<1> QED
  BY <1>1, <1>2 DEF ProfileInv, SavesAgree

(* Only commands that join or leave, and a reload, change whether there is a room. *)
LEMMA PresenceKept ==
  ASSUME ChatTypeOK,
         DoSend \/ Subscribes \/ TasksRun \/ Receives \/ UNCHANGED chatVars
  PROVE  room'.present = room.present /\ UNCHANGED <<profile, saves, raced>>
<1> USE DEF storage
<1>1. UNCHANGED <<profile, saves, raced>>
  BY DEF DoSend, Subscribes, Subscribed, JoinFails, TasksRun, TaskEnds, Receives,
     NeighborAnnounced, ReceivesSync, ReceiverFails, NeighborUp, NeighborDown,
     ReceivesSigned, chatVars
<1>2. \/ UNCHANGED room \/ room' = RoomJoined(room)
      \/ \E p \in Peers : \/ Shows(RoomNeighborUp(p)) \/ Shows(RoomNeighborDown(p))
                          \/ Shows(RoomPeerLeft(p)) \/ Shows(room)
  BY DEF DoSend, Subscribes, Subscribed, JoinFails, TasksRun, TaskEnds, Receives,
     NeighborAnnounced, ReceivesSync, ReceiverFails, NeighborUp, NeighborDown,
     ReceivesSigned, chatVars
<1>3. CASE room.present
  <2>1. room \in Rooms
    BY <1>3 DEF ChatTypeOK
  <2>2. room' \in Rooms
    BY <1>2, <1>3, <2>1, RoomFields, RoomUpdates DEF Shows
  <2> QED
    BY <1>1, <2>1, <2>2, RoomFields
<1>4. CASE ~room.present
  BY <1>1, <1>2, <1>4 DEF Shows, RoomJoined
<1> QED
  BY <1>3, <1>4

LEMMA ProfileNextPreserves ==
  ASSUME RoomInv, RoomInv', ProfileInv, [ChatNext]_chatVars PROVE ProfileInv'
<1>1. ChatTypeOK /\ room.present \in BOOLEAN /\ room'.present \in BOOLEAN
  BY DEF RoomInv, ChatTypeOK
<1>2. CASE DoJoin \/ DoLeave
  <2>1. SavesIfChanged
    BY <1>2 DEF DoJoin, DoLeave
  <2>2. CASE room'.present = room.present
    BY <2>1, <2>2 DEF SavesIfChanged, storage, ProfileInv, SavesAgree
  <2>3. CASE room'.present # room.present
    BY <1>1, <2>1, <2>3, SavePreserves DEF SavesIfChanged
  <2> QED
    BY <2>2, <2>3
<1>3. CASE Reload
  <2>1. /\ profile' = profile /\ saves' = SetToBag({profile})
        /\ room' = IF profile THEN NewRoom ELSE NoRoom
    BY <1>3 DEF Reload
  <2>2. room'.present = profile
    <3>1. NewRoom.present = TRUE /\ NoRoom.present = FALSE
      BY RoomFields
    <3> QED
      BY <2>1, <3>1 DEF ProfileInv
  <2>3. BagToSet(saves') = {profile}
    BY <2>1, BagElements
  <2> QED
    BY <2>1, <2>2, <2>3 DEF ProfileInv, SavesAgree
<1>4. CASE SavesAgain
  <2>1. room' = room /\ room.present /\ Save(TRUE)
    BY <1>4 DEF SavesAgain
  <2>2. room'.present = TRUE
    BY <1>1, <2>1
  <2> QED
    BY <1>1, <2>1, <2>2, SavePreserves
<1>5. ASSUME NEW present \in BOOLEAN, SaveLands(present) PROVE ProfileInv'
  <2>1. /\ present \in BagToSet(saves) /\ saves' = saves (-) SetToBag({present})
        /\ profile' = present /\ UNCHANGED <<room, raced>>
    BY <1>5 DEF SaveLands, BagIn
  <2>2. BagToSet(saves') \subseteq BagToSet(saves)
    BY <2>1, BagElements
  <2>3. ~raced => present = room.present
    BY <2>1 DEF ProfileInv, SavesAgree
  <2> QED
    BY <2>1, <2>2, <2>3 DEF ProfileInv, SavesAgree
<1>6. CASE DoSend \/ Subscribes \/ TasksRun \/ Receives \/ UNCHANGED chatVars
  <2>1. room'.present = room.present /\ UNCHANGED <<profile, saves, raced>>
    BY <1>1, <1>6, PresenceKept
  <2> QED
    BY <2>1 DEF ProfileInv, SavesAgree
<1> QED
  BY <1>2, <1>3, <1>4, <1>5, <1>6 DEF ChatNext, User, Stores

LEMMA ChatInvariantHolds == ChatSpec => [](RoomInv /\ ProfileInv)
<1>1. ChatInit => RoomInv /\ ProfileInv
  BY ChatInitEstablishes, ProfileInitEstablishes
<1>2. RoomInv /\ ProfileInv /\ [ChatNext]_chatVars => (RoomInv /\ ProfileInv)'
  BY ChatNextPreserves, ProfileNextPreserves DEF ProfileInv
<1> QED
  BY <1>1, <1>2, PTL DEF ChatSpec

(* For any cap, any packets and any order of delivery, the filter lets nothing
   through again before as many others of its signer came as it remembers
   (protocol.rs ReplayLru). *)
THEOREM PacketsAreShownOnce == ChatSpec => []ShownOnce
<1>1. RoomInv => ShownOnce
  <2> SUFFICES ASSUME RoomInv, Running, NEW p \in Peers PROVE Apart(receiver.shown[p])
    BY DEF ShownOnce, Apart
  <2> QED
    BY ReceiverFields DEF RoomInv, FilterOK, Running
<1> QED
  BY <1>1, ChatInvariantHolds, PTL

(* For any commands, a room that says it is joined can send (chat_room.rs). *)
THEOREM JoinedRoomsCanSend == ChatSpec => []JoinedRoomCanSend
<1>1. RoomInv => JoinedRoomCanSend
  BY DEF RoomInv
<1> QED
  BY <1>1, ChatInvariantHolds, PTL

(* For any peers and commands that do not overlap a Join, the list of the room is
   that of the neighbours of its subscription (state.rs). *)
THEOREM RoomsListTheirNeighbours == ChatSpec => []RoomListsNeighbours
<1>1. RoomInv => RoomListsNeighbours
  BY DEF RoomInv
<1> QED
  BY <1>1, ChatInvariantHolds, PTL

(* For any number of saves under way that do not contradict each other, what is
   stored once they landed is what the page shows (storage.rs). *)
THEOREM ProfilesFollowTheirRoom == ChatSpec => []ProfileFollowsRoom
<1>1. ProfileInv => ProfileFollowsRoom
  BY BagElements DEF ProfileInv, SavesAgree, ProfileFollowsRoom
<1> QED
  BY <1>1, ChatInvariantHolds, PTL
=============================================================================
