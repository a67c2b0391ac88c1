------------------------------- MODULE ChatRoom -------------------------------
(***************************************************************************)
(* The chat room example (src/examples/rust-browser-chat-room): one page   *)
(* that hosts or joins one room, and what it hears of its peers there.     *)
(* The page keeps three maps per topic (protocol.rs: sender, keys,         *)
(* receiver task), tasks that encrypt and broadcast, and the room its user *)
(* sees (state.rs).  A persistent session saves its rooms in a profile     *)
(* (storage.rs), and a page that is loaded again joins what it finds there *)
(* (components/app.rs).                                                    *)
(*                                                                         *)
(* The page runs on one thread.  What a handler does up to an await that   *)
(* suspends is one action.  An event for the user interface goes through   *)
(* an unbounded queue that is emptied before the browser hands the page    *)
(* its next event, so it is applied in the action that sends it.           *)
(*                                                                         *)
(* The commands of the user are numbered, and the number of a Join is the  *)
(* subscription it makes.  Names, texts, messages and the list of peers a  *)
(* room knows are left out; that they are saved too is SavesAgain.         *)
(*                                                                         *)
(* Gossip and the peers are external.  Gossip tells a receiver of links    *)
(* that come up and go down, and delivers what a peer has signed in any    *)
(* order, several times or never; a signer never uses a nonce twice.       *)
(***************************************************************************)
EXTENDS Naturals, Sequences, FiniteSets, Bags

CONSTANTS Signed,      \* signer -> the kinds of its packets, numbered by nonce
          ReplayCap,   \* REPLAY_CAP_PER_SIGNER
          MaxCommands, \* bound: commands of the user, reloads included
          MaxSaves     \* bound: saves under way when SavesAgain adds one

Peers == DOMAIN Signed

ASSUME ChatAssumption ==
  /\ \A p \in Peers : Signed[p] \in Seq({"AboutMe", "Chat", "Leave"})
  /\ ReplayCap \in Nat \ {0}
  /\ MaxCommands \in Nat /\ MaxSaves \in Nat

VARIABLES topic,      \* subscription whose sender `topics` holds, 0 for none
          keys,       \* `keys` holds the keys of the room
          receiver,   \* the receiver task `tasks` holds
          joining,    \* Join commands that wait for `subscribe`
          tasks,      \* bag of tasks that broadcast; each has a clone of its sender
          pending,    \* subscriptions whose pending_announce is set
          room,       \* the room of the user, or NoRoom
          used,       \* number of the user's last command
          profile,    \* the stored profile has the room
          saves,      \* bag of saves under way: whether the room is in them
          overlapped, \* history of the page: a command came while a Join waited
          raced       \* history of the page: a save began beside one it contradicts

maps == <<topic, keys, receiver>>
storage == <<profile, saves, raced>>
chatVars == <<maps, joining, tasks, pending, room, used, overlapped, storage>>

NoRoom == [present |-> FALSE]
NewRoom == [present |-> TRUE, joined |-> FALSE, participants |-> {}, left |-> {}]

NoReceiver == [sub |-> 0, at |-> "None"]
(* linked: what gossip told of links; seen: the ReplayLru; shown: the last packets it
   let through, one more than the filter remembers, for the properties. *)
NewReceiver(sub) ==
  [sub |-> sub, at |-> "Idle", linked |-> {},
   seen |-> [p \in Peers |-> <<>>], shown |-> [p \in Peers |-> <<>>]]

Running == receiver.at \in {"Idle", "Announcing"}
TaskKinds == {"Announce", "Chat", "Leave", "Response"}

ChatInit ==
  /\ topic = 0 /\ keys = FALSE /\ receiver = NoReceiver
  /\ joining = {} /\ tasks = EmptyBag /\ pending = {}
  /\ room = NoRoom /\ used = 0 /\ overlapped = FALSE
  /\ profile = FALSE /\ saves = SetToBag({FALSE}) /\ raced = FALSE

-----------------------------------------------------------------------------
(* The room: what the reducer does with an event of a room that is there. *)

AddRoom == IF room.present THEN room ELSE NewRoom
RoomJoined(r) == IF r.present THEN [r EXCEPT !.joined = TRUE] ELSE r

RoomNeighborUp(p) == [room EXCEPT !.participants = @ \cup {p}, !.left = @ \ {p}]
RoomNeighborDown(p) == [room EXCEPT !.participants = @ \ {p}]
(* Mutant: the list of the room keeps a peer that left. *)
PeerLeftStaysListed(p) == [room EXCEPT !.left = @ \cup {p}]

RoomPeerLeft(p) == [room EXCEPT !.participants = @ \ {p}, !.left = @ \cup {p}]

Shows(r) == room' = IF room.present THEN r ELSE room

-----------------------------------------------------------------------------
(* Commands of the user; they are handled side by side. *)

Command ==
  /\ used < MaxCommands
  /\ used' = used + 1
  /\ overlapped' = (overlapped \/ joining # {})

(* The effect of the view that saves the profile: rooms, their peers or the name of the
   user changed.  Saves encrypt side by side. *)
Save(present) ==
  /\ saves' = saves (+) SetToBag({present})
  /\ raced' = (raced \/ BagIn(~present, saves))
  /\ UNCHANGED profile

SavesIfChanged ==
  IF room'.present = room.present THEN UNCHANGED storage ELSE Save(room'.present)

Spawn(sub, kind) == tasks' = tasks (+) SetToBag({[sub |-> sub, kind |-> kind]})

(* Join of a topic the map has: the subscription is used again. *)
JoinAgain ==
  /\ topic # 0
  /\ room' = RoomJoined(AddRoom)
  /\ Spawn(topic, "Announce")
  /\ UNCHANGED joining

(* Join of another topic, up to the await of subscribe. *)
Join ==
  /\ topic = 0
  /\ room' = AddRoom
  /\ joining' = joining \cup {used'}
  /\ UNCHANGED tasks

(* Mutant: the keys are stored only where the topic is subscribed to. *)
DoJoinKeysLate ==
  /\ Command
  /\ keys' = (keys \/ topic = 0)
  /\ JoinAgain \/ Join
  /\ SavesIfChanged
  /\ UNCHANGED <<topic, receiver, pending>>

(* Host, join, or the join of a room the profile brought back: the room is there before
   the command, and the keys before its first await. *)
DoJoin ==
  /\ Command
  /\ keys' = TRUE
  /\ JoinAgain \/ Join
  /\ SavesIfChanged
  /\ UNCHANGED <<topic, receiver, pending>>

(* subscribe returns; what the maps held for the topic is overwritten, and a
   receiver task that was there is aborted. *)
Subscribed(j) ==
  /\ j \in joining
  /\ joining' = joining \ {j}
  /\ topic' = j
  /\ receiver' = NewReceiver(j)
  /\ room' = RoomJoined(room)
  /\ Spawn(j, "Announce")
  /\ UNCHANGED <<keys, pending, used, overlapped, storage>>

(* A peer that does not parse, no gossip yet, or an error of subscribe; the
   command's error is dropped, room and keys stay. *)
JoinFails(j) ==
  /\ j \in joining
  /\ joining' = joining \ {j}
  /\ UNCHANGED <<maps, tasks, pending, room, used, overlapped, storage>>

(* A command without sender or keys is an error nobody sees. *)
SpawnIfJoined(kind) ==
  IF topic # 0 /\ keys THEN Spawn(topic, kind) ELSE UNCHANGED tasks

Send == SpawnIfJoined("Chat") /\ UNCHANGED <<maps, joining, pending>>

(* The text field works in a joined room. *)
DoSend ==
  /\ Command /\ room.present /\ room.joined
  /\ Send
  /\ UNCHANGED <<room, storage>>

(* Mutant: the receiver task is not aborted. *)
LeaveReceiverRunning ==
  /\ SpawnIfJoined("Leave")
  /\ topic' = 0 /\ keys' = FALSE
  /\ UNCHANGED <<receiver, joining, pending>>

Leave ==
  /\ SpawnIfJoined("Leave")
  /\ topic' = 0 /\ keys' = FALSE /\ receiver' = NoReceiver
  /\ UNCHANGED <<joining, pending>>

(* Mutant: the room is not taken out of the profile. *)
DoLeaveUnsaved ==
  /\ Command /\ room.present
  /\ Leave
  /\ room' = NoRoom
  /\ UNCHANGED storage

DoLeave ==
  /\ Command /\ room.present
  /\ Leave
  /\ room' = NoRoom
  /\ SavesIfChanged

-----------------------------------------------------------------------------
(* The profile. *)

SavesAgain ==
  /\ room.present /\ BagCardinality(saves) < MaxSaves
  /\ Save(TRUE)
  /\ UNCHANGED <<maps, joining, tasks, pending, room, used, overlapped>>

SaveLands(present) ==
  /\ BagIn(present, saves)
  /\ saves' = saves (-) SetToBag({present})
  /\ profile' = present
  /\ UNCHANGED <<maps, joining, tasks, pending, room, used, overlapped, raced>>

(* The page goes away with all it has, saves under way too; the next one takes the
   room out of the profile, joins it and saves what it has. *)
Reload ==
  /\ used < MaxCommands /\ used' = used + 1
  /\ topic' = 0 /\ receiver' = NoReceiver
  /\ tasks' = EmptyBag /\ pending' = {}
  /\ room' = IF profile THEN NewRoom ELSE NoRoom
  /\ keys' = profile
  /\ joining' = IF profile THEN {used'} ELSE {}
  /\ overlapped' = FALSE
  /\ saves' = SetToBag({profile}) /\ raced' = FALSE
  /\ UNCHANGED profile

-----------------------------------------------------------------------------
(* A task that broadcasts returns, done or with an error the room shows.  The jittered
   answer to a Sync then clears the flag. *)
TaskEnds(t) ==
  /\ BagIn(t, tasks)
  /\ tasks' = tasks (-) SetToBag({t})
  /\ pending' = IF t.kind = "Response" THEN pending \ {t.sub} ELSE pending
  /\ UNCHANGED <<maps, joining, room, used, overlapped, storage>>

-----------------------------------------------------------------------------
(* The receiver task. *)

NeighborUp(p) ==
  /\ receiver.at = "Idle" /\ p \notin receiver.linked
  /\ receiver' = [receiver EXCEPT !.linked = @ \cup {p}, !.at = "Announcing"]
  /\ Shows(RoomNeighborUp(p))
  /\ UNCHANGED <<topic, keys, joining, tasks, pending, used, overlapped, storage>>

(* The receiver takes no event before its announcement is broadcast. *)
NeighborAnnounced ==
  /\ receiver.at = "Announcing"
  /\ receiver' = [receiver EXCEPT !.at = "Idle"]
  /\ UNCHANGED <<topic, keys, joining, tasks, pending, room, used, overlapped, storage>>

NeighborDown(p) ==
  /\ receiver.at = "Idle" /\ p \in receiver.linked
  /\ receiver' = [receiver EXCEPT !.linked = @ \ {p}]
  /\ Shows(RoomNeighborDown(p))
  /\ UNCHANGED <<topic, keys, joining, tasks, pending, used, overlapped, storage>>

(* ReplayLru::check_and_insert: false, or the packet comes last and the oldest goes. *)
Replayed(seen, nonce) == \E i \in DOMAIN seen : seen[i] = nonce
(* Mutant: at its cap the filter forgets the newest packet. *)
InsertForgettingNewest(seen, nonce) ==
  Append(IF Len(seen) >= ReplayCap THEN SubSeq(seen, 1, Len(seen) - 1) ELSE seen, nonce)

Insert(seen, nonce) ==
  Append(IF Len(seen) >= ReplayCap THEN Tail(seen) ELSE seen, nonce)

(* The last n elements of s. *)
Newest(n, s) == IF Len(s) <= n THEN s ELSE SubSeq(s, Len(s) - n + 1, Len(s))

(* AboutMe, Chat or Leave with a valid signature; a replay is skipped. *)
ReceivesSigned(p, nonce) ==
  /\ receiver.at = "Idle" /\ ~Replayed(receiver.seen[p], nonce)
  /\ receiver' =
       [receiver EXCEPT !.seen[p] = Insert(@, nonce),
                        !.shown[p] = Newest(ReplayCap + 1, Append(@, nonce))]
  /\ Shows(IF Signed[p][nonce] = "Leave" THEN RoomPeerLeft(p) ELSE room)
  /\ UNCHANGED <<topic, keys, joining, tasks, pending, used, overlapped, storage>>

(* One answer is pending per subscription at most. *)
ReceivesSync ==
  /\ receiver.at = "Idle" /\ receiver.sub \notin pending
  /\ pending' = pending \cup {receiver.sub}
  /\ Spawn(receiver.sub, "Response")
  /\ UNCHANGED <<maps, joining, room, used, overlapped, storage>>

(* An error of the topic ends the loop; the entries of the maps stay. *)
ReceiverFails ==
  /\ receiver.at = "Idle"
  /\ receiver' = [receiver EXCEPT !.at = "Ended"]
  /\ UNCHANGED <<topic, keys, joining, tasks, pending, room, used, overlapped, storage>>

-----------------------------------------------------------------------------

User == DoJoin \/ DoSend \/ DoLeave
Subscribes == \E j \in joining : Subscribed(j) \/ JoinFails(j)
TasksRun == \E t \in BagToSet(tasks) : TaskEnds(t)

Receives ==
  \/ NeighborAnnounced \/ ReceivesSync \/ ReceiverFails
  \/ \E p \in Peers :
       \/ NeighborUp(p) \/ NeighborDown(p)
       \/ \E nonce \in DOMAIN Signed[p] : ReceivesSigned(p, nonce)

Stores == SavesAgain \/ \E present \in BOOLEAN : SaveLands(present)

ChatNext == User \/ Reload \/ Subscribes \/ TasksRun \/ Receives \/ Stores

(* A broadcast returns, and so does subscribe.  The user, the peers and their links
   are not fair. *)
ChatSpec ==
  /\ ChatInit /\ [][ChatNext]_chatVars
  /\ WF_chatVars(TasksRun) /\ WF_chatVars(Subscribes)

-----------------------------------------------------------------------------
(* Properties. *)

(* A packet comes up again only after as many others of its signer as the filter
   remembers (protocol.rs:181). *)
ShownOnce ==
  Running => \A p \in Peers :
    LET shown == receiver.shown[p]
    IN  \A i, j \in DOMAIN shown :
          i < j /\ shown[i] = shown[j] => j - i > ReplayCap

(* A room that says it is joined has a sender and keys, whatever overlapped: what its
   user sends goes out (chat_room.rs:87). *)
JoinedRoomCanSend == room.present /\ room.joined => topic # 0 /\ keys

(* As long as no command overlapped a Join, the room lists the neighbours of its own
   subscription, without those that said they left: nobody stays in the list after
   its link went down, or comes in from a subscription the user left (state.rs:112). *)
RoomListsNeighbours ==
  ~overlapped /\ room.present =>
    room.participants = IF Running \/ receiver.at = "Ended"
                          THEN receiver.linked \ room.left ELSE {}

(* A page that did not let two saves race has stored what it shows once they landed:
   a reload brings back the room its user is in and no other (storage.rs:143). *)
ProfileFollowsRoom ==
  ~raced /\ saves = EmptyBag => profile = room.present

(* The subscription is served while a sender or the receiver of it is left. *)
Subscriptions == ({topic} \ {0}) \cup {t.sub : t \in BagToSet(tasks)}
                   \cup IF receiver.sub = 0 THEN {} ELSE {receiver.sub}

(* What a Leave left behind is released: the receiver is aborted and the last clones of
   the sender go with their tasks (protocol.rs:560). *)
LeftRoomIsReleased ==
  topic = 0 /\ joining = {} ~> Subscriptions = {} \/ joining # {}
=============================================================================
