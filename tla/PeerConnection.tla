---------------------------- MODULE PeerConnection ----------------------------
(***************************************************************************)
(* An accepted peer connection of the RTC registry (browser/registry.rs):  *)
(* its local ICE queue, and the data channel of the peer on its way to the *)
(* task that attaches it.  The browser may announce the channel before or  *)
(* after that task asks for it, and the channel may close at any point.    *)
(* Only an event of the attached channel closes the connection.            *)
(***************************************************************************)
EXTENDS LocalIce

VARIABLES
  announced,  \* the browser reported the data channel of the peer
  channelUp,  \* the channel is connecting or open, not closing or closed
  incoming,   \* the channel is in incoming_data_channels
  handed,     \* the channel was sent to the waiter, who has yet to run
  attach      \* the task: "None", "Asking", "Waiting" as a waiter, "Attached", "Failed"

channelVars == <<announced, channelUp, incoming, handed, attach>>

(* Mutant: the channel is queued although a task waits for it. *)
QueueOnly ==
  /\ ~announced
  /\ announced' = TRUE /\ incoming' = channelUp
  /\ UNCHANGED <<iceVars, channelUp, handed, attach>>

(* ondatachannel: a channel that is closing or closed by now is dropped, and a
   task that waits is not told (validate_data_channel_transferable). *)
ChannelAnnounced ==
  /\ ~announced
  /\ announced' = TRUE
  /\ handed' = (channelUp /\ attach = "Waiting")
  /\ incoming' = (channelUp /\ attach # "Waiting")
  /\ UNCHANGED <<iceVars, channelUp, attach>>

(* Either peer or the browser closes the channel before it is attached; an
   attached channel tells its session. *)
ChannelCloses ==
  /\ channelUp /\ attach \in {"Asking", "Waiting"}
  /\ channelUp' = FALSE
  /\ UNCHANGED <<iceVars, announced, incoming, handed, attach>>

(* attach_data_channel_from_main_channel: the session has to await a channel.
   What the channel itself does by then is not looked at. *)
Attached(awaited) == attach' = IF awaited THEN "Attached" ELSE "Failed"

(* take_data_channel: a queued channel is taken, unless it closed meanwhile,
   which ends the task; else the task becomes a waiter. *)
AskForChannel(awaited) ==
  /\ attach = "Asking"
  /\ IF incoming THEN Attached(channelUp /\ awaited) ELSE attach' = "Waiting"
  /\ incoming' = FALSE
  /\ UNCHANGED <<iceVars, announced, channelUp, handed>>

ReceiveChannel(awaited) ==
  /\ attach = "Waiting" /\ handed
  /\ Attached(awaited)
  /\ handed' = FALSE
  /\ UNCHANGED <<iceVars, announced, channelUp, incoming>>

Attach(awaited) == AskForChannel(awaited) \/ ReceiveChannel(awaited)

(* try_close_peer_connection drops the entry with what is queued in it, and
   closes the connection with its channel. *)
ClosePeerConnection ==
  /\ Close
  /\ incoming' = FALSE /\ channelUp' = FALSE
=============================================================================
