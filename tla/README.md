# iroh-webrtc-messenger in TLA+

Models, model checking and proofs for the Rust workspace in `src/`. The
workspace lets Iroh endpoints talk over WebRTC data channels: a dial
first goes over an Iroh relay connection, bootstrap signals (offer, answer,
candidates, terminal decisions) are exchanged there, and once a data channel
is open a custom Iroh transport carries the application connection over it. If
that fails, the intent of the dial decides between the relay and an error. The
largest of the examples is a chat room on gossip, with maps, tasks and a stored
profile of its own.

In this file `core/`, `browser/`, `browser_runtime/` and `facade/` are below
`src/crates/iroh-webrtc-transport/src/`, and `chat/` is
`src/examples/rust-browser-chat-room/src/`.

## 1. Inventory

### 1.1 Components

| component | state | operations | modules |
|---|---|---|---|
| Node of the browser runtime (`browser_runtime/node*.rs`) | sessions by key, admitted connections, closed flag, the addresses the custom transport announces | allocate a dial, accept a dial request, attach / open / fail / close the data channel, terminal decisions sent and received, complete a dial, accept a WebRTC connection, close a connection, close the node | `SessionState`, `BrowserNode`, `BrowserNodeProofs` |
| Dials and signalling (`browser_runtime/direct/*.rs`, `direct.rs`) | `pending_dials`, `signal_senders`, spawned tasks, receiver loops, peer connections | dial future, RTC setup task, channel handlers, bootstrap receiver loop, signal writer, application connect tasks, close | `DirectRuntime`, `DialPromise`, `DirectRuntimeProofs` |
| Protocol transport (`direct/protocol_transport.rs`, `node/protocol_transport.rs`) | prepares that wait for a session, the lookup of session addresses | prepare, complete, `before_connect` | `DirectRuntime` |
| Endpoint lifecycle (`node/core.rs`) | the WebRTC endpoint of a node | restart for a dial, bind, install, connect, close | `EndpointLifecycle`, `StreamIoProofs` |
| Application streams (`node/stream.rs`, `node/stream_state.rs`) | streams by key: two mutexes, two flags, two `Notify`s | open, send, receive, close of the send half, close of the node | `StreamIo`, `StreamIoProofs` |
| Accept queue (`node/accept_state.rs`, `node/connection.rs`, `browser/facade.rs`) | one registration per ALPN: claim, queue, oneshots of waiting calls | open, accept, drop a call, close, admit | `AcceptQueue`, `AcceptQueueProofs` |
| RTC registry (`direct/rtc_registry.rs`, `browser/registry.rs`) | peer connections by key, incoming channels and their waiters | create, take, close | `PeerConnection` in `SignalPath`; up or closed in `DirectRuntime` |
| Local ICE queue (`core/hub.rs`, `direct/dial.rs`, `direct/bootstrap.rs`) | bounded queue of candidates with an end marker, closed flag | push, poll, close, the drain loops | `LocalIce` in `SignalPath`, `HubQueueProofs` |
| Signal writer, bootstrap stream and receiver loop (`direct/bootstrap.rs`, `core/bootstrap.rs`) | unbounded channel of the writer, the stream, what the dialer applied | hand over, write, read, time-outs, terminal decisions | `SignalPath`, `HubQueueProofs`; single steps in `DirectRuntime` and `NativeFacade` |
| Receive side of the custom transport (`direct/data_channel.rs`, `core/frame.rs`, `core/hub.rs`, `core/endpoint.rs`) | bounded frame queue, reader's waker, one frame kept between polls | message, push, poll, close | `PacketReceive`, `DatagramFifo`, `HubQueueProofs` |
| Send side (`core/sender.rs`, `core/hub.rs`, `direct/data_channel.rs`, `native.rs`) | route of a session, its bounded channel, stored waker, the pump's packet, the channel's buffer | register, `poll_send`, pump, buffered-amount-low, unregister, close | `OutboundPath`, `NativePump`, `NativePumpProofs` |
| Native facade (`facade/native.rs`) | sessions and routes of a node, accept queue | dial and fallback, bootstrap handler, gate, accept, close | `NativeFacade`, `NativeFacadeProofs` |
| Coordinator and signals (`core/coordinator.rs`, `core/signaling.rs`) | identity of a session | signals in and out, in the order of their stream | steps of `DirectRuntime`, `NativeFacade` and `SignalPath` |
| Chat room: rooms and replay filter (`chat/protocol.rs`, `chat/state.rs`, `chat/components/`) | three maps per topic, tasks that broadcast, the receiver with its `ReplayLru`, the room of the user | host, join, send, leave, receive, answer a Sync, reload | `ChatRoom`, `ChatRoomProofs` |
| Chat room: profile (`chat/storage.rs`) | the rooms stored, the saves under way | save, load | `ChatRoom`, `ChatRoomProofs` |
| Chat room: identity, cryptography, backups, views | key files, rendered pages | encrypt, sign, export | not modelled |
| Custom addresses (`core/addr.rs`), configuration, errors, conversions | none the dials depend on | | not modelled |
| Benchmarks and the ping-pong example | counters, a page | they call the facade in sequence | not modelled |

### 1.2 How they interact

Everything in the browser runs on the page's one thread. A component is entered
by a call of the application, a callback of the browser (`onopen`, `onmessage`,
`onicecandidate`, ...) or a task that was woken; it runs to its next `await`
and is not interrupted. So an action of a model reaches from one await to the
next. The node is a `Mutex` around a record which the runtime's handlers lock
for the length of one method. The hub is shared by `Arc<Mutex<..>>` between the
data channel handlers (push), the pump (pop), Iroh's socket task (`poll_recv`,
`poll_send`) and the close; each call locks it once, so there the interleaving
is per call. Pending dials are answered through oneshot channels, accept calls
too; a future may be dropped by the application at any await.

Signals of an acceptor come from three sources that know nothing of each other
(the drain loop, the channel handlers, the close of the node) and go through one
writer, one stream and one receiver loop, each of which can end before the
others. The chat room lives on the same page: every command of its user is a
task of its own, the receiver of a topic another, and all of them meet in the
maps and, as events, in the room the user sees.

### 1.3 What is hard

 * A dial is decided by whichever comes first: the channel's `open`, `error`
   or `close`, a terminal signal of the peer, the failure of the setup task,
   the close of the node. Several of them may come, in any order, while the
   application connection is being opened.
 * The receiver loop and the connect tasks hold what they read before an await.
 * A dropped dial future leaves tasks behind which work on its keys.
 * Every WebRTC dial of a browser node closes its WebRTC endpoint and binds
   another, with three awaits between, while other dials, their connections and
   the close of the node go on.
 * Hand-written wakers: the receive queue, the ICE queue and the send route each
   store one, and must wake it on every path that changes what it waits for.
   The native pump waits for a `Notify` which keeps no permit.
 * Bounded queues that drop, refuse or wait: the receive queue, the route, the
   ICE queue (whose end marker must survive), the accept queue.
 * Writes that stop half way, by a time-out or a dropped future, between writes
   that must come out whole.
 * The announced addresses are a cache of the sessions, refreshed by most but
   not all operations on them.
 * Native nodes run on several threads: a close falls between any two locks of
   a dial or a bootstrap handler.
 * Commands of the chat room overlap across their awaits; a Leave or a second Join
   comes while a Join waits for `subscribe`. A subscription ends with the last
   clone of its sender, and tasks hold clones across sleeps.
 * Packets of peers arrive late and again, and the replay filter forgets.
 * Saves of the profile encrypt side by side and land in any order, and a reload
   drops those under way.

`PROJECT.json` lists each of these hazards at its line with the properties aimed
at it, or the reason no property covers it yet.

### 1.4 What makes each component correct

 * Node: a WebRTC-only session never ends up on the relay; usable sessions are
   announced; a connection over WebRTC had an open channel; dead channels and
   ended WebRTC-only sessions stay dead.
 * Dials and prepares: one answer at most, a connection exactly where the answer
   says so, entries that end with their future, a peer that learns the first
   decision, no dial forgotten once it is decided.
 * Endpoints and streams: what is installed is usable; accepted chunks are whole
   and in order, nothing follows the end, calls end with the node.
 * Queues and pumps: order, nothing lost or twice, no lost wake-up, no
   starvation, a buffer that stays below its bound.
 * Signals: the answer first, then candidates as gathered, then their end, a
   terminal last, none twice; up to the first terminal none is lost silently.
 * Chat room: a joined room can send; it lists the neighbours of its own
   subscription; a packet is shown once within the reach of the filter; a room
   left is released; what is stored is what is shown.
 * Native nodes: a close leaves no session behind and admits nothing more; a
   dial ends, with one open connection at most.

## 2. Plan

Done:

 1. `SessionState`, `BrowserNode`: the record of a session and the node.
 2. `DirectRuntime` composes `BrowserNode` with futures, tasks, handlers,
    signals and prepares, and implements `DialPromise`.
 3. The queues: `PacketReceive` (implements `DatagramFifo`), `OutboundPath`,
    `AcceptQueue`.
 4. What surrounds them: `EndpointLifecycle`, `StreamIo` on top of it,
    `NativePump` on top of `OutboundPath`, and `SignalPath`, which composes the
    actions of `LocalIce` and `PeerConnection` with writer, stream and receiver loop.
 5. `NativeFacade`.
 6. `ChatRoom`.
 7. Proofs (section 6): every invariant and every action property that a passing run
    checks, and the three refinements.

Left, in this order:

 1. `DialPair`: a browser dialer and an acceptor connected by signal streams that
    may break, so that the states of both ends are related and the choice
    among several matching sessions (`node/core.rs:745`) is in the model.
 2. The coordinator's route check and the identity of sessions, once two dials
    share a pair of nodes; `after_handshake` of the protocol hook.
 3. The encoder, `normalized_segment_size` and the codec of custom addresses as
    pure operators against reference definitions.

Abstract specifications: `DialPromise` (what the application is promised of its
dials) and `DatagramFifo` (what Iroh is promised of the receive side).

## 3. Modules and code

An action is one uninterrupted piece of the code: on the page, what runs from one
await to the next; on native nodes and around the hub, what happens under one
lock. Its comment names the method. Operators whose comment begins with
"Mutant:" are not part of a specification; each is a plausible bug that breaks
the property `PROJECT.json` names for it.

**`SessionState`** is `node/session_state.rs`: a session is a record of role,
intent, channel, lifecycle, resolved transport and the terminal reasons sent and
received, and each method is an operator from record to record with its refusal as
a `Can...` guard. `PendingDialAction` is the decision of
`direct/dial.rs`, `DialActions` that of a prepare.

**`BrowserNode`** holds `sessions`, `connections`, `advertised`, `closed`. Its
actions are the node's methods: `AllocateDial`, `AllocateAcceptSession`,
`AttachDataChannel`, `MarkDataChannelOpen`, `EmitTerminalDecision`,
`DecideWebRtcFailure`, `DecideWebRtcClosed`, `ApplyRemoteTerminal`,
`CompleteDialAndAdmit`, `AcceptWebRtcConnection`, `AcceptRelayConnection`,
`CloseConnection`, `CloseNode`. `SetSession` refreshes the announced set the way
`update_session` does; the terminal operations do not refresh, as in the code.

**`DirectRuntime`** EXTENDS `BrowserNode` and adds the futures of callers, the
maps `pending`, `prepares` and `senders`, the task of each dial, its setup, peer
connection and receiver loop, and what the peer was told. `StartDial` to
`DialReturns` are the dial future, `StartPrepare` the future of a prepare,
`SetupAttaches`, `SetupDone`, `SetupFails` the RTC setup task,
`DataChannel...` the browser's callbacks, `Receive...`, `RtcSignalApplied` and
`LoopEnds` the receiver loop, `StartWebRtcConnection`, `WebRtcConnection` and
`RelayConnection` the tasks that open the application connection. An incoming
WebRTC connection goes through `FacadeAccepts` (an ALPN of the facade, which may
refuse it) or `ProtocolGateAccepts` (an ALPN of a custom protocol).
A session read before an await is kept in the state and used after it.

**`AcceptQueue`** is the registration of one ALPN: who claims it, its queue, and the
oneshots of its waiting calls, dropped ones among them. An answer goes to a oneshot
in one step and is seen by its call in another (`Answered`, `Done`), so a call may be
dropped, or the node closed, between the two. `gone` is history: the connections a full
queue refused or a close threw out, so that any other one must be queued or handed out.

**`PacketReceive`**: `MessageArrives` is the message handler of the data channel
(what does not decode, or names another session, is dropped) with the hub's
`push_received`; `StartPoll` and the actions of `Round` are the loop of
`poll_recv`, one round of it an action because the hub is locked per call.
`rest` is the frame the endpoint keeps between polls. A frame is its id, its
length and its segment size.

**`OutboundPath`** has the actions of one session's send side and of the browser's
pump; **`NativePump`** EXTENDS it with the native pump and its
notify, arms its low handler and waits as `native.rs` does, and
gives both the specification `PathSpec` (`stack` says which runs). A packet is
its id and its size.

**`SignalPath`** is the way of an acceptor's signals to its dialer. `LocalIce` has the
actions of the candidate queue and its drain loop, `PeerConnection` adds the hand-over
of the peer's data channel to the task that attaches it: `ChannelAnnounced` gives it to
the waiter or queues it, or drops it if it has closed by then, `AskForChannel` takes it
from the queue or fails if it closed there, and `Attached` fails where the session no
longer awaits a channel. `SignalPath` EXTENDS
them with the answer (`AnswerCreated`, `AnswerHanded`), the events of the channel
(`Channel`, once the dialer has the answer), a terminal of the dialer (`DialerGivesUp`,
as far as it ends the wait for a channel), the decisions (`Decide`, `CloseNode`), the writer (`WriterWrites`, `WriterFails`) and the receiver loop
(`HearAnswer`, `HearIce`, `HearTerminal`, `ListenerEnds`, `ListenerFails`). A signal is
a number whose order is that in which signals must arrive.

**`EndpointLifecycle`** follows dials through `restart_webrtc_endpoint` and
`dial_webrtc_application_connection`; **`StreamIo`** EXTENDS it with one stream
of one of the connections, so that a restart or a close ends what the stream runs
on. The mutex of a half is fair and calls are numbered as they are made, so the oldest
call that wants a half has it (`HasLock`). `cancelled` is the stored permit of a
`Notify`, `wire` what was written.

**`NativeFacade`** has, per node, `routes`, `tracked` sessions and the progress of
`close`; per dial, the dial future, the acceptor's handler and the signals between
them; per connection, whether it is open (`conn`), and what became of it at the gate
and in the accept queue (`gate`, `queue`). Each end looks at the path it selected
itself: `DialerChecks` keeps the connection of its own session and closes another, or
one without a selected path, before the dial goes on to the relay or fails;
`GateChecks` compares the path at the acceptor with the first route of the remote
(`Matches`). The two may disagree. Whoever gives a connection up closes it (`Shuts`):
the dialer, the gate, the routers when they shut down, a receiver that is dropped with
what it holds, the endpoints.

**`ChatRoom`** is one page of the example. `maps` are the three maps of `protocol.rs`
for one topic, `joining` the Joins that wait in `subscribe`, `tasks` the tasks that hold a
clone of a sender, `receiver` the receiver task with its filter, `room` what the
reducer of `state.rs` makes of the events, `profile` and `saves` the storage. `DoJoin`,
`DoSend`, `DoLeave` are the commands with the change of the view that comes before
them, `Subscribed` and `JoinFails` what follows the await, `Receives` the loop of the
receiver, `Reload` a page that goes away and is loaded again. A Join numbers its
subscription, so a sender that belongs to an overwritten one can be told apart.

## 4. Runs

| run | specification | instance | shows |
|---|---|---|---|
| `browser_node` | `BrowserNode!Spec` | two sessions of any role and intent, one connection | three invariants and two action properties of the node, in any order of its methods |
| `direct_runtime` | `DirectRuntime!FairSpec` | one session of any role and intent, dial or prepare, two connections | `DialPromise` is implemented; decided dials leave the maps, entries end with their future, the first decision is told, a dial taken out is answered, a WebRTC-only connect has a session |
| `packet_receive` | `PacketReceive!FairSpec` | queue of two, four frames | `DatagramFifo` is implemented, no lost wake-up, everything accepted is delivered |
| `outbound_path` | `NativePump!PathSpec` | either pump, one sender, six packets | order, no loss while the pump runs, bounded buffer, no route without a pump, the sender is answered |
| `signal_path` | `SignalPath!SignalSpec` | queue of two, three candidates, two terminals | signals are applied in order, none is lost silently up to the first terminal, the drain loop ends, a channel that is announced before it closes ends the wait of its task |
| `accept_queue` | `AcceptQueue!Spec` | two acceptors, three calls, three connections, queue of one | connections in order and once, none swallowed by a dropped call, none waits beside a waiting call, no call of a closed node waits |
| `stream_io` | `StreamIo!StreamSpec` | two dials, three endpoints, two calls, chunks of two parts | usable endpoint, whole chunks, nothing after the end, calls end with the node |
| `native_facade` | `NativeFacade!FairSpec` | two nodes, a dial of any intent and one over the relay, closes of both | no session survives a close, no promotion after it, one open connection per dial and none of a failed one, dials and accepts end |
| `chat_room` | `ChatRoom!ChatSpec` | three commands, one peer with three packets, a filter of two | joined rooms can send, the list follows the links, packets are shown once, the profile follows the room, left rooms are released |

Three runs end in a counterexample; each states a sentence of the repository.

| run | sentence | counterexample |
|---|---|---|
| `preferred_dial_fallback` | README.md:117 of the crate: preferred dials fall back to the relay "if WebRTC cannot be promoted" | the data channel opens, the dial is taken as a WebRTC dial, its connect fails, and the caller gets that failure (`direct/dial.rs:446`) |
| `dial_in_flight_at_close` | tests.rs:381 "in_flight_and_future_dials_reject_after_close" | a dial waits with its entry in `pending_dials`, the node is closed, and every handler that could answer the dial returns at once (`direct.rs:196`). Prepares are left out. The run assumes fairness of all tasks |
| `second_dial_restarts` | addr.rs:43: several simultaneous peer connections; tests.rs:351 | the second dial closes the endpoint the first connection runs on (`node/core.rs:488`) |

Where a type invariant is proved (section 6) the run of its module does not check it
again; `direct_runtime` still does.

### Bounds, and why they are enough

 * `browser_node`: the node's methods touch one session each, or all alike
   (close), so two sessions show every influence of one on another; a connection
   is tied to one session. The theorems of section 6 have no bound.
 * `direct_runtime`: a dial's tasks and entries are keyed by its session, so one
   key has all their interleavings; two keys exceed 22 million states. Two
   connections leave room for the duplicate `OneConnectionPerSession` excludes.
   What two dials do to each other is in `EndpointLifecycle`, `StreamIo` and
   `NativeFacade`.
 * `packet_receive`: frames of one datagram and of two or three, with and without
   a short last one, beside five messages that are dropped; buffers smaller than,
   equal to and larger than a segment and a frame; four frames refill a queue of
   two after it was full and drained.
 * `outbound_path`: capacity two, thresholds 1 and 3 and packets of 1 and 3, so
   that packets wait for capacity, exceed the gap between the thresholds, and six
   of them fill and drain buffer and queue several times. One sender:
   the route stores one waker, and the comment of `SenderIsAnswered` says so.
 * `signal_path`: more candidates than the queue holds, so they are refused and one is
   dropped for the end marker; two terminals, so that one comes before and one after
   the writer has stopped. The one channel may close before it is announced, in the
   queue and with the waiter.
 * `accept_queue`: a queue of one is full after one connection; with three calls
   a dropped one can lie before, between and after live ones.
 * `stream_io`: two restarts overlap with two dials; each may bind an endpoint
   beside the first; two calls are a holder of the mutex and a waiter; two parts
   are a chunk that can be half written. `second_dial_restarts` has three dials
   and four endpoints.
 * `native_facade`: the queue has one slot and two connections come to it; the
   first dial goes through every path of its intent, and may open both its
   connections: the WebRTC one may be queued or with the application when the dialer
   finds it on another path. Which other path is not told apart, so one WebRTC dial is
   enough for that. The second dial, over the relay, competes for the queue only; two
   WebRTC dials exceed what TLC finishes, and the
   theorems have no such bound.
 * `chat_room`: with three commands a Leave and a Join overlap a Join that waits, or a
   reload comes between. `AboutMe`, `Leave` and `Chat` of one peer overflow a filter of two
   in every order. Besides the save of a change another may be under way
   (`MaxSaves`), which is enough for two to race; what is stored after a race is left
   out of `ProfileFollowsRoom`, which is about saves that are missing or dropped.

`CHECK_DEADLOCK FALSE` stands where the system may stop: a closed node, a dial that
was answered, a stream whose calls are used up. `packet_receive` never stops,
since a reader polls a closed hub again.

### Fairness, and why the code justifies it

 * `DirectRuntime`: tasks that are ready are run by the page, and a connect
   succeeds or fails because Iroh gives a handshake up. No event of the peer, of
   the network or of the browser's WebRTC stack is fair, nor is the drop of a
   future.
 * `PacketReceive`: a poll that began runs to its end (weak); Iroh polls a
   receiver it was woken for, and again and again with a first buffer that holds
   a segment (strong, over `Ample`), since small buffers may come in between.
   Arrivals and the close are not fair.
 * `PathSpec`: the pump and a woken sender are tasks (weak); an open channel
   transmits what it buffered and a closing channel closes, as the WebRTC
   specification says. That the channel opens is not assumed, and
   `SenderIsAnswered` leaves that case out.
 * `SignalSpec`: the drain loop, the attach task and the writer are tasks; a receiver loop
   reads what is there or gives up, as every read has a time-out. Neither gathering
   nor the announcement nor a decision is fair.
 * `ChatSpec`: a task that broadcasts returns, and `subscribe` returns or fails. The
   user, the links, the peers and the saves are not fair.
 * `StreamSpec`: tasks of the page only; that a connection ever writes, reads or
   fails is not assumed, so calls end with the node by the `Notify` alone.
 * `NativeFacade`: the tasks of both nodes run; bootstrap operations have
   time-outs, so a dial that waits goes on or fails; gathering of an open peer
   connection ends. The gate and the application's accepts are not fair.

## 5. Observations

Met while modelling, with no promise of the repository to hold them against:

 * A receiver loop that ends leaves its dial in `pending_dials`
   (`direct/bootstrap.rs:133`). Without an event of the data channel nothing
   decides it, and it waits until the application drops it.
 * The native pump may wait on a closed channel for ever: `notify_waiters` reaches
   only who waits already (`native.rs:490`). No sender depends on it, as the route
   is gone. The browser's pump always ends.
 * Two overlapping restarts both install their endpoint and the first is
   overwritten without a close (`node/core.rs:319`); both then poll the one
   receive queue, which stores one waker.
 * A dial whose bootstrap stream fails to open leaves its session in the node,
   announced (`direct/dial.rs:83`).
 * A data channel that has closed when the browser announces it is dropped without a
   word (`browser/registry.rs:79`): the task that waits for it goes on waiting, and the
   session goes on awaiting a channel. One that closed in the queue ends the task
   (`browser/registry.rs:204`) and its session is not told either.
 * A Terminal of the peer ends the session of an acceptor and nothing else: its
   registry entry, the task that waits for the channel and the drain loop go on
   (`direct/bootstrap.rs:295`).
 * The gate of a native node compares a connection with the first of its routes of
   that remote and ALPN (`facade/native.rs:492`), and routes are never pruned. A second
   WebRTC dial of one pair is refused there, although a session id is to
   disambiguate "multiple simultaneous WebRTC peer connections" (`core/addr.rs:43`).
 * `advertise_local_addr` (`transport.rs:110`) reads the addresses and sets them
   again without a lock; of two native threads that do so (`facade/native.rs:341` and
   `:439`) one may lose its address.
 * The restart that a WebRTC application dial brings shuts the old router down, and
   `ChatGossipProtocol::gossip` keeps the instance it spawned on the first endpoint
   (`chat/protocol.rs:585`): gossip does not outlive the first application dial.

Of the chat room:

 * Two Joins that overlap both subscribe, which the comment at `chat/protocol.rs:268`
   wants to avoid. The list may then keep participants of the one that was
   overwritten; `RoomListsNeighbours` leaves this case out.
 * A Leave while `subscribe` is awaited removes nothing. The subscription then comes
   up without keys, and a later Join uses it as its own and lists none of the
   neighbours it reported.
 * A Join with a peer that does not parse leaves the keys behind and its room in
   "Joining".
 * The jittered answer to a Sync holds a clone of the sender through its sleep: after a
   Leave the subscription lives until it wakes, and it still announces its user. The
   comment at `chat/protocol.rs:558` counts on the Leave broadcast alone. A Sync that
   comes between its broadcast and the reset of its flag is not answered.
 * A receiver that ends with an error leaves its entries in the maps, so another Join
   finds the topic subscribed and stays deaf.
 * `left_signers` is "cleared when the same signer rejoins" (`chat/state.rs:42`), which
   the page learns of by a new link only. A peer that rejoins over a link that stayed
   up is not listed.
 * Two saves of the profile may land in either order, so a reload may bring back a
   room its user left (`chat/components/chat_room.rs:98`); `ProfileFollowsRoom` holds
   where no two contradictory saves raced.

## 6. Proofs

Eight modules of proofs, each beside the modules it is about: `StreamIoProofs` has those
of `EndpointLifecycle` too, on which `StreamIo` stands, and `HubQueueProofs` those of both
queues of the hub. They hold for every value of the constants, that is for any number of
dials, calls, connections, senders, nodes, frames, candidates or packets, any capacity
and any threshold.

| module | theorem | states |
|---|---|---|
| `BrowserNodeProofs` | `TypeCorrect` | `Spec => []TypeOK` |
| | `WebRtcOnlyStaysOffTheRelay` | `Spec => []WebRtcOnlyNeverRelays` |
| | `UsableSessionsStayAdvertised` | `Spec => []UsableSessionsAdvertised` |
| | `WebRtcConnectionsHadChannel` | `Spec => []WebRtcConnectionHadChannel` |
| | `EndedChannelStaysEnded` | `Spec => ChannelNeverRevives` |
| | `EndedWebRtcOnlyStaysEnded` | `Spec => WebRtcOnlyEndIsFinal` |
| `DirectRuntimeProofs` | `RuntimeImplementsNode` | `Spec` implies the specification of `BrowserNode` |
| | `NodeGuaranteesHold` | so the invariants of `BrowserNode` hold of the runtime |
| | `RuntimeTypeCorrect` | `Spec => []TypeOK` |
| | `DecidedDialsNeverLinger` | `Spec => []DecidedDialsLeaveTheMap` |
| | `SessionsConnectOnce` | `Spec => []OneConnectionPerSession` |
| | `EntriesEndWithTheirDial` | `Spec => []NoEntryOutlivesItsDial` |
| | `WebRtcOnlyConnectsHaveSessions` | `Spec => []WebRtcOnlyConnectHasSession` |
| | `DialPromiseIsKept` | `Spec => KeepsDialPromise`, the refinement of `DialPromise` |
| | `FirstDecisionsReachPeers` | `Spec => FirstDecisionReachesPeer` |
| `StreamIoProofs` | `InstalledEndpointStaysUsable` | `Spec => []InstalledEndpointIsUsable` |
| | `NothingIsWrittenAfterEnd` | `StreamSpec => []NothingFollowsEnd` |
| | `AcceptedChunksAreWhole` | `StreamSpec => []AcceptedChunksStayWhole` |
| `AcceptQueueProofs` | `AcceptTypeCorrect` | `Spec => []TypeOK` |
| | `NobodyEverWaitsInVain` | `Spec => []NobodyWaitsInVain` |
| | `ConnectionsAreHandedOutInOrder` | `Spec => []HandedOutInOrder` |
| `HubQueueProofs` | `ReceiveTypeCorrect` | `Spec => []TypeOK` |
| | `NoWakeupIsLost` | `Spec => []NoLostWakeup` |
| | `DatagramsComeInOrder` | `Spec => DeliversInOrder`, the refinement of `DatagramFifo` |
| | `SignalsAreAppliedInOrder` | `SignalSpec => []AppliedInOrder` |
| `NativePumpProofs` | `PathTypeCorrect` | `PathSpec => []TypeOK` |
| | `NothingIsLostOrOvertaken` | `PathSpec => []NothingLostOrOvertaken` |
| | `BufferStaysBounded` | `PathSpec => []BufferBounded` |
| | `RouteEndsWithPump` | `PathSpec => []RouteDiesWithPump` |
| `NativeFacadeProofs` | `NativeTypeCorrect` | `Spec => []TypeOK` |
| | `ClosedNodesHaveNoSession` | `Spec => []ClosedNodeHasNoSession` |
| | `OneConnectionIsLive` | `Spec => []OneLiveConnectionPerDial` |
| | `ClosedNodesPromoteNothing` | `Spec => ClosedNodePromotesNothing` |
| `ChatRoomProofs` | `PacketsAreShownOnce` | `ChatSpec => []ShownOnce` |
| | `JoinedRoomsCanSend` | `ChatSpec => []JoinedRoomCanSend` |
| | `RoomsListTheirNeighbours` | `ChatSpec => []RoomListsNeighbours` |
| | `ProfilesFollowTheirRoom` | `ChatSpec => []ProfileFollowsRoom` |

They assume what the modules assume of their constants, and nothing else:
`NodeAssumption` and `RuntimeAssumption` (no key is "None", the intents are intents,
the bound is a natural number), `EndpointAssumption` and `StreamAssumption` (bounds are
positive, the stream belongs to a dial), `AcceptAssumption`, `ReceiveAssumption`,
`IceAssumption`, `SignalAssumption`, `OutboundAssumption`, `NativeAssumption`,
`IntentAssumption` and `ChatAssumption` (capacities, sizes, bounds and thresholds are
numbers, a dial has two nodes and intents). TLC evaluates them in the
runs.

Hardly any of these invariants is inductive as it stands. What each `IInv` adds, and why:

 * `BrowserNode`. A WebRTC-only session could be revived, or a connection admitted,
   from a state in which a session has ended and its channel has not. So each session
   is `Sound` (a WebRTC intent has a channel; a WebRTC session that ended has an ended
   channel; a WebRTC-only session is not resolved to the relay), and each connection
   `ConnectionBacked` by a session that exists, has its transport and, for WebRTC, had an
   open channel. The terminal operations leave the announced set stale, which is
   harmless because what they leave is not `Advertisable` (`TerminalReasonProgress`).
   For each operator of `SessionState` a lemma shows `Progress(s, t)`: sound, same role
   and intent, nothing that ended is alive again. `SessionsProgress` lifts this to the
   node with a step per action.
 * `DirectRuntime`. First the node: each action is one of `BrowserNode` or leaves it alone
   (`RuntimeImplementsNode`), which carries the theorems over. Then each key by
   itself: `KeyInv(k)` ties a dial's future, its entries, its tasks and its session
   together (`DialInv`, `RtcInv`, `UndecidedInv`, `ConnectionInv`, `PrepareInv`); for
   instance, an entry in the map means that its session has decided nothing and that no
   connect task runs for it. Every step is of one key, and leaves the others the `Same`, or
   is the close. Handlers share one shape (`HandlerStep`, then `Completion`), so there
   is one lemma for what happens to an entry whichever handler takes it.
   `KeepsPromise` per key gives the refinement: a step maps to an action of
   `DialPromise` or changes nothing it sees. That the peer hears the first decision
   rests on one invariant more, `TellInv(k)`: the peer was told
   nothing of a session that sent no terminal, and a channel is set up for sessions with a
   WebRTC intent only.
 * `EndpointLifecycle`. An endpoint could be closed under the node by a task the close
   spawned, or by a restart that holds an endpoint not bound yet and bound later:
   `ClosingNodeIsClosed` and `OldEndpointsWereBound` exclude both.
 * `StreamIo`. A call that writes has the mutex (`IoHasLock`), the oldest that wants it has
   it, and calls queue in the order they were made (`StartedInOrder`); so what is on the
   wire is of calls no older one waits behind (`WrittenInTurn`) and the parts of the chunk in
   work are the last on it (`PartsAtEnd`). A send that goes on in an open node found the
   flag unset (`WritesBeforeEnd`), and the end sets it (`EndIsFlagged`). Every step is one of
   four effects on calls and wire.
 * `AcceptQueue`. The order of what was handed out needs that of the queue
   (`QueueInOrder`), and that a connection never overtakes the queue, which is
   `NobodyWaitsInVain`: the two are proved together. That none is swallowed
   (`NoneIsSwallowed`) is inductive by itself.
 * `PacketReceive`. The offset of a kept frame lies within it because frames are not
   empty (`FramesOK`); the wake-up is then inductive by itself. The refinement of
   `DatagramFifo` needs that a kept frame goes on where one of its segments starts
   (`DeliveryInv`): then a segment is the head of what is left (`FirstSegment`), whatever
   is kept is its tail, and each step accepts, delivers or changes nothing of the
   queue. The queue is the `FlattenSeq` of the frames', a recursive function of the
   community modules; that it exists, and what it makes of an appended, a first or no
   frame (`FlattenAppend`, `FlattenHead`, `FlattenEmpty`), comes from the least number at
   which it would fail, since a proof by induction is out of reach here.
 * `SignalPath`. What is signalled is in order (`SignalledInOrder`) because candidates are
   queued in the order they were gathered (`QueuedInOrder`), everything signalled is older
   than what is queued while the drain loop goes on (`DrainGoesOn`), the loop starts only
   after the answer was handed over (`AnswerIsFirst`), and the writer ends with
   a terminal (`TerminalIsLast`). The dialer applies a part of what was written, as it came.
 * `ChatRoom`. The filter holds the newest packets it let through, as many as it may, so
   that one it lets through again lies more than its size back (`Keeps`, `FilterOK`). A
   room that says it is joined has a sender and keys because its state goes with the maps
   (`RoomHasKeys`, `NoReceiverWithoutTopic`); the list follows the links because, without
   an overlap, a Join waits alone and for a topic the maps do not have (`JoinsAlone`). For
   the profile, every save under way is of what the page shows unless saves raced
   (`SavesAgree`).
 * `NativePump`. A step does one of six things to the packets (rests, accepts, stops,
   takes, passes on, sends). `Numbered` says where the n-th accepted packet is, by index;
   `PumpServesRoute`, `Roomy` and `HeldOK` say what the pump's place means for the route,
   for the buffer and for the packet it holds. Both pumps, and the sender, fit the
   same six lemmas.
 * `NativeFacade`. A session that is up is tracked, or in the hands of the close
   (`SessionsAreKept`); a close empties what it took and nothing refills it
   (`CloseEmpties`). Two connections of a dial are never open together because an open
   one is held by its dial (`OpenIsHeld`): the WebRTC connection until the dialer gave it
   up and closed it, the relay's only once the dial returned it.

Only model-checked: liveness (it rests on fairness), which TLAPS does not prove. These are
the temporal properties that are left of the runs; the three sentences of the
repository that do not hold have a counterexample each.

## 7. Not modelled

 * Contents of offers, answers and candidates, bytes of frames and signals, the
   encoder, custom addresses: codecs and data that are passed on unread.
 * Timers as numbers: a time-out is a failure that may come at any step.
 * Statistics of the hub, tracing, JavaScript conversions, configuration.
 * The relay endpoint of a browser node, which is bound once and closed with it.
 * The selected path of an incoming browser connection and `after_handshake`, which
   only compare what Iroh selected; planned with `DialPair`.
 * Of the chat room: identity and passphrase, backups, cryptography and rendering; names,
   texts and the list of known peers, of which only the saves they cause are kept; a page
   that comes back from the browser's cache after it was hidden.
 * Benchmarks and the ping-pong page: they call the facade in sequence and share no
   state with the dials.
