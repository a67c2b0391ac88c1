------------------------------ MODULE SignalPath ------------------------------
(***************************************************************************)
(* What an acceptor signals to its dialer, from end to end: the answer to  *)
(* the offer, the candidates of its drain loop and its terminal decisions  *)
(* go through the unbounded channel of the signal writer                   *)
(* (browser_runtime/direct/bootstrap.rs), over the bootstrap stream        *)
(* (core/bootstrap.rs), to the receiver loop of the dialer, which applies  *)
(* them to its session and its peer connection.                            *)
(***************************************************************************)
EXTENDS PeerConnection

CONSTANT MaxTerminals   \* bound: terminal decisions of the acceptor

ASSUME SignalAssumption == MaxTerminals \in Nat

VARIABLES
  answer,     \* the offer: "None" before, "Created", "Handed", "Refused"
  nodeClosed, \* the node of the acceptor
  over,       \* a terminal of the dialer ended the session of the acceptor
  writer,     \* the writer: "Runs", "Finished" after a terminal, "Failed"
  written,    \* signals it wrote to the stream
  listener,   \* the receiver loop of the dialer: "Reads", "Finished", "Failed"
  heard       \* signals it applied

pathVars == <<answer, nodeClosed, over, writer, written, listener, heard>>
allVars  == <<iceVars, channelVars, pathVars>>

Answer   == 0                   \* the other signals are numbers of LocalIce
Terminal == MaxCandidates + 2

Terminals == Cardinality({i \in 1..Len(signalled) : signalled[i] = Terminal})

SignalInit ==
  /\ IceInit
  /\ announced = FALSE /\ channelUp = TRUE /\ incoming = FALSE /\ handed = FALSE
  /\ attach = "None"
  /\ answer = "None" /\ nodeClosed = FALSE /\ over = FALSE
  /\ writer = "Runs" /\ written = 0
  /\ listener = "Reads" /\ heard = 0

-----------------------------------------------------------------------------
(* The acceptor *)

(* The local description is set: from here on the browser gathers. *)
AnswerCreated ==
  /\ answer = "None"
  /\ answer' = "Created"
  /\ UNCHANGED <<iceVars, channelVars, nodeClosed, over, writer, written, listener, heard>>

(* The browser refuses a description: the receiver loop of the acceptor ends. *)
AnswerRefused ==
  /\ answer \in {"None", "Created"}
  /\ answer' = "Refused"
  /\ UNCHANGED <<iceVars, channelVars, nodeClosed, over, writer, written, listener, heard>>

(* Mutant: the candidates are drained before the answer is handed over. *)
AnswerHandedLate ==
  /\ answer = "Created" /\ writer = "Runs"
  /\ IF drain = "None"
     THEN drain' = "Ready" /\ UNCHANGED <<answer, signalled, attach>>
     ELSE /\ answer' = "Handed" /\ signalled' = Append(signalled, Answer)
          /\ attach' = "Asking" /\ UNCHANGED drain
  /\ UNCHANGED <<queue, closed, drainWaker, gathered, ended, announced, channelUp, incoming,
                 handed, nodeClosed, over, writer, written, listener, heard>>

(* Nothing is awaited between the answer and the two tasks that follow it; a
   writer that has ended refuses it. *)
AnswerHanded ==
  /\ answer = "Created"
  /\ IF writer = "Runs"
     THEN /\ answer' = "Handed" /\ signalled' = Append(signalled, Answer)
          /\ attach' = "Asking" /\ drain' = "Ready"
     ELSE /\ answer' = "Refused" /\ UNCHANGED <<signalled, attach, drain>>
  /\ UNCHANGED <<queue, closed, drainWaker, gathered, ended, announced, channelUp, incoming,
                 handed, nodeClosed, over, writer, written, listener, heard>>

Browser ==
  /\ answer # "None"
  /\ Gather \/ GatheringEnds
  /\ UNCHANGED <<channelVars, pathVars>>

Drain ==
  /\ \/ writer = "Runs" /\ SignalNext
     \/ writer # "Runs" /\ SignalFails
     \/ NextClosed \/ NextPending
  /\ UNCHANGED <<channelVars, pathVars>>

(* The dialer's end of the connection opens the channel, so the dialer has
   applied the answer. *)
Channel ==
  /\ heard > 0 /\ signalled[1] = Answer
  /\ ChannelAnnounced \/ ChannelCloses
  /\ UNCHANGED pathVars

(* The session fails or closes with the terminal signal it is sent, which
   matters here while a task is to attach its channel. *)
DialerGivesUp ==
  /\ attach \in {"Asking", "Waiting"} /\ ~over
  /\ over' = TRUE
  /\ UNCHANGED <<iceVars, channelVars, answer, nodeClosed, writer, written, listener, heard>>

Awaited == ~nodeClosed /\ ~over

HandTerminal ==
  IF writer = "Runs" THEN signalled' = Append(signalled, Terminal)
                     ELSE UNCHANGED signalled

(* The attached channel failed or closed.  An error and the close that follows
   it both decide. *)
Decide ==
  /\ attach = "Attached" /\ ~nodeClosed /\ Terminals < MaxTerminals
  /\ HandTerminal
  /\ ClosePeerConnection
  /\ UNCHANGED <<queue, gathered, ended, announced, handed, attach, pathVars>>

(* The close of the node tells the peer and leaves the connection alone. *)
CloseNode ==
  /\ ~nodeClosed
  /\ nodeClosed' = TRUE
  /\ HandTerminal
  /\ UNCHANGED <<queue, closed, drainWaker, gathered, ended, drain, channelVars,
                 answer, over, writer, written, listener, heard>>

-----------------------------------------------------------------------------
(* The signal writer *)

(* Mutant: the writer goes on after a terminal signal. *)
WriterGoesOn ==
  /\ writer = "Runs" /\ written < Len(signalled)
  /\ written' = written + 1
  /\ UNCHANGED <<iceVars, channelVars, answer, nodeClosed, over, writer, listener, heard>>

(* Mutant: the writer takes the end of the candidates for the end of all. *)
WriterStopsAtEnd ==
  /\ writer = "Runs" /\ written < Len(signalled)
  /\ written' = written + 1
  /\ writer' = IF signalled[written'] \in {End, Terminal} THEN "Finished" ELSE writer
  /\ UNCHANGED <<iceVars, channelVars, answer, nodeClosed, over, listener, heard>>

WriterWrites ==
  /\ writer = "Runs" /\ written < Len(signalled)
  /\ written' = written + 1
  /\ writer' = IF signalled[written'] = Terminal THEN "Finished" ELSE writer
  /\ UNCHANGED <<iceVars, channelVars, answer, nodeClosed, over, listener, heard>>

(* The stream was reset, a write timed out or the signal is too long. *)
WriterFails ==
  /\ writer = "Runs" /\ written < Len(signalled)
  /\ writer' = "Failed"
  /\ UNCHANGED <<iceVars, channelVars, answer, nodeClosed, over, written, listener, heard>>

-----------------------------------------------------------------------------
(* The receiver loop of the dialer *)

Hears(signals) ==
  /\ listener = "Reads" /\ heard < written
  /\ signalled[heard + 1] \in signals
  /\ heard' = heard + 1
  /\ UNCHANGED <<iceVars, channelVars, answer, nodeClosed, over, writer, written, listener>>

HearAnswer   == Hears({Answer})
HearIce      == Hears(1..End)
HearTerminal == Hears({Terminal})

ListenerEnds ==
  /\ listener = "Reads" /\ heard = written /\ writer # "Runs"
  /\ listener' = "Finished"
  /\ UNCHANGED <<iceVars, channelVars, answer, nodeClosed, over, writer, written, heard>>

(* A read timed out, the dialer's node or peer connection is closed, or the
   browser refused a candidate. *)
ListenerFails ==
  /\ listener = "Reads"
  /\ listener' = "Failed"
  /\ UNCHANGED <<iceVars, channelVars, answer, nodeClosed, over, writer, written, heard>>

-----------------------------------------------------------------------------

Attaching == Attach(Awaited) /\ UNCHANGED pathVars
Writer    == WriterWrites \/ WriterFails
Listener  == HearAnswer \/ HearIce \/ HearTerminal \/ ListenerEnds

SignalNextState ==
  \/ AnswerCreated \/ AnswerRefused \/ AnswerHanded
  \/ Browser \/ Channel \/ DialerGivesUp \/ Decide \/ CloseNode
  \/ Drain \/ Attaching
  \/ Writer \/ Listener \/ ListenerFails

(* All but the browser's events are tasks of the two pages; a stream that
   delivers nothing times out. *)
SignalSpec ==
  /\ SignalInit
  /\ [][SignalNextState]_allVars
  /\ WF_allVars(Drain)
  /\ WF_allVars(Attaching)
  /\ WF_allVars(Writer)
  /\ WF_allVars(Listener \/ ListenerFails)

-----------------------------------------------------------------------------

(* The dialer applies the answer first, for a candidate without it would be
   refused and end the loop; then candidates in the order they were gathered,
   then their end, and a terminal last: none of them twice, although the drain
   loop, channel events and the close of the node hand signals over
   independently (bootstrap.rs writer, receiver loop). *)
AppliedInOrder ==
  /\ heard > 0 => signalled[1] \in {Answer, Terminal}
  /\ \A i, j \in 1..heard : i < j => signalled[i] < signalled[j]

(* Up to the first terminal, what was handed to the writer is applied by the
   dialer, unless the stream or one of the two loops fails: the first terminal
   decision of the acceptor is among it. *)
HandedIsHeard ==
  \A n \in 1..(MaxCandidates + 3) :
    (n <= Len(signalled) /\ \A i \in 1..(n - 1) : signalled[i] # Terminal)
      ~> (heard >= n \/ writer = "Failed" \/ listener = "Failed")

(* However many candidates a full queue refuses, the end of gathering is not
   among what is lost: a drain loop always comes to its end. *)
DrainEnds == (drain # "None" /\ (ended \/ closed)) ~> drain \in {"Done", "Failed"}

(* A data channel that is announced before it closes ends the attach task,
   whichever of the two comes first: the task attaches it, or fails for a reason
   of its own (the channel closed in the queue, the session or the node ended).
   No task waits for ever for a channel that was queued past it (registry.rs
   ondatachannel, try_take_next_data_channel, wait_next_data_channel). *)
AnnouncedChannelIsTaken ==
  (announced /\ channelUp)
    ~> (attach = "Attached" \/ (attach = "Failed" /\ ~(channelUp /\ Awaited)))
=============================================================================
