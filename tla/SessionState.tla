----------------------------- MODULE SessionState -----------------------------
(***************************************************************************)
(* The record the browser runtime keeps for one WebRTC dial, on either     *)
(* side, and the operations of BrowserSessionState on it                   *)
(* (browser_runtime/node/session_state.rs).  Every operation is a function *)
(* from a session to a session; the guard of an operation that the code    *)
(* may refuse is an operator of its own (Can...).  Ids, endpoint, ALPN and *)
(* generation are left to the key the session is stored under.             *)
(***************************************************************************)

Intents    == {"IrohRelay", "WebRtcPreferred", "WebRtcOnly"}
Transports == {"WebRtc", "IrohRelay"}
Roles      == {"Dialer", "Acceptor"}
Channels   == {"NotRequired", "AwaitingTransfer", "Transferred", "Open",
               "Failed", "Closed"}
Lifecycles == {"WebRtcNegotiating", "RelaySelected", "ApplicationReady",
               "Failed", "Closed"}
Reasons    == {"FallbackSelected", "WebRtcFailed", "Cancelled", "Closed"}

Session == [role      : Roles,
            intent    : Intents,
            resolved  : Transports \cup {"None"},
            channel   : Channels,
            lifecycle : Lifecycles,
            sent      : Reasons \cup {"None"},
            received  : Reasons \cup {"None"}]

(* The value under a key nothing is stored under. *)
NoSession == [role |-> "NoRole", intent |-> "IrohRelay", resolved |-> "None",
              channel |-> "NotRequired", lifecycle |-> "Closed",
              sent |-> "None", received |-> "None"]

UsesWebRtc(intent)          == intent \in {"WebRtcPreferred", "WebRtcOnly"}
AllowsRelayFallback(intent) == intent = "WebRtcPreferred"

NewSession(role, intent) ==
  [role      |-> role,
   intent    |-> intent,
   resolved  |-> "None",
   channel   |-> IF UsesWebRtc(intent) THEN "AwaitingTransfer" ELSE "NotRequired",
   lifecycle |-> IF UsesWebRtc(intent) THEN "WebRtcNegotiating" ELSE "RelaySelected",
   sent      |-> "None",
   received  |-> "None"]

CanAttachTransferredChannel(s) == s.channel = "AwaitingTransfer"
AttachTransferredChannel(s)    == [s EXCEPT !.channel = "Transferred"]

(* Mutant: an open event is taken whatever became of the channel. *)
MarkOpenUnguarded(s) == s.channel # "Open"

CanMarkTransferredChannelOpen(s) == s.channel = "Transferred"
MarkTransferredChannelOpen(s)    == [s EXCEPT !.channel = "Open"]

(* fail() and close(): a session that needs no channel keeps NotRequired. *)
EndAs(s, end) ==
  [s EXCEPT !.lifecycle = end,
            !.channel = IF @ = "NotRequired" THEN "NotRequired" ELSE end]
Fail(s)         == EndAs(s, "Failed")
CloseSession(s) == EndAs(s, "Closed")

(* Mutants: the intent, or the state of the channel, is not asked for. *)
ResolutionIgnoresIntent(s, transport) ==
  transport = "WebRtc" => s.channel = "Open"
ResolutionIgnoresChannel(s, transport) ==
  /\ ~ (transport = "WebRtc" /\ s.intent = "IrohRelay")
  /\ ~ (transport = "IrohRelay" /\ s.intent = "WebRtcOnly")

(* validate_transport_resolution: neither the lifecycle nor an earlier
   resolution is looked at. *)
ValidResolution(s, transport) ==
  /\ ~ (transport = "WebRtc" /\ s.intent = "IrohRelay")
  /\ ~ (transport = "IrohRelay" /\ s.intent = "WebRtcOnly")
  /\ transport = "WebRtc" => s.channel = "Open"

ResolveTransport(s, transport) ==
  [s EXCEPT !.resolved = transport, !.lifecycle = "ApplicationReady"]

CanCompleteDial(s, transport) ==
  s.role = "Dialer" /\ ValidResolution(s, transport)

SelectRelay(s) ==
  [s EXCEPT !.resolved = "IrohRelay", !.lifecycle = "RelaySelected",
            !.channel = "Failed"]

(* Mutant: a fallback of the peer is followed whatever the intent says. *)
FallbackFollowedBlindly(s, reason) ==
  IF reason \in {"Cancelled", "Closed"} THEN CloseSession(s)
  ELSE IF reason = "FallbackSelected" THEN SelectRelay(s) ELSE Fail(s)

ApplyTerminalReason(s, reason) ==
  IF reason \in {"Cancelled", "Closed"} THEN CloseSession(s)
  ELSE IF reason = "FallbackSelected" /\ AllowsRelayFallback(s.intent)
       THEN SelectRelay(s)
       ELSE Fail(s)

RecordTerminalReceived(s, reason) ==
  ApplyTerminalReason([s EXCEPT !.received = reason], reason)

RecordTerminalSent(s, reason) ==
  ApplyTerminalReason([s EXCEPT !.sent = reason], reason)

(* close_for_node signals Closed only where no terminal was sent before. *)
SignalsNodeClose(s) == s.sent = "None" /\ UsesWebRtc(s.intent)
CloseForNode(s) ==
  CloseSession([s EXCEPT !.sent = IF SignalsNodeClose(s) THEN "Closed" ELSE @])

(* Mutant: the lifecycle the failure leads to is reported as its reason. *)
LifecycleAsReason(s) ==
  IF AllowsRelayFallback(s.intent) THEN "FallbackSelected" ELSE "Failed"

(* The reason a failed WebRTC attempt is reported with. *)
FailureReason(s) ==
  IF AllowsRelayFallback(s.intent) THEN "FallbackSelected" ELSE "WebRtcFailed"

Ended == {"Failed", "Closed"}

(* The sessions whose custom address the transport announces. *)
Advertisable(s) ==
  UsesWebRtc(s.intent) /\ s.channel \notin Ended /\ s.lifecycle \notin Ended

(* What a dial that waits for the session does once it looks like s. *)
DialActions == {"WebRtc", "Relay", "Fail", "Closed", "None"}
PendingDialAction(s) ==
  CASE s.channel = "Open" -> "WebRtc"
    [] s.channel # "Open" /\ (s.resolved = "IrohRelay" \/ s.lifecycle = "RelaySelected")
         -> "Relay"
    [] s.channel # "Open" /\ s.resolved # "IrohRelay" /\ s.lifecycle # "RelaySelected"
         -> IF s.lifecycle = "Failed" \/ s.channel = "Failed" THEN "Fail"
            ELSE IF s.lifecycle = "Closed" \/ s.channel = "Closed" THEN "Closed"
            ELSE "None"
=============================================================================
