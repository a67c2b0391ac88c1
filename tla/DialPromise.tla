------------------------------ MODULE DialPromise ------------------------------
(***************************************************************************)
(* What the browser runtime promises the application of its dials: one     *)
(* answer at most, and a connection exactly where the answer says so.  A   *)
(* dial the application dropped may still be connected, by a task the drop *)
(* does not reach; the connection is then the node's.                      *)
(***************************************************************************)
CONSTANT Keys

VARIABLES dial,       \* key -> "Idle", "Waiting", "Dropped" or the answer
          connected   \* keys of the dials a connection was admitted for

promiseVars == <<dial, connected>>

Errors == {"RelayFailed", "WebRtcDialFailed", "Failed", "Closed"}

Init ==
  /\ dial = [k \in Keys |-> "Idle"]
  /\ connected = {}

Start(k) ==
  /\ dial[k] = "Idle"
  /\ dial' = [dial EXCEPT ![k] = "Waiting"]
  /\ UNCHANGED connected

Connect(k) ==
  /\ dial[k] = "Waiting"
  /\ dial' = [dial EXCEPT ![k] = "Connected"]
  /\ connected' = connected \cup {k}

Reject(k, error) ==
  /\ dial[k] = "Waiting"
  /\ dial' = [dial EXCEPT ![k] = error]
  /\ UNCHANGED connected

Drop(k) ==
  /\ dial[k] = "Waiting"
  /\ dial' = [dial EXCEPT ![k] = "Dropped"]
  /\ UNCHANGED connected

ConnectDropped(k) ==
  /\ dial[k] = "Dropped" /\ k \notin connected
  /\ connected' = connected \cup {k}
  /\ UNCHANGED dial

Next ==
  \E k \in Keys :
    \/ Start(k) \/ Connect(k) \/ Drop(k) \/ ConnectDropped(k)
    \/ \E error \in Errors : Reject(k, error)

Spec == Init /\ [][Next]_promiseVars
=============================================================================
