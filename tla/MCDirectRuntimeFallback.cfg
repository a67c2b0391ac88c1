CONSTANTS
  k1 = k1
  Keys <- OneKey
  DialIntents = {"WebRtcPreferred"}
  AcceptIntents = {}
  MaxConnections = 1
SPECIFICATION Spec
INVARIANT PreferredDialFallsBack
CHECK_DEADLOCK FALSE
