CONSTANTS
  k1 = k1
  Keys <- OneKey
  DialIntents = {"WebRtcOnly"}
  AcceptIntents = {}
  MaxConnections = 1
SPECIFICATION FairSpec
PROPERTY InFlightDialsRejectAfterClose
CHECK_DEADLOCK FALSE
