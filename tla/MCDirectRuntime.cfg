CONSTANTS
  k1 = k1
  Keys <- OneKey
  DialIntents = {"IrohRelay", "WebRtcPreferred", "WebRtcOnly"}
  AcceptIntents = {"IrohRelay", "WebRtcPreferred", "WebRtcOnly"}
  MaxConnections = 2
SPECIFICATION FairSpec
INVARIANTS
  TypeOK
  DecidedDialsLeaveTheMap
  OneConnectionPerSession
  NoEntryOutlivesItsDial
  WebRtcOnlyConnectHasSession
PROPERTIES
  KeepsDialPromise
  FirstDecisionReachesPeer
  TakenDialIsAnswered
CHECK_DEADLOCK FALSE
