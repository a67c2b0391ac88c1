CONSTANTS
  k1 = k1
  k2 = k2
  Keys <- MCKeys
  DialIntents <- MCDialIntents
  MaxConnections <- MCMaxConnections
SPECIFICATION Spec
SYMMETRY MCSymmetry
INVARIANTS
  WebRtcOnlyNeverRelays
  UsableSessionsAdvertised
  WebRtcConnectionHadChannel
PROPERTIES
  ChannelNeverRevives
  WebRtcOnlyEndIsFinal
CHECK_DEADLOCK FALSE
