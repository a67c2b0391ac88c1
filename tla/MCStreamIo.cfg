CONSTANTS
  d1 = d1
  d2 = d2
  Dials <- TwoDials
  MaxEndpoints = 3
  StreamDial = d1
  MaxCalls = 2
  MaxParts = 2
SPECIFICATION StreamSpec
INVARIANTS
  InstalledEndpointIsUsable
  AcceptedChunksStayWhole
  NothingFollowsEnd
PROPERTY StreamCallsEndWithNode
CHECK_DEADLOCK FALSE
