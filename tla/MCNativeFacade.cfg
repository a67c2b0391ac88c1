CONSTANTS
  a = a
  b = b
  d1 = d1
  d2 = d2
  Nodes <- MCNodes
  Dials <- MCDials
  Dialer <- FromA
  Acceptor <- ToB
  QueueCapacity = 1
  DialIntents <- AnyAndRelay
  Closers <- MCNodes
SPECIFICATION FairSpec
INVARIANTS
  ClosedNodeHasNoSession
  OneLiveConnectionPerDial
PROPERTIES
  ClosedNodePromotesNothing
  DialEnds
  AcceptEndsWithNode
CHECK_DEADLOCK FALSE
