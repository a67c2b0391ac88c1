CONSTANTS
  s1 = s1
  Senders <- MCSenders
  OutboundCapacity = 2
  Sizes <- MCSizes
  LowThreshold = 1
  HighThreshold = 3
  MaxPackets = 6
SPECIFICATION PathSpec
INVARIANTS
  NothingLostOrOvertaken
  BufferBounded
  RouteDiesWithPump
PROPERTY SenderIsAnswered
CHECK_DEADLOCK FALSE
