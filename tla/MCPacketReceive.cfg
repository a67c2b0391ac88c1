CONSTANTS
  RecvCapacity = 2
  MaxFrames = 4
  Messages <- MCMessages
  MaxPayloadLen = 3
  BufferShapes <- TightBuffers
SPECIFICATION FairSpec
INVARIANTS
  NoLostWakeup
PROPERTIES
  DeliversInOrder
  EverythingIsDelivered
