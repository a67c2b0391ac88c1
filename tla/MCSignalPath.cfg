CONSTANTS
  Capacity = 2
  MaxCandidates = 3
  MaxTerminals = 2
SPECIFICATION SignalSpec
INVARIANT AppliedInOrder
PROPERTIES
  HandedIsHeard
  DrainEnds
  AnnouncedChannelIsTaken
CHECK_DEADLOCK FALSE
