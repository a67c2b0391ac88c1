CONSTANTS
  Signed <- MCSigned
  ReplayCap = 2
  MaxCommands = 3
  MaxSaves = 1
SPECIFICATION ChatSpec
INVARIANTS
  ShownOnce
  JoinedRoomCanSend
  RoomListsNeighbours
  ProfileFollowsRoom
PROPERTY LeftRoomIsReleased
CHECK_DEADLOCK FALSE
