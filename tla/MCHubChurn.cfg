SPECIFICATION Spec
CONSTANTS
  c1 = c1
  c2 = c2
  s1 = s1
  s2 = s2
  Conn = {c1, c2}
  Session = {s1, s2}
  SessionsOf <- MCAnySecond
  RawName <- MCRawName
  Name <- MCName
  displayName <- MCDisplayName
  MaxParticipants = 2
  MinTimerDuration = 1
  MaxTimerDuration = 2
  DefaultTimerDuration = 1
  KindsOf <- MCChurnKinds
  MaxRequests <- MCTwoEach
  VoteInput = {}
  RoleInput = {"voter"}
  StatusInput = {"idle", "away"}
  DurationInput = {2, 3}
  SendBufferSize = 1
  RoomExpiry = 5
  MaxRooms = 1
  MaxTime = 1
CHECK_DEADLOCK FALSE
INVARIANTS TypeOK RegisteredIffJoined
PROPERTIES HubImplementsRoom OnlyTheDesertedHaunt
