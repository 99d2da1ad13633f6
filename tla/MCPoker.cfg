SPECIFICATION PokerSpec
CONSTANTS
  c1 = c1
  c2 = c2
  c3 = c3
  s1 = s1
  s2 = s2
  Conn = {c1, c2, c3}
  Session = {s1, s2}
  SessionsOf <- MCSessions
  RawName <- MCRawName
  Name <- MCName
  displayName <- MCDisplayName
  MaxParticipants = 2
  MinTimerDuration = 1
  MaxTimerDuration = 2
  DefaultTimerDuration = 1
  KindsOf <- MCKinds
  MaxRequests <- MCRequests
  VoteInput = {"5", ""}
  RoleInput = {"voter", "observer"}
  StatusInput = {"idle"}
  DurationInput = {2}
  SendBufferSize = 3
  RoomExpiry = 5
  MaxRooms = 1
  MaxTime = 1
CHECK_DEADLOCK FALSE
ACTION_CONSTRAINTS OneHandlerAtATime JoinsFirst SecondStays
INVARIANTS ViewsConverge
PROPERTIES LittleIsUntold
