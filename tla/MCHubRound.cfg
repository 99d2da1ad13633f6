SPECIFICATION Spec
CONSTANTS
  c1 = c1
  c2 = c2
  s1 = s1
  s2 = s2
  Conn = {c1, c2}
  Session = {s1, s2}
  SessionsOf <- MCTwoSessions
  RawName <- MCOneRawName
  Name <- MCName
  displayName <- MCOneDisplayName
  MaxParticipants = 2
  MinTimerDuration = 1
  MaxTimerDuration = 2
  DefaultTimerDuration = 1
  KindsOf <- MCRoundKinds
  MaxRequests <- MCThreeAndTwo
  VoteInput = {"5"}
  RoleInput = {"voter", "observer"}
  StatusInput = {}
  DurationInput = {}
  SendBufferSize = 1
  RoomExpiry = 5
  MaxRooms = 1
  MaxTime = 1
CHECK_DEADLOCK FALSE
INVARIANTS VotesStaySecret
PROPERTIES HubImplementsRoom
ACTION_CONSTRAINT ConnectionsStay
