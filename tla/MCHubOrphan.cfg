SPECIFICATION Spec
CONSTANTS
  c1 = c1
  c2 = c2
  s1 = s1
  s2 = s2
  Conn = {c1, c2}
  Session = {s1, s2}
  SessionsOf <- MCTwoSessions
  RawName <- MCOneRawName
  Name <- MCName
  displayName <- MCOneDisplayName
  MaxParticipants = 2
  MinTimerDuration = 1
  MaxTimerDuration = 2
  DefaultTimerDuration = 1
  KindsOf <- MCJoinKinds
  MaxRequests <- MCOneEach
  VoteInput = {}
  RoleInput = {"voter"}
  StatusInput = {}
  DurationInput = {}
  SendBufferSize = 1
  RoomExpiry = 1
  MaxRooms = 2
  MaxTime = 3
CHECK_DEADLOCK FALSE
ACTION_CONSTRAINT HandlersAreQuick
INVARIANTS RoomOfConnectedClientSurvives
