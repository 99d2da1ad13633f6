SPECIFICATION Spec
CONSTANTS
  Room = {"r1", "r2"}
  UserName = {"ann", "bob"}
  Sock = {"k1", "k2"}
  MAX_QUEUE_SIZE = 2
  RECONNECT_TIMEOUT = 2
  MaxAttempts = 2
INVARIANTS LostBannerIsEarned
