CONSTANTS
  Users = {u1}
  Sockets = {s1, s2, s3, s4, s5}
  None = None
  MaxHandlers = 1
  MaxRestart = 1
SPECIFICATION FairSpec

INVARIANTS
  OnlineIffConnected
  FriendsTold
PROPERTIES
  StaysOnline
CHECK_DEADLOCK FALSE
