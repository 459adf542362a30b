\* Users' changes cross SET MLOCK, CLEAR MODES and the timer of the limits.
SPECIFICATION MCSpec
CONSTANTS
  Simple <- MCSimple
  Weight <- MCWeight
  Members = {u1}
  Args = {9}
  Locks <- MCLocks
  Policies <- MCPolicies
  Room = 15
  Slack = 5
  UserLetters <- MCUserLetters
  StartModes <- MCStartModes
  MaxChanges = 5
  MaxQueue = 3
  NoLock = NoLock
  Texts = {"t1", "t2"}
  Dash = "-"
  NoTopic = "empty"
  MaxWire = 3
  MaxEvents = 9
  MaxPara = 4
  MaxWords = 4
  MaxObjects = 2
  Speakers = {"u1", "u2"}
  Channels = {"c1", "c2"}
  Host <- MCHost
  Messages = {1, 2}
  Tor = {"u2"}
  Everyone = "all"
  FS_MSG_COUNT = 2
  FS_MSG_TIME = 0
  FS_GMSG_COUNT = 3
  FS_GMSG_TIME = 0
  FS_GC_EXPIRE_TIME = 1
  MaxSaid = 4
  MaxTime = 1
INVARIANTS
  
  TopicHolds
  FloodsAreStopped
  LinesReachHandlers
CHECK_DEADLOCK FALSE
