\* A socket buffer smaller than two lines; reads cut lines anywhere.
SPECIFICATION MCSpec
CONSTANTS
  Script <- MCScript
  UnitsPerLine = 4
  ReadBuf = 3
  SockRoom = 6
  Limit = 3
  LimitUnknown = 5
  UplinkNamed = TRUE
  MaxLines = 4
  Queries = {q1, q2}
  Ids = {0, 1, 2, 3}
  FirstTimeout = 1
  Users = {"u1", "u2"}
  Servers = {"s1", "s2"}
  Names = {"n1", "n2", "long"}
  LongNames = {"long"}
  Hub = "hub"
  Me = "services"
  Nowhere = "nowhere"
  MaxWire = 2
  MaxEvents = 7
INVARIANTS
  AnswersAreOwn
  LinesAsSent
  ViewAgrees
PROPERTIES
  StreamKept
  LinkRecovers
CHECK_DEADLOCK FALSE
