\* The clock goes forward by up to two seconds, and back.  Two modules ask for kills and are unloaded;
\* no operator forbids nicknames.
SPECIFICATION MCSpec
CONSTANTS
  Events = {"kills", "a", "b"}
  Kills = "kills"
  Freq <- EventFreq
  MaxEvents = 3
  NoEvent = NoEvent
  MaxTime = 5
  MaxStep = 2
  Blocks = {b1, b2, b3}
  elemsPerBlock = 2
  Clients = {c1, c2, c3}
  Services = {s1, s2}
  Nodes = {n1, n2, n3}
  NoNode = NoNode
  Debug = FALSE
  m1 = m1
  m2 = m2
  Users = {u1, u2}
  Enforcers = {e1}
  Nicks = {m1, m2}
  Guests = {g1, g2}
  Protected = {m1}
  Account <- MCAccount
  Off = Off
  NoOne = NoOne
  OperForbids = FALSE
  MaxOut = 1
  MaxEntries = 1
  Nothing = Nothing
  MaxLoads = 9
INVARIANTS
  NothingOverdue
  BlocksAreOwn
  ListedRequestsValid
  
PROPERTIES
  LoopSettles
  KillsArrive
  KillsPromised
  
  TreeIsTable
CHECK_DEADLOCK FALSE
