SPECIFICATION MCSpec
CONSTANTS
  a1 = a1
  a2 = a2
  a3 = a3
  Accounts = {a1, a2, a3}
  Groups = {g1}
  Chans = {1, 2}
  Levels = {2, 3, 4}
  Sudoers = {a3}
  DbErrors = TRUE
  MaxNicks = 2
  OneChan = {1}
  TwoLevels = {3, 4}
  Users = {"u1", "u2"}
  AkillMasks = {"m1", "m2"}
  Victims <- MCVictims
  Tokens <- MCTokens
  Minutes <- MCMinutes
  DefaultDur = 1
  FloodDur = 3
  IntSize = 8
  CheckCnt = 1
  Start = 2
  End = 5
  Sessions = {"s1", "s2"}
  Wears <- MCWears
  Nicks = {"n1", "n2", "n3"}
  Owner <- MCOwner
  People = {a1, a2}
  Staff = {a1}
  Rooms = {"#c"}
  BadNicks = {"bad"}
  BadChans = {"#bad"}
  NoAccount = NoAccount
  ListMax = 2
INVARIANTS
  MastersRemain
  ToldRightly
  CheckedAreClean
PROPERTIES
  
  EndedGo
CHECK_DEADLOCK FALSE
