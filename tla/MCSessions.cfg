\* Three attempts to reconnect stand for thirty.
SPECIFICATION MCSpec
CONSTANTS
  n1 = n1
  n2 = n2
  Users = {u1, u2}
  Enforcers = {e1}
  Nicks = {n1, n2}
  Guests = {g1, g2}
  Protected = {n1}
  Account <- MCAccount
  Off = Off
  NoOne = NoOne
  OperForbids = TRUE
  MaxOut = 1
  MaxEntries = 1
  QUERY_COUNT = 2
  MaxPrepared = 2
  MaxAttempts = 3
  Values = {"a", "b"}
  None = "none"
  Accounts = {"a", "b"}
  Chosen = {"p1"}
  Random = "random"
  Day = 1
  ExpireTime = 1
  MaxSalt = 2
  End = 3
  Saved = {"a"}
  Copied = {"x", "y"}
  Worn = {"n1", "n2", "n3"}
  Owned <- MCOwned
  Cloaks = {"c1"}
  Default = "default"
  Bare = "bare"
  Unset = "unset"
  Opers = {"s", "t"}
  Nicknames = {"n1", "n2", "n3", "n4"}
  Owner <- MCOwner
  Sessions = {"s"}
  Channels = {"c"}
  Enforced = {"a"}
  Hosts = {"h"}
  Reach <- MCReach
  Prints = {"f"}
  Fits <- MCFits
  MaxEdits = 3
SYMMETRY MCSymmetry
CHECK_DEADLOCK FALSE
INVARIANTS NamesUnique EnforcersAreReleased EnforceListValid PasswordWorks  TransactionsHold
PROPERTIES CopyIsRow KillsAsPromised
