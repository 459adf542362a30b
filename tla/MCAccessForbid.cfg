SPECIFICATION Spec
CONSTANTS
  Accounts = {a1, a2}
  Groups = {g1}
  Chans = {1}
  Levels = {3, 4}
  Sudoers = {}
  DbErrors = FALSE
  MaxNicks = 2
INVARIANT ChannelsHaveMaster
CHECK_DEADLOCK FALSE
