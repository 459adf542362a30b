\* SET FLOODSERV ON, in a channel in use, without failures and reloads.
SPECIFICATION Spec
CONSTANTS
  Chans = {c1}
  Users = {u1}
  Gods = {}
  None = None
  NoChan = NoChan
  DbErrors = FALSE
  Reloads = FALSE
  MaxFs = 2
  MaxEntries = 2
INVARIANTS
  FloodservWatches
CHECK_DEADLOCK FALSE
