\* Every way a channel comes and goes; queries may fail, FloodServ is reloaded.
SPECIFICATION FairSpec
CONSTANTS
  Chans = {c1}
  Users = {u1, g1}
  Gods = {g1}
  None = None
  NoChan = NoChan
  DbErrors = TRUE
  Reloads = TRUE
  MaxFs = 2
  MaxEntries = 2
INVARIANTS
  NoEmptyChannel
  
  RegistrationKept
  ExpirebansSafe
PROPERTIES
  DesertedIsDestroyed
CHECK_DEADLOCK FALSE
