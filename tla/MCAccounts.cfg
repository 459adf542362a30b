SPECIFICATION Spec
CONSTANTS
  s1 = s1
  s2 = s2
  n1 = n1
  n2 = n2
  n3 = n3
  fp1 = fp1
  Sessions = {s1, s2}
  Opers = {s1, s2}
  Names = {n1, n2, n3}
  Other = Other
  Certs = {fp1}
  NoCert = NoCert
  CertOf <- MCCertOf
  NoCopy = NoCopy
  MaxAccounts = 3
  MaxNickIds = 3
  StaleUnlink = FALSE
INVARIANT AccountsAreSound
CHECK_DEADLOCK FALSE
SYMMETRY Symm
