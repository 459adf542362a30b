SPECIFICATION Spec
CONSTANTS
  Users = {"u1", "u2", "g"}
  Gods = {"g"}
  Members = {"u1"}
  Guises <- MCGuises
  Masks = {"m1", "m2"}
  Hits <- MCHits
  UserMask <- MCUserMask
  Accounts = {"a"}
  NickMasks <- MCNickMasks
  PrimaryMask <- MCPrimaryMask
  Kinds = {"q"}
  MaxRows = 2
 
PROPERTY BansExpire
