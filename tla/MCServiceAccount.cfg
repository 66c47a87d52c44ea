SPECIFICATION FairSpec
CONSTANTS
  Reader = Reader
  Admin = Admin
  Roles <- MCRoles
  Unset = Unset
  UserRole = Admin
  Configs <- MCConfigs
  MaxTTL = 2
  MaxKeys = 3
  MaxTime = 1
  MaxEvents = 2
INVARIANTS
  TypeOK
  HeldKeyIsNamed
  ExpirationDescribesKey
  RoleOfHeldKey
  IssuedKeysAccountedFor
PROPERTIES
  LiveKeyNotForgotten
  ApplyKnowsItsKey
  ApplyEnds
CHECK_DEADLOCK FALSE
