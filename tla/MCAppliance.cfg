SPECIFICATION FairSpec
CONSTANTS
  Fields = {"t_power"}
  Values = {0, 1}
  Limit = 1
  MaxWrites = 2
  Unknown = Unknown
INVARIANTS
  TypeOK
  WrongOnlyForAReason
PROPERTIES
  FollowsUntilLost
  StoreConverges
