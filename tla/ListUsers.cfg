SPECIFICATION WalkSpec
CONSTANTS
  u1 = u1  u2 = u2  u3 = u3  u4 = u4
  Users = {u1, u2, u3, u4}
  Registered <- MCRegistered
  Limits <- MCLimits
  Filters <- MCFilters
  DefaultListLimit = 2
  MaxListLimit = 3
  MaxTime = 4
CHECK_DEADLOCK FALSE
INVARIANTS WalkTypeOK NobodySkipped NobodyTwice TotalIsReached
PROPERTY TotalCoversPage
