SPECIFICATION FairSpec
CONSTANTS
  b1 = b1
  b2 = b2
  f1 = f1
  f2 = f2
  fUser = fUser
  Bugs = {b1}
  UserWork = UserWork
  FileOf <- MCFileOf
  MaxSpend = 2
  HealCalls = 2
  Cooldown = 2
  Modes <- MCOneBug
  Starts = {"main", "own", "detached"}
PROPERTIES
  PassEnds
  UnfixedIsRetried
