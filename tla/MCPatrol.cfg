SPECIFICATION Spec
CONSTANTS
  b1 = b1
  b2 = b2
  f1 = f1
  f2 = f2
  fUser = fUser
  Bugs = {b1, b2}
  UserWork = UserWork
  FileOf <- MCFileOf
  MaxSpend = 2
  HealCalls = 1
  Cooldown = 1
  Modes <- MCModes
  Starts = {"own", "detached"}
SYMMETRY MCSymmetry
INVARIANTS
  CapsHold
  SavedWhileAsleep
  PublishedIsFinal
  HeadRestored
PROPERTIES
  PrCarriesItsFixes
  ScopedStaging
