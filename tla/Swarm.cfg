CONSTANTS
  Roles <- MCRoles
  Lanes = {"l1", "l2"}
  Sizes = {1, 2, 3}
  Cap = 5
  Faults <- MCFaults
  RootKey <- MCRootKey
  Severity <- MCSeverity
  MaxSignals <- MCMaxSignals
  MaxHistory <- MCMaxHistory
SPECIFICATION Spec
CHECK_DEADLOCK FALSE
INVARIANTS
  MissionsAccounted
  NothingHangs
  NothingLostInMerge
