CONSTANTS
  Scans = {"a", "b"}
  Script <- MCScript
  Registries <- MCRegistries
  MaxCrashes = 1
SPECIFICATION FairSpec
CHECK_DEADLOCK FALSE
INVARIANTS
  StoreIsTruthful
PROPERTIES
  ScansExit
