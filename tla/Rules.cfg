SPECIFICATION Spec
CHECK_DEADLOCK FALSE
CONSTANTS
  MaxScripts = 3
  MaxDiffFiles = 1
  MaxRepoFiles = 2
  Slots <- SlotOrder
  Worlds <- TheWorlds
  MaxCandidates = 2
  MaxNoise = 2
  MaxRerenders = 1
INVARIANTS
  FindingsAreReal
  PreservedIsVouched
  SameEntity
  ChangedComesFirst
