CONSTANTS
  MaxPaid = 2
  MaxBudget = 2
  Runs = 2
  MaxSize = 2
SPECIFICATION HealSpec
CHECK_DEADLOCK FALSE
INVARIANTS
  HandedOffIsVerified
  SandboxRemoved
PROPERTIES
  ImplementsContract
