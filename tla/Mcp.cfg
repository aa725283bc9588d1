SPECIFICATION McpSpec
CONSTANTS
  MaxRequests = 3
  Findings = {"crash"}
  Patchable = {"crash"}
  MaxRecords = 1
  Versions = {"old", "new", "other"}
  Supported = {"old", "new"}
INVARIANTS
  TreeMatchesAnswers
  WalkedServersAreGone
PROPERTIES
  CallsAreAnswered
CHECK_DEADLOCK FALSE
