SPECIFICATION Spec
CONSTANTS
  Hosts = {"run", "watch"}
  Files = {"checkout", "cart"}
  Bugs = {"b1", "b2"}
  MaxSaves = 3
  Others = {"linter"}
  Parents = {"hook", "vite", "next"}
  Refs = {"delete", "new", "docs", "code", "undiffable"}
INVARIANTS
  WatchKeepsUp
  PushIsJudged
PROPERTIES
  ReleasedServerGoes
  NewestIsAudited
  AbandonedScanEnds
CHECK_DEADLOCK FALSE
