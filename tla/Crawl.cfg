SPECIFICATION Spec
CONSTANTS
  Apps <- MCApps
  Runs <- MCRuns
  Capacity = 6
  MaxLosses = 1
  MaxStates = 5
  MaxActions = 4
  QueueCap = 2
  TabCap = 6
  StreakCap = 3
INVARIANTS
  
  TraceSaysItsPage
  GraphIsSound
PROPERTIES
  CrawlEnds
