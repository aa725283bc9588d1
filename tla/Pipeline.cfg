CONSTANTS
  Oracles <- MCOracles
  MaxReplays = 12
  ReproRuns = 3
  MaxSpend = 2
  HealCalls = 2
SPECIFICATION FairSpec
CHECK_DEADLOCK FALSE
INVARIANTS
  VerdictsAreRight
  EngineIsClosed
  LogTellsTheRun
PROPERTY RunComesToEnd
