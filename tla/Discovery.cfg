SPECIFICATION MCSpec
CHECK_DEADLOCK FALSE
CONSTANTS
  Cap = 5
  Under = 1
  doc = doc
  gen = gen
  Claims = {doc, gen}
  Specified = {doc}
  Ctls = {c1}
  Reads = {r1}
  MaxIterations = 2
  MaxNoPlan = 2
  MaxStates = 2
  PlanIn = 1
  PlanOut = 1
  QuoteIn = 1
  QuoteOut = 1
  Raws <- MCRaws
  MaxExperiments = 1
  GenIn = 1
  GenOut = 2
  MaxTurns = 4
  MaxInvalid = 3
  TurnIn = 1
  TurnOut = 1
INVARIANTS
  SpendUnderCap
  FindingsHold
  ReportsAddUp
PROPERTIES
  EndsByItself
