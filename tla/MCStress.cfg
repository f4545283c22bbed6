SPECIFICATION Spec
CONSTANTS
  Configs <- Mixes
  MaxActions = 3
  MaxWorkers = 2
  MaxRuns = 2
CONSTRAINT OneRunOfThree
INVARIANTS
  QuietAfterRun
  LeftoversExplained
PROPERTIES
  RunEnds
