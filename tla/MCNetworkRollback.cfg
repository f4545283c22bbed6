SPECIFICATION Spec
CONSTANTS
  Configs <- Latency
  MaxRules = 0
  MaxRuns = 1
INVARIANTS
  RemovesAllInjected
