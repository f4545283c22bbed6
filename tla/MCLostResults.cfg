SPECIFICATION Spec
CONSTANTS
  e1 = e1
  e2 = e2
  a = a
  b = b
  A = A
  B = B
  C = C
  NoExp = NoExp
  Exps = {e1}
  Ids = {a}
  Names = {A, B, C}
  Configs <- PlainConfigs
  DestructiveActionCount <- MCDestructive
  MaxSteps = 1
  MaxScenarios = 1
  MaxRegistrations = 2
  MaxCallbacks = 0
  MaxCalls = 1
INVARIANTS
  AllResultsCollected
