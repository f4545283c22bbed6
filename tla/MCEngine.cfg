SPECIFICATION Spec
CONSTANTS
  e1 = e1
  e2 = e2
  a = a
  b = b
  A = A
  B = B
  C = C
  NoExp = NoExp
  Exps = {e1, e2}
  Ids = {a, b}
  Names = {A, B, C}
  Configs <- AllConfigs
  DestructiveActionCount <- MCDestructive
  MaxSteps = 3
  MaxScenarios = 3
  MaxRegistrations = 2
  MaxCallbacks = 1
  MaxCalls = 3
CONSTRAINT OneQuestion
INVARIANTS
  TypeOK
  PrerequisiteGate
  ConditionalSteps
  RetryDiscipline
  StructuredConcurrency
  OneResultEach
  CallbacksMatchResults
  ResultsAccumulate
  DestructiveBudget
PROPERTIES
  CancelStopsNewRuns
  RollbackComplete
  ImplementsCampaign
  CallsReturn
