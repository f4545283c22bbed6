SPECIFICATION SchedSpec
CONSTANTS
  e1 = e1
  e2 = e2
  a = a
  A = A
  NoExp = NoExp
  Exps = {e1, e2}
  Ids = {a}
  Names = {A}
  Configs <- ListAndSteps
  DestructiveActionCount <- MCDestructive
  SchedulerConfigs <- AllSchedules
  MaxSteps = 1
  MaxScenarios = 1
  MaxRegistrations = 2
  MaxCallbacks = 0
  MaxCalls = 3
INVARIANTS
  RoundLimit
  QuietAfterReturn
PROPERTIES
  CampaignEnds
