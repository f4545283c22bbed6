SPECIFICATION Spec
CONSTANTS
  default = default
  system = system
  near = near
  far = far
  Namespaces = {default, system}
  EndpointNames = {near, far}
  Slots = {1, 2}
  Configs <- AllConfigs
  MaxSteps = 3
  MaxRounds = 2
  MaxSignals = 2
CONSTRAINT OneQuestion
INVARIANTS
  NothingUnapproved
  PreflightDecides
  GracefulExit
  LedgerAgrees
  CompletedIsFinal
  ComparisonRight
PROPERTIES
  ProcessEnds
