SPECIFICATION Spec
CONSTANTS
  default = default
  system = system
  near = near
  far = far
  Namespaces = {default, system}
  EndpointNames = {near, far}
  Slots = {1, 2}
  Configs <- Hurried
  MaxSteps = 2
  MaxRounds = 1
  MaxSignals = 0
INVARIANT RollbackRestores
