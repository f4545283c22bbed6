SPECIFICATION Spec
CONSTANTS
  n1 = n1
  n2 = n2
  x = x
  api = api
  Namespaces = {n1, n2}
  Names = {x, api}
  Kubernetes = api
  Configs <- AllConfigs
  Clusters <- Varied
  MaxReplicas = 2
  MaxRuns = 2
  MaxOthers = 1
CONSTRAINT
  OneRunOfSeveral
INVARIANTS
  ScaleDownsRecorded
  ProtectedUntouched
  CapPerPlace
  BestEffort
  RestoresAfterOneRun
