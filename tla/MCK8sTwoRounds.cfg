SPECIFICATION Spec
CONSTANTS
  n1 = n1
  n2 = n2
  x = x
  api = api
  Namespaces = {n1}
  Names = {x}
  Kubernetes = api
  Configs <- ScaleOne
  Clusters <- Uniform
  MaxReplicas = 1
  MaxRuns = 2
  MaxOthers = 0
INVARIANTS
  RestoresOriginal
