SPECIFICATION Spec
CONSTANTS
  Configs <- Lists
  MaxTargets = 3
  DefaultRequests = 3
INVARIANTS
  RequestsConserved
  AllAnswered
  LateSendsBounded
  ConnectionHeld
PROPERTIES
  RunEnds
  DispatchersEnd
