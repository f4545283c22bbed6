SPECIFICATION Spec
CONSTANTS
  Configs <- Several
  MaxRules = 1
  MaxRuns = 2
INVARIANTS
  RecordsAreReal
  InjectedIsRecorded
PROPERTIES
  CallsEnd
