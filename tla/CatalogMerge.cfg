CONSTANTS
  Ids = {1, 2}
  Names <- MCNames
  Metas <- MCMetas
  MaxItems = 2
  MaxGateways = 4
SPECIFICATION MergeSpec
\* A chain of gateways ends.
CHECK_DEADLOCK FALSE
INVARIANTS MergeTypeOK OrderIsIrrelevant MetadataNamesTheRoute OriginalSurvives
