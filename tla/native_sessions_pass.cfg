CONSTANTS
  Sessions = {s1}
  Configs <- MCConfigs
  NodeKinds <- MCNodeKinds
  Npd = TRUE
  MaxLookups = 3
SPECIFICATION Spec
INVARIANT LookupMatchesRegistry
CHECK_DEADLOCK FALSE
