CONSTANTS
  Sessions = {s1, s2}
  Configs <- MCRaceConfigs
  NodeKinds <- MCRaceKinds
  Npd = TRUE
  MaxLookups = 2
SPECIFICATION Spec
INVARIANT LookupMatchesRegistry
CHECK_DEADLOCK FALSE
