CONSTANTS
  Node <- MCNode
  Graphs <- MCUnsoundGraphs
  Preserves <- MCFetchedChain
SPECIFICATION Spec
INVARIANT FusionSound
CHECK_DEADLOCK FALSE
