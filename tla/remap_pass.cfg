CONSTANTS
  Node <- MCNode
  Graphs <- MCGraphs
  Preserves <- MCPreserves
SPECIFICATION Spec
INVARIANT TypeOK
INVARIANT NoDanglingInputs
INVARIANT DataflowPreserved
CHECK_DEADLOCK FALSE
