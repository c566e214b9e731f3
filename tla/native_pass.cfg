CONSTANTS
  Node <- MCNode
  GraphOps <- MCGraphOps
  NodeDevices = {"CPU", "GPU"}
  DTypes = {"float", "half"}
  NodeKinds <- MCNodeKinds
  Configs <- MCConfigs
  Wirings <- MCWirings
SPECIFICATION Spec
INVARIANT TypeOK
INVARIANT RewriteComplete
INVARIANT InputsPreserved
INVARIANT NoAbortOnDag
CHECK_DEADLOCK FALSE
