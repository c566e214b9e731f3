------------------------- MODULE MC_NativeSessions -------------------------
(***************************************************************************)
(* Model values for NativeSessions: optimizer contexts for every table     *)
(* branch, and nodes whose ops hit each table, none, or whose dtype is not *)
(* rewritten.                                                              *)
(***************************************************************************)
EXTENDS NativeSessions

Ctx(d, c, o) == [device |-> d, complete |-> c, omp |-> o]

\* Every branch of the device dispatch: Eigen with and without the CPU
\* entries, the custom table, the GPU table reached by GPU and by XPU.
MCConfigs ==
  { Ctx("CPU", TRUE, TRUE), Ctx("CPU", TRUE, FALSE), Ctx("CPU", FALSE, TRUE),
    Ctx("GPU", FALSE, TRUE), Ctx("XPU", FALSE, TRUE) }

\* A predicate entry (MaxPool), an AlwaysRewrite entry of the appended CPU
\* table (AddN), the custom table's op, and an op no table has.
MCNodeKinds ==
  { k \in [op : {"MaxPool", "AddN", "RandomUniform", "Conv2D"},
           T : {"float", "int32"}, pred : BOOLEAN] :
      k.T = "int32" => k.op = "MaxPool" /\ k.pred }

\* Two sessions on the OMP CPU path and the pluggable GPU path: the two
\* paths that write a static vector.
MCRaceConfigs ==
  { Ctx("CPU", TRUE, TRUE), Ctx("GPU", FALSE, TRUE) }

MCRaceKinds ==
  { k \in [op : {"MaxPool", "AddN"}, T : {"float"}, pred : BOOLEAN] :
      k.op = "AddN" => ~k.pred }

=============================================================================
