-------------------------- MODULE MC_NativeLayout --------------------------
(***************************************************************************)
(* Model values for NativeLayout: three nodes, the ops of every table     *)
(* branch, and the wirings of a chain with a control edge, a graph whose   *)
(* index order is not topological, and a cycle.                            *)
(***************************************************************************)
EXTENDS NativeLayout

MCNode == 1..3

D(s) == [src |-> s, ctrl |-> FALSE]
C(s) == [src |-> s, ctrl |-> TRUE]

\* 1 -> 2 -> 3 with a control edge 1 -> 3
Chain == [n \in MCNode |-> CASE n = 1 -> << >>
                             [] n = 2 -> << D(1) >>
                             [] n = 3 -> << D(2), D(1), C(1) >>]
\* 3 -> 1, 3 -> 2, control 2 -> 1: the sort has to move node 3 first
Reversed == [n \in MCNode |-> CASE n = 1 -> << D(3), C(2) >>
                                [] n = 2 -> << D(3) >>
                                [] n = 3 -> << >>]
\* 1 -> 2 -> 1
Cycle == [n \in MCNode |-> CASE n = 1 -> << D(2) >>
                             [] n = 2 -> << D(1) >>
                             [] n = 3 -> << >>]

MCWirings == {Chain, Reversed, Cycle}

MCGraphOps == {"MaxPool", "MaxPoolGrad", "AddN", "FusedPadConv2D"}

\* The predicate of an AlwaysRewrite entry is never consulted: one value of
\* pred suffices for AddN and FusedPadConv2D.
MCNodeKinds ==
  { k \in [op : MCGraphOps, dev : {"CPU", "GPU"}, T : {"float", "half"},
           pred : BOOLEAN] :
      k.op \in {"AddN", "FusedPadConv2D"} => ~k.pred }

MCConfigs ==
  { [device |-> "CPU", complete |-> TRUE,  omp |-> TRUE,  fp16 |-> FALSE],
    [device |-> "CPU", complete |-> TRUE,  omp |-> FALSE, fp16 |-> TRUE],
    [device |-> "GPU", complete |-> FALSE, omp |-> TRUE,  fp16 |-> FALSE] }

\* Float nodes only: the liveness check walks every behaviour, and the
\* dtype decides no branch that the loop counter depends on.
MCFloatKinds == { k \in MCNodeKinds : k.T = "float" }

=============================================================================
