---------------------------- MODULE NativeLayout ----------------------------
(***************************************************************************)
(* The native-layout (format rewrite) pass of                              *)
(* src/itex/core/graph/native_layout/native_layout.cc.                     *)
(*                                                                         *)
(* RunNativeLayout copies the input GraphDef, sorts it topologically and   *)
(* walks node_index = 0 .. num_nodes-1.  For each node on the optimizer's  *)
(* device, CheckForNodeNativeFormat picks a NativeFormatInfo table by the  *)
(* device name and returns the first entry whose op name matches and whose *)
(* rewrite rule accepts the node; RewriteNode then builds the replacement  *)
(* node (same name, device and inputs, new op, workspace inputs added) and *)
(* applies it at once through the graph view's mutation builder.           *)
(*                                                                         *)
(* Graph nodes are indices of the GraphDef.  A node keeps its op, device,  *)
(* dtype attribute "T", the verdict of its entry's rewrite rule (pred:     *)
(* RewritePool, RewriteMaxPoolGrad, ... read attributes the model does not *)
(* keep) and its input list: records [src, ctrl], regular inputs first,    *)
(* control inputs ("^src") after them, as in a NodeDef.                    *)
(***************************************************************************)
EXTENDS Integers, Sequences, SequencesExt, FiniteSets, NativeFormatTables

CONSTANTS
  Node,         \* indices of the GraphDef's nodes, 1..N
  GraphOps,     \* op types the input graph's nodes may have
  NodeDevices,  \* device types a node may be placed on
  DTypes,       \* values of a node's "T" attribute
  NodeKinds,    \* the [op, dev, T, pred] a node of the input graph may have
  Configs,      \* optimizer contexts: [device, complete, omp, fp16]
  Wirings       \* input lists of the input graph: [Node -> Seq(Input)]

ASSUME Node = 1..Cardinality(Node)
ASSUME NodeKinds \subseteq [op : GraphOps, dev : NodeDevices, T : DTypes, pred : BOOLEAN]

VARIABLES
  graph,       \* the mutable GraphDef: Node -> node record
  orig,        \* the GraphDef handed to the pass (history variable)
  cfg,         \* opt_ctx->device_name, enable_complete_opt, the OMP and FP16 switches
  eigenTable,  \* the function-static vector of GetCPUEigenNativeFormatInfo()
  rinfo,       \* the table CheckForNodeNativeFormat consulted last
  order,       \* node order of the GraphDef after SortTopologically
  idx,         \* node_index of the rewrite loop
  pc           \* "sort", "loop", "done" or "aborted" (TF_ABORT_IF_ERROR)

vars == <<graph, orig, cfg, eigenTable, rinfo, order, idx, pc>>

Input == [src : Node, ctrl : BOOLEAN]

-----------------------------------------------------------------------------
(* Regular and control inputs of an input list, as the graph view counts them. *)
NumRegularFanins(in) == Len(SelectSeq(in, LAMBDA e : ~e.ctrl))
RegularFanins(in) == SubSeq(in, 1, NumRegularFanins(in))
ControllingFanins_SkipFirst(in) == SubSeq(in, NumRegularFanins(in) + 2, Len(in))
ControllingFanins(in) == SubSeq(in, NumRegularFanins(in) + 1, Len(in))

(* The orders AdjustInputOrder may put the regular inputs in. *)
Reorderings(s) ==
  { [i \in 1..Len(s) |-> s[f[i]]] : f \in Permutations(1..Len(s)) }

(* AddWorkspace: the workspace is an extra regular input produced by the *)
(* node that feeds the forward result.                                    *)
Workspace(nd) ==
  IF nd.op \in WorkspaceOps /\ NumRegularFanins(nd.in) > 0
    THEN << [src |-> nd.in[1].src, ctrl |-> FALSE] >>
    ELSE << >>

(* The input list RewriteNode gives the new node: the regular inputs    *)
(* (after post_process), the workspace input, then the control inputs.  *)
NewInputs_WorkspaceLast(pre, nd) ==
  pre \o ControllingFanins(nd.in) \o Workspace(nd)

NewInputs(pre, nd) == pre \o Workspace(nd) \o ControllingFanins(nd.in)

(* Mutation::Apply rejects an input list with a regular input after a   *)
(* control input or an input naming no node.                            *)
WellFormedInputs(in) ==
  /\ \A i \in 1..Len(in) : in[i].src \in Node
  /\ \A i, j \in 1..Len(in) : i < j /\ in[i].ctrl => in[j].ctrl

(* Producer -> consumer edges, data and control, of a graph. *)
DepGraph(g) ==
  [node |-> Node,
   edge |-> UNION { { <<e.src, n>> : e \in Range(g[n].in) } : n \in Node }]

TopologicalOrders(g) ==
  { o \in SetToSeqs(Node) :
      \A i, j \in 1..Len(o) : <<o[j], o[i]>> \in DepGraph(g).edge => j < i }

-----------------------------------------------------------------------------
Init ==
  /\ \E w \in Wirings, kind \in [Node -> NodeKinds] :
       graph = [n \in Node |-> kind[n] @@ [in |-> w[n]]]
  /\ orig = graph
  /\ cfg \in Configs
  /\ eigenTable = CPUEigenNativeFormatInfo
  /\ rinfo = "unset"
  /\ order = << >>
  /\ idx = 1
  /\ pc = "sort"

(* ctx.graph_view.SortTopologically(false, {}) *)
SortTopologically ==
  /\ pc = "sort"
  /\ \E o \in TopologicalOrders(graph) : order' = o
  /\ pc' = "loop"
  /\ UNCHANGED <<graph, orig, cfg, eigenTable, rinfo, idx>>

(* SortTopologically fails on a cycle; TF_ABORT_IF_ERROR ends the process. *)
SortFails ==
  /\ pc = "sort"
  /\ TopologicalOrders(graph) = {}
  /\ pc' = "aborted"
  /\ UNCHANGED <<graph, orig, cfg, eigenTable, rinfo, order, idx>>

Cur == graph[order[idx]]

NextIndex_Twice == idx + 2

(* ++node_index *)
NextIndex == idx + 1

Skipped(nd) ==
  \/ ~NodeIsOnDevice(cfg.device, nd)
  \/ NodeIsOnCpu(nd) /\ nd.T = "half" /\ ~cfg.fp16

(* The node is not on this device, or is fp16 on a CPU without fp16. *)
SkipNode ==
  /\ pc = "loop" /\ idx <= Len(order)
  /\ Skipped(Cur)
  /\ idx' = NextIndex
  /\ UNCHANGED <<graph, orig, cfg, eigenTable, rinfo, order, pc>>

(* CheckForNodeNativeFormat returns nullptr: unsupported dtype, no table *)
(* for the device, or no entry accepts the node.                          *)
NoNativeFormat ==
  /\ pc = "loop" /\ idx <= Len(order)
  /\ ~Skipped(Cur)
  /\ IF SupportedDataType(Cur)
       THEN LET sel == SelectTable(cfg.device, cfg)
                eig == EigenAfter(sel, eigenTable)
            IN /\ FirstMatch(TableContents(sel, eig), Cur) = 0
               /\ eigenTable' = eig
               /\ rinfo' = sel
       ELSE UNCHANGED <<eigenTable, rinfo>>
  /\ idx' = NextIndex
  /\ UNCHANGED <<graph, orig, cfg, order, pc>>

(* CheckForNodeNativeFormat returns entry ri, and RewriteNode replaces    *)
(* the node by one with op ri->new_name, its regular inputs (reordered by *)
(* post_process), the workspace input and its control inputs, then        *)
(* applies the mutation; a rejected mutation aborts (TF_ABORT_IF_ERROR).  *)
RewriteNode ==
  /\ pc = "loop" /\ idx <= Len(order)
  /\ ~Skipped(Cur)
  /\ SupportedDataType(Cur)
  /\ LET sel == SelectTable(cfg.device, cfg)
         eig == EigenAfter(sel, eigenTable)
         tbl == TableContents(sel, eig)
         k   == FirstMatch(tbl, Cur)
         reg == RegularFanins(Cur.in)
     IN /\ k > 0
        /\ eigenTable' = eig
        /\ rinfo' = sel
        /\ \E pre \in (IF tbl[k].pp THEN Reorderings(reg) ELSE {reg}) :
             LET in == NewInputs(pre, Cur)
             IN IF WellFormedInputs(in)
                  THEN /\ graph' = [graph EXCEPT ![order[idx]].op = tbl[k].new,
                                                 ![order[idx]].in = in]
                       /\ idx' = NextIndex
                       /\ UNCHANGED pc
                  ELSE /\ pc' = "aborted"
                       /\ UNCHANGED <<graph, idx>>
  /\ UNCHANGED <<orig, cfg, order>>

(* The loop ends; the rewritten graph becomes optimized_graph. *)
Finish ==
  /\ pc = "loop" /\ idx > Len(order)
  /\ pc' = "done"
  /\ UNCHANGED <<graph, orig, cfg, eigenTable, rinfo, order, idx>>

Next ==
  \/ SortTopologically
  \/ SortFails
  \/ SkipNode
  \/ NoNativeFormat
  \/ RewriteNode
  \/ Finish

(* The pass is one thread running to completion: it is never descheduled *)
(* for good while it has a step to take.                                  *)
Spec == Init /\ [][Next]_vars /\ WF_vars(Next)

-----------------------------------------------------------------------------
(***************************************************************************)
(* Properties.                                                             *)
(***************************************************************************)
Tables == {"unset", "cpu_eigen", "cpu_eigen_ext", "custom", "gpu", "none"}

TypeOK ==
  /\ graph \in [Node -> [op : STRING, dev : NodeDevices, T : DTypes,
                         pred : BOOLEAN, in : Seq(Input)]]
  /\ cfg \in Configs
  /\ rinfo \in Tables
  /\ order \in Seq(Node)
  /\ idx \in 1..Cardinality(Node) + 1
  /\ pc \in {"sort", "loop", "done", "aborted"}

(* The format registry as the spec describes it: one fixed table per     *)
(* device class, the CPU table holding the Eigen and, with the OMP        *)
(* threadpool, the CPU entries.                                           *)
Registry(c) ==
  IF c.device = "CPU"
    THEN IF c.complete
           THEN CPUEigenNativeFormatInfo
                  \o (IF c.omp THEN CPUNativeFormatInfo ELSE << >>)
           ELSE CustomNativeFormatInfo
    ELSE GPUNativeFormatInfo

(* A node the pass may rewrite: on the pass's device, not fp16 on a CPU  *)
(* without fp16 support, of a dtype the layout rewrite supports.          *)
Eligible(nd) ==
  /\ nd.dev = cfg.device
  /\ ~(nd.dev = "CPU" /\ nd.T = "half" /\ ~cfg.fp16)
  /\ nd.T \in {"float", "bfloat16", "half"}

(* The op a node should have after the pass: the target of the registry  *)
(* entry for its op whose predicate accepts it, when there is one.       *)
ExpectedOp(nd) ==
  LET R == { e \in Range(Registry(cfg)) :
               e.name = nd.op /\ (e.always \/ nd.pred) }
  IN IF Eligible(nd) /\ R # {} THEN (CHOOSE e \in R : TRUE).new ELSE nd.op

DataInputs(in) == SelectSeq(in, LAMBDA e : ~e.ctrl)
ControlInputs(in) == SelectSeq(in, LAMBDA e : e.ctrl)

(* When RunNativeLayout returns, every node of the graph on the pass's    *)
(* device that a format entry accepts has been replaced by its native op, *)
(* and every other node keeps its op: the loop visits each node once, the *)
(* skip conditions and CheckForNodeNativeFormat let exactly the eligible  *)
(* nodes through, and no rewrite undoes or repeats another (spec P6).     *)
RewriteComplete ==
  pc = "done" => \A n \in Node : graph[n].op = ExpectedOp(orig[n])

(* RewriteNode keeps a node's control inputs, in order, after its regular *)
(* inputs, and its regular inputs up to reordering, adding only the       *)
(* workspace input of a workspace op: no edge of the graph is lost or     *)
(* invented by a rewrite.                                                 *)
InputsPreserved ==
  \A n \in Node :
    LET o == orig[n]
        g == graph[n]
        ws == IF g.op = o.op \/ o.op \notin WorkspaceOps \/ DataInputs(o.in) = << >>
                THEN << >>
                ELSE << [src |-> DataInputs(o.in)[1].src, ctrl |-> FALSE] >>
    IN /\ g.in = DataInputs(g.in) \o ControlInputs(g.in)
       /\ ControlInputs(g.in) = ControlInputs(o.in)
       /\ DataInputs(g.in) \in Reorderings(DataInputs(o.in) \o ws)

(* On an acyclic graph the pass never aborts: every node RewriteNode     *)
(* builds is accepted by Mutation::Apply (a rejection is fatal through    *)
(* TF_ABORT_IF_ERROR, so the pass cannot fall back to the original node). *)
NoAbortOnDag ==
  TopologicalOrders(orig) # {} => pc # "aborted"

=============================================================================
