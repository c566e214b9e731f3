-------------------------- MODULE NativeFormatTables --------------------------
(***************************************************************************)
(* The NativeFormatInfo tables of native_layout.cc and the operators of    *)
(* CheckForNodeNativeFormat that read them: the choice of a table by the   *)
(* device name, the lazy growth of the static vectors, and the search for  *)
(* the first entry that accepts a node.  NativeLayout (one pass) and       *)
(* NativeSessions (several sessions sharing the static tables) use them.   *)
(***************************************************************************)
EXTENDS Integers, Sequences, SequencesExt
(***************************************************************************)
(* The NativeFormatInfo tables, restricted to the ops of the model.        *)
(* always: the rewrite rule is AlwaysRewrite; otherwise it is a predicate  *)
(* on the node (pred).  pp: the entry has a post_process procedure.        *)
(***************************************************************************)
Entry(name, new, always, pp) ==
  [name |-> name, new |-> new, always |-> always, pp |-> pp]

CPUEigenNativeFormatInfo ==
  << Entry("FusedPadConv2D", "_ITEXPadWithConv2D", TRUE, TRUE),
     Entry("MaxPool", "_ITEXMaxPool", FALSE, FALSE),
     Entry("MaxPoolGrad", "_ITEXMaxPoolGrad", FALSE, FALSE),
     Entry("RandomUniform", "_ITEXRandomUniform", FALSE, FALSE) >>

CPUNativeFormatInfo == << Entry("AddN", "_ITEXAddN", TRUE, FALSE) >>

GPUNativeFormatInfo ==
  << Entry("MaxPool", "_ITEXMaxPool", FALSE, FALSE),
     Entry("MaxPoolGrad", "_ITEXMaxPoolGrad", FALSE, FALSE),
     Entry("TensorArrayV3", "_ITEXTensorArray", TRUE, FALSE) >>

(* With USING_NEXTPLUGGABLE_DEVICE the static GPU vector starts with the *)
(* TensorArray entries only, and the first call with XLA auto-jit off    *)
(* pushes the pooling entries (is_initialized).                          *)
GPUNativeFormatInfoNpd ==
  << Entry("TensorArrayV3", "_ITEXTensorArray", TRUE, FALSE) >>

NpdPoolingEntries ==
  << Entry("MaxPool", "_ITEXMaxPool", FALSE, FALSE),
     Entry("MaxPoolGrad", "_ITEXMaxPoolGrad", FALSE, FALSE) >>

CustomNativeFormatInfo ==
  << Entry("RandomUniform", "_ITEXRandomUniform", FALSE, FALSE) >>

\* Ops whose native form takes an extra workspace input (AddWorkspace).
WorkspaceOps == {"MaxPoolGrad"}

-----------------------------------------------------------------------------
(* absl::StrContains(haystack, needle) *)
StrContains(haystack, needle) == needle \in SubSeqs(haystack)

(* The table CheckForNodeNativeFormat selects for a device name. *)
SelectTable(device, c) ==
  IF StrContains("CPU", device)
    THEN IF c.complete THEN (IF c.omp THEN "cpu_eigen_ext" ELSE "cpu_eigen")
                       ELSE "custom"
  ELSE IF StrContains("GPU", device) THEN "gpu"
  ELSE IF StrContains("XPU", device) THEN "gpu"
  ELSE "none"

(* The static Eigen vector after the selection: the CPU entries are     *)
(* inserted at its end on every call that takes the OMP branch.          *)
EigenAfter(sel, eig) ==
  IF sel = "cpu_eigen_ext" THEN eig \o CPUNativeFormatInfo ELSE eig

TableContents(sel, eig) ==
  CASE sel \in {"cpu_eigen", "cpu_eigen_ext"} -> eig
    [] sel = "custom" -> CustomNativeFormatInfo
    [] sel = "gpu"    -> GPUNativeFormatInfo
    [] sel = "none"   -> << >>

RuleAccepts_Always(e, nd) == TRUE
RuleAccepts(e, nd) == e.always \/ nd.pred

FirstMatch_NameOnly(tbl, nd) == SelectInSeq(tbl, LAMBDA e : e.name = nd.op)

(* Index of the first entry matching the node, 0 when there is none. *)
FirstMatch(tbl, nd) ==
  SelectInSeq(tbl, LAMBDA e : e.name = nd.op /\ RuleAccepts(e, nd))

(* IsLayoutRewriteSupportedDataType *)
SupportedDataType(nd) == nd.T \in {"float", "bfloat16", "half"}

(* NodeIsOnDevice / NodeIsOnCpu *)
NodeIsOnDevice(device, nd) == nd.dev = device
NodeIsOnCpu(nd) == nd.dev = "CPU"

=============================================================================
