--------------------------- MODULE NativeSessions ---------------------------
(***************************************************************************)
(* Several sessions' graph optimisations calling CheckForNodeNativeFormat  *)
(* (native_layout.cc) at once, sharing its function-static tables.         *)
(*                                                                         *)
(* The static vectors are initialised once (thread-safe), but two of them  *)
(* are then written without a lock:                                        *)
(*   - with enable_complete_opt and the OMP threadpool, every call inserts *)
(*     the CPU entries at the end of the CPU Eigen vector;                 *)
(*   - with USING_NEXTPLUGGABLE_DEVICE, the first call that finds          *)
(*     is_initialized false pushes the pooling entries onto the GPU        *)
(*     vector, then sets the flag.                                         *)
(* A lookup then walks its vector from cbegin() to cend().                 *)
(*                                                                         *)
(* A std::vector is modelled by its contents, its capacity and the        *)
(* generation of its buffer: an insert past the capacity moves the         *)
(* elements to a new buffer and frees the old one.  Reading a vector while *)
(* another session writes it, or through an iterator into a freed buffer,  *)
(* is undefined behaviour; the model lets such a read return "garbage".    *)
(***************************************************************************)
EXTENDS Integers, Sequences, SequencesExt, NativeFormatTables

CONSTANTS
  Sessions,     \* the sessions optimising graphs
  Configs,      \* optimizer contexts: [device, complete, omp]
  NodeKinds,    \* the nodes looked up: [op, T, pred]
  Npd,          \* built with USING_NEXTPLUGGABLE_DEVICE, XLA auto-jit off
  MaxLookups    \* lookups per session

ASSUME Npd \in BOOLEAN /\ MaxLookups \in Nat

Vec == {"eigen", "gpu"}   \* the static vectors that are written

VARIABLES
  vec,        \* vector -> its elements
  cap,        \* vector -> its capacity
  gen,        \* vector -> generation of its buffer
  writers,    \* vector -> sessions inside a write of it
  torn,       \* vector -> two writes overlapped: its contents are undefined
  npdInit,    \* the static bool is_initialized of GetGPUNativeFormatInfo
  conf,       \* session -> its optimizer context
  lpc,        \* session -> "idle", "insert", "push" or "scan"
  cur,        \* session -> the lookup in progress: [node, tbl, gen, pos]
  found,      \* session -> new_name of the entry returned, or "null"
  count       \* session -> lookups done

vars == <<vec, cap, gen, writers, torn, npdInit, conf, lpc, cur, found, count>>

-----------------------------------------------------------------------------
(* The vector the selection reads: the static Eigen and GPU vectors are    *)
(* written; the custom table never is.                                    *)
VecOf(sel) == CASE sel \in {"cpu_eigen", "cpu_eigen_ext"} -> "eigen"
                [] sel = "gpu" -> "gpu"
                [] OTHER -> "none"

(* The table a lookup walks, as it is now. *)
Walked(t) == IF t \in Vec THEN vec[t] ELSE IF t = "custom" THEN CustomNativeFormatInfo ELSE << >>

(* std::vector growth (_M_check_len): the new capacity of a vector of     *)
(* size n receiving k more elements.                                      *)
NewCapacity(n, k) == n + (IF n > k THEN n ELSE k)

(* The first half of vector::insert / push_back on v by session s: the   *)
(* session starts writing; past the capacity, the buffer is replaced.    *)
BeginWrite(s, v, k) ==
  /\ writers' = [writers EXCEPT ![v] = @ \cup {s}]
  /\ torn' = [torn EXCEPT ![v] = @ \/ writers[v] # {}]
  /\ IF Len(vec[v]) + k > cap[v]
       THEN /\ cap' = [cap EXCEPT ![v] = NewCapacity(Len(vec[v]), k)]
            /\ gen' = [gen EXCEPT ![v] = @ + 1]
       ELSE UNCHANGED <<cap, gen>>

(* The second half: the elements are in place, the size is updated. *)
EndWrite(s, v, es) ==
  /\ vec' = [vec EXCEPT ![v] = @ \o es]
  /\ writers' = [writers EXCEPT ![v] = @ \ {s}]

StartScan(s, t) ==
  /\ lpc' = [lpc EXCEPT ![s] = "scan"]
  /\ cur' = [cur EXCEPT ![s].tbl = t, ![s].gen = IF t \in Vec THEN gen[t] ELSE 0,
                        ![s].pos = 1]

-----------------------------------------------------------------------------
(* CheckForNodeNativeFormat(opt_ctx, node) starts: an unsupported dtype    *)
(* returns nullptr; otherwise the table is chosen by the device name, and  *)
(* on the OMP path the CPU entries are inserted into the Eigen vector;     *)
(* with the pluggable device, GetGPUNativeFormatInfo tests is_initialized. *)
Lookup(s) ==
  /\ lpc[s] = "idle" /\ count[s] < MaxLookups
  /\ count' = [count EXCEPT ![s] = @ + 1]
  /\ \E nd \in NodeKinds :
       LET sel == SelectTable(conf[s].device, conf[s])
           tbl == IF sel = "custom" THEN "custom" ELSE VecOf(sel)
       IN
       /\ cur' = [cur EXCEPT ![s] = [node |-> nd, tbl |-> tbl, pos |-> 1,
                                     gen |-> IF tbl \in Vec THEN gen[tbl] ELSE 0]]
       /\ CASE ~SupportedDataType(nd) \/ sel = "none" ->
                 /\ found' = [found EXCEPT ![s] = "null"]
                 /\ UNCHANGED <<vec, cap, gen, writers, torn, npdInit, lpc>>
            [] sel = "cpu_eigen_ext" ->
                 /\ BeginWrite(s, "eigen", Len(CPUNativeFormatInfo))
                 /\ lpc' = [lpc EXCEPT ![s] = "insert"]
                 /\ UNCHANGED <<vec, npdInit, found>>
            [] sel = "gpu" /\ Npd /\ ~npdInit ->
                 /\ BeginWrite(s, "gpu", Len(NpdPoolingEntries))
                 /\ lpc' = [lpc EXCEPT ![s] = "push"]
                 /\ UNCHANGED <<vec, npdInit, found>>
            [] OTHER ->
                 /\ lpc' = [lpc EXCEPT ![s] = "scan"]
                 /\ UNCHANGED <<vec, cap, gen, writers, torn, npdInit, found>>
  /\ UNCHANGED conf

(* rinfo->insert(rinfo->end(), CPU entries) completes. *)
InsertEnd(s) ==
  /\ lpc[s] = "insert"
  /\ EndWrite(s, "eigen", CPUNativeFormatInfo)
  /\ StartScan(s, "eigen")
  /\ UNCHANGED <<cap, gen, torn, npdInit, conf, found, count>>

(* The push_backs complete and is_initialized is set. *)
PushEnd(s) ==
  /\ lpc[s] = "push"
  /\ EndWrite(s, "gpu", NpdPoolingEntries)
  /\ npdInit' = TRUE
  /\ StartScan(s, "gpu")
  /\ UNCHANGED <<cap, gen, torn, conf, found, count>>

(* One iteration of the loop over rinfo: compare *ri with the node, or    *)
(* stop at cend().  A read of a vector under a concurrent write, torn by  *)
(* overlapping writes, or through a freed buffer is undefined: it may     *)
(* return anything, or happen to read the elements in place.              *)
ScanStep(s) ==
  /\ lpc[s] = "scan"
  /\ LET c == cur[s]
         t == Walked(c.tbl)
         racy == c.tbl \in Vec /\ (writers[c.tbl] # {} \/ torn[c.tbl] \/ c.gen # gen[c.tbl])
         Stop(r) == found' = [found EXCEPT ![s] = r] /\ lpc' = [lpc EXCEPT ![s] = "idle"]
                    /\ UNCHANGED cur
     IN \/ racy /\ Stop("garbage")
        \/ c.pos > Len(t) /\ Stop("null")
        \/ /\ c.pos <= Len(t)
           /\ IF t[c.pos].name = c.node.op /\ RuleAccepts(t[c.pos], c.node)
                THEN Stop(t[c.pos].new)
                ELSE /\ cur' = [cur EXCEPT ![s].pos = @ + 1]
                     /\ UNCHANGED <<found, lpc>>
  /\ UNCHANGED <<vec, cap, gen, writers, torn, npdInit, conf, count>>

Init ==
  /\ vec = [v \in Vec |-> IF v = "eigen" THEN CPUEigenNativeFormatInfo
                          ELSE IF Npd THEN GPUNativeFormatInfoNpd ELSE GPUNativeFormatInfo]
  /\ cap = [v \in Vec |-> Len(vec[v])]
  /\ gen = [v \in Vec |-> 0]
  /\ writers = [v \in Vec |-> {}]
  /\ torn = [v \in Vec |-> FALSE]
  /\ npdInit = FALSE
  /\ conf \in [Sessions -> Configs]
  /\ lpc = [s \in Sessions |-> "idle"]
  /\ cur = [s \in Sessions |-> [node |-> CHOOSE nd \in NodeKinds : TRUE, tbl |-> "none", gen |-> 0, pos |-> 1]]
  /\ found = [s \in Sessions |-> "null"]
  /\ count = [s \in Sessions |-> 0]

Next == \E s \in Sessions : Lookup(s) \/ InsertEnd(s) \/ PushEnd(s) \/ ScanStep(s)

(* Each session's optimiser thread runs its lookups to the end. *)
Spec == Init /\ [][Next]_vars /\ \A s \in Sessions : WF_vars(Lookup(s) \/ InsertEnd(s) \/ PushEnd(s) \/ ScanStep(s))

-----------------------------------------------------------------------------
(* The spec's registry, initialised once and never mutated: for the CPU   *)
(* device class, Eigen and, with the OMP threadpool, the CPU entries (or  *)
(* the custom table); for GPU and XPU, the GPU table of the build.  Device *)
(* names are the DEVICE_* constants of device_types.h.                     *)
SpecRegistry(c) ==
  IF c.device = "CPU"
    THEN IF c.complete
           THEN CPUEigenNativeFormatInfo \o (IF c.omp THEN CPUNativeFormatInfo ELSE << >>)
           ELSE CustomNativeFormatInfo
  ELSE IF c.device \in {"GPU", "XPU"}
    THEN IF Npd THEN GPUNativeFormatInfoNpd \o NpdPoolingEntries ELSE GPUNativeFormatInfo
  ELSE << >>

(* What the lookup of nd should return under the spec. *)
Expected(c, nd) ==
  LET R == SelectSeq(SpecRegistry(c), LAMBDA e : e.name = nd.op /\ (e.always \/ nd.pred))
  IN IF nd.T \in {"float", "bfloat16", "half"} /\ R # << >> THEN R[1].new ELSE "null"

(* Every lookup a session completes returns the entry the format registry *)
(* gives its node, however the sessions' lookups interleave: the lazy      *)
(* writes to the static vectors neither change which entry comes first    *)
(* nor disturb a lookup running in another session.                       *)
LookupMatchesRegistry ==
  \A s \in Sessions :
    lpc[s] = "idle" /\ count[s] > 0 => found[s] = Expected(conf[s], cur[s].node)

=============================================================================
