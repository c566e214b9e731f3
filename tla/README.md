# TLA+ models of the Intel Extension for TensorFlow graph-rewrite core

This directory holds TLA+ models of the graph-rewrite passes in `src/itex/core/graph` and of the GPU sparse segment reduction kernel, with TLC configurations that check them. `PROJECT.json` lists every component, run, mutant, source mapping, finding and hazard. Each definition that models code is mapped there to the source lines it translates.

## 1. The system

The sources in `src/` are a sample of the extension. It is a TensorFlow plug-in that rewrites a computation graph into device-optimised operators, and then runs kernels for those operators.

| Part | Source | State it keeps | Operations |
|---|---|---|---|
| Native-layout (format rewrite) pass | `graph/native_layout/native_layout.cc` | a mutable copy of the GraphDef and its `MutableGraphView`; four **function-static** tables of `NativeFormatInfo` (op → native op, rewrite rule, post-process) | `RunNativeLayout` (sort, loop), `CheckForNodeNativeFormat` (table choice by device name, first matching entry), `RewriteNode` (build, mutate, apply) |
| Remapper fusion `PadConv3dWithCast` | `graph/remapper/pad_conv3d_with_cast_pattern.cc` | its `OpTypePattern` (12 labelled nodes, with `is_partial_ = true`) | `Check` (match, device and Cast-dtype conditions), `Update` (fused node, rewire `cast2_in`, apply) |
| Remapper context and helpers | `graph/remapper/remapper.h` | `nodes_to_preserve`, graph view, lazily inferred graph properties | `IsInPreserveSet`, fan-in/fan-out predicates, `GetGraphProperties`; `RunRemapper` is declared here but its body is not in `src/` |
| Kernels | `kernels/...` | per-call tensors | quantized max pool, sparse segment reduction (host code and the striped GPU reduction), ragged fill-empty-rows, and several registration-only files |
| MLIR mangling | `ir/importexport/mangling.cc` | none (pure functions) | mangle and demangle attribute, type, shape and tensor strings |
| Declarations | `config_util.h`, `device_types.h`, `graphdef_import.h`, `onednn_post_op_util.h`, `fmha_policy.h` | constants | none |

**How the parts interact.** Grappler hands a GraphDef to the remapper and then to the native-layout pass. Each pass has one thread and owns its copy of the graph (spec section 5). The two passes meet only through the graph. The native-layout tables are process-wide statics, so every pass in the process shares them.

**What is hard.**
- Each rewrite commits at once, and later nodes see the rewritten graph.
- Which table is chosen depends on the device name and on three switches.
- One table is mutated on every lookup.
- A fusion rewires nodes that other consumers may also read.
- The matcher tolerates partial matches.
- Failures abort the process instead of being recovered.

**Properties these components need:**
- Every eligible node is rewritten, and no other node is.
- Edges are neither lost nor invented.
- The pass does not abort on a valid graph.
- The tables do not change.
- A fusion preserves what the graph computes.
- No input dangles (spec P2).
- Preserved nodes survive (spec P3; this is the driver's own skip guard, so no run checks it separately).
- Control dependencies survive.
- `Check` and `Update` end normally.
- The striped segment reduction computes each segment's sum under every interleaving of its work items, and writes only inside its output.

## 2. Modules

### `NativeLayout.tla` (with `MC_NativeLayout.tla`)
This module models `RunNativeLayout`, `CheckForNodeNativeFormat` and `RewriteNode`.

**State:**
- `graph`: node index → `[op, dev, T, pred, in]`. `in` is the NodeDef input list of `[src, ctrl]` records, regular inputs first.
- `eigenTable`: the static vector behind `GetCPUEigenNativeFormatInfo`.
- `cfg`: the device name, `enable_complete_opt`, the OMP threadpool switch and CPU fp16 support.
- `order`: the node order after `SortTopologically`.
- `idx`: `node_index`.
- `pc`.
- `rinfo`: the table the last lookup used.
- `orig`: the input graph.

**Actions:**
- `SortTopologically`, and `SortFails` (a cycle; `TF_ABORT_IF_ERROR`).
- One action per way a loop iteration ends:
  - `SkipNode`: not on the device, or fp16 on a CPU without fp16 support.
  - `NoNativeFormat`: the lookup returns `nullptr`.
  - `RewriteNode`: copy the regular inputs, post-process, add the workspace, copy the control inputs, then `Apply`. A rejected `Apply` aborts.
- `Finish`.

The lookup's side effect on the static table (`rinfo->insert`) is part of both lookup actions, exactly as in the code.

**Abstractions:**
- The tables hold the entries for the modelled ops: MaxPool and MaxPoolGrad (predicate rules), AddN (CPU table), FusedPadConv2D (post-process), RandomUniform (custom table) and TensorArrayV3 (GPU).
- A rewrite predicate is abstracted to a per-node verdict, `pred`.
- Several pieces come from the spec, because their code is outside `src/`:
  - `IsLayoutRewriteSupportedDataType`, `NodeIsOnDevice` and `NodeIsOnCpu`;
  - `AddWorkspace`: a workspace input, from the producer of the first input, for MaxPoolGrad;
  - `AdjustInputOrder`: any reordering of the regular inputs;
  - the mutation builder: it rejects a regular input after a control input, or a missing node;
  - the topological sort: any topological order.

### `NativeFormatTables.tla`
The `NativeFormatInfo` tables and the pure operators of `CheckForNodeNativeFormat`. `NativeLayout` and `NativeSessions` both extend it:
- the tables, restricted to the modelled ops;
- the pluggable-device variants. With `USING_NEXTPLUGGABLE_DEVICE` the GPU vector starts without the pooling entries (`GPUNativeFormatInfoNpd`), and the first call pushes them (`NpdPoolingEntries`);
- `StrContains`, with the code's argument order;
- `SelectTable`, the first-match search, and `RuleAccepts`.

### `NativeSessions.tla` (with `MC_NativeSessions.tla`)
Several sessions' optimisers call `CheckForNodeNativeFormat` at once. They share its function-static vectors. The vectors are initialised thread-safely, but two of them are then written without a lock:
- the OMP CPU path inserts the CPU entries into the Eigen vector on every call (line 351);
- the pluggable-device path tests and sets `is_initialized` around its `push_back`s (lines 299-315).

**State.** Each written vector has its contents `vec`, its capacity `cap`, and a buffer generation `gen`. Each one also records its current writers and whether two writes overlapped (`torn`). Each session has its context, its lookup in progress (node, table, the generation it started on, position), its result and its lookup count.

**Actions.** Each session runs the function as a sequence of steps, so that steps of different sessions can interleave:
- `Lookup` covers the dtype check and the table choice, and starts a write where the code writes. Inserting past the capacity reallocates, which gives a new generation, with capacity from libstdc++'s `n + max(n, k)` growth.
- `InsertEnd` and `PushEnd` complete the write, then start the scan.
- `ScanStep` is one iteration of the `cbegin()`..`cend()` loop. It reads undefined memory in any of three cases: the vector is being written, two writes tore it, or the scan began on a freed buffer. Such a read is undefined behaviour, so it may return anything (`"garbage"`) or happen to read the elements in place.

**The property.** `LookupMatchesRegistry` compares each completed lookup with the entry the spec's registry gives. The spec's registry selects the tables by device class (the `DEVICE_CPU`, `DEVICE_GPU` and `DEVICE_XPU` names of `device_types.h`), and it has the tables populated once and never mutated. With those exact names the code's reversed `StrContains` arguments select the same table, so the runs use them; the spec (section 9) itself calls a name such as `XPU_CPU_FALLBACK` hypothetical.

### `Remapper.tla` (with `MC_Remapper.tla`)
This module models the remapper pass running `PadConv3dWithCast`.

**State:**
- `graph`: node index → `[op, dev, srcT, dstT, T, in, live, pads]`. `live` is false once a node is removed. `pads` names the Const whose values became the fused node's `explicit_paddings`.
- `preserve`.
- `idx`.
- `pc`: `"loop"`, `"done"` or `"crashed"`. `"crashed"` is an uncaught exception or a failed CHECK.
- `orig`.

**Parts:**
- `Pattern` is the constructor's `OpTypePattern` tree.
- `Check` and `Update` are the source's methods. They return "empty", "match", "ok" or "throw"; "throw" stands for `std::map::at` on a missing label, or the int32 dtype CHECK.
- The matcher (`FillProperties`, recursive, with partial and N-same-input semantics) and the driver (forward index order; skip removed and preserved nodes; on success, remove the matched `kRemove` nodes) are not in `src/`. They follow spec sections 4.1 to 4.3.
- The matcher refuses to remove a node that someone outside the match still reads, or that is preserved. This is what spec properties P2 and P3 require.

**The value abstraction.** `Val` defines what a node computes, so that "the fusion preserves the dataflow" can be checked:
- Cast, QuantizeV2 and Dequantize are element-wise and carry the zero padding of their first input through.
- A Pad adds its padding.
- A Conv3D consumes the padding of its inputs.
- A `PadConv3d` applies its `explicit_paddings` to an unpadded input.
- Any other op is opaque.

### `SparseSegmentReduction.tla` (with `MC_SparseSegmentReduction.tla`)
This module models the GPU sparse segment sum: the host `Compute` of the forward op and of its gradient (`sparse_segment_reduction_ops.h`), and the striped kernel `SortedSegmentKernel` with its launcher (`sparse_segment_reduction_util.h`).

**State:**
- `call`: the inputs (segment ids, whether `num_segments` is given and its value, `output_dim0` for the gradient).
- `pc`: `"host"`, `"kernel"`, `"done"`, `"error"` (an `OP_REQUIRES` failed) or `"crashed"` (a CHECK failed).
- `rows` and `out`: the allocated output and its values. `oob` records a store outside it.
- Per work item: `ipc`, the loop counter `ij`, `reduce_res` (`res`), `last_output_segment_id` (`last`), and for a plain flush between its load and its store, the target `wt` and the value `wv`.

**Actions:**
- `Compute`: `last_segment_id_host` (from `num_segments`, or from the device copy of the last segment id; with no indices that read is out of bounds and yields any value of `Garbage`), the `output_rows > 0` check, `set_dim`, allocation, and the launch.
- `GradCompute`: `M` from `output_dim0`, `set_dim`, and the early return.
- Per work item: `ExitItem` (ids beyond `total_stripe_count`), `Iterate` (one `j` iteration: flush when the id grows, reset, add row `j`), `WriteBack` (the store half of a plain flush), `FinalFlush` (the atomic flush after the loop).
- `KernelDone`: the host continues once every work item has finished.

**Abstractions:**
- `SegmentId` has `SegmentIdBits` bits (4 in the runs), standing in for an int32 `SegmentId` fed an int64 `num_segments`. `ToSegmentId` wraps a value into it two's-complement style, as the conversion at line 73 does, and `last_segment_id_host + 1` wraps the same way.
- One column (`inner_dim_size` 1). Columns are separate work items writing disjoint outputs.
- The sum only. The mean and sqrt-N divisions scale every partial flush of a segment by the same count, so they do not change who writes where.
- Row `j` contributes `2^(j-1)`, so a sum tells exactly which rows it counts.
- `SparseSegmentReductionFunctor` is declared in `src/` but its body is not. The model takes from it `total_stripe_count` = ceil(N / Tile), a zero-filled output, and a launch only when there are indices.

### `SegmentSum.tla`: what the kernel promises
This is the abstract specification of a segment sum, with no stripes or work items. `out` is `<< >>` until it is allocated as zeros (`Allocate`). Then each `Add` step takes a non-empty set of rows that are not yet counted and that share one segment id `k`, and adds their weights to `out[k]` in a single step.

`SparseSegmentReduction` instantiates it as `Abs` with a refinement mapping:
- `ids` maps to `call.ids`;
- `out` maps to the kernel's output once the forward launch has happened, and to `<< >>` before it;
- `counted` maps to `CountedRows`: the rows a work item has passed, minus those still waiting in its `reduce_res`, and, during a plain flush, minus those in the loaded-but-not-stored value.

A plain flush's store, and an atomic flush, are each one `Add` of the rows they carry. Every other kernel step is a stutter. `SegmentSumRefined` (`Abs!Spec`) would fail if a load and a store of two stripes interleaved and lost an update, or if `reduce_res` was not reset after a flush: the same rows would be added twice. That every row does reach the output is already part of `KernelSum`: each row's weight is a distinct power of two, so a final sum that is exact has counted every row.

### `RaggedFillEmptyRows.tla` (with `MC_RaggedFillEmptyRows.tla`)
This module models `RaggedFillEmptyRowsGPUOp::Compute` and the host orchestration in `FillEmptyRows::operator()` (`kernels/gpu/ragged_fill_empty_rows_op.cc`).

**State:**
- `call`: `value_rowids`, `values` count and `nrows`.
- `pc`: the step of the host code reached so far, or `"error"` / `"crashed"` / `"ok"`.
- The temporaries: `count` (elements per row), `notOrdered`, `firstInvalid`, `rowEnds`, `emptyRow` and `emptyThrough` (the inclusive scan of the empty indicator).
- The outputs `outIdx` and `outVal` (value_rowids and values of the filled result), and `rev` (reverse_index_map), with the input map from the argsort.

**Actions:** one per host step, in the code's order.
- `Validate`: the length check in `Compute`.
- `EmptyDenseShape`: the `dense_rows == 0` branch.
- `CountElements`: zeroing and filling the temporaries, and the count kernel.
- `ScanRows`: the row-end scan, the empty-row indicator and its scan.
- `CheckIndices`: the copy back to the host, the `first_invalid_index` check and `AllocateOutputsExceptEmptyRowIndicator`.
- `ArgSort`: only when the rows were not ordered; a stable radix sort over `Log2Ceiling64(dense_rows)` key bits.
- `Scatter`: the input and new-element scatters.

The device kernels are modelled by their results. Their bodies are not in `src/`; the model follows what `FillEmptyRows` must compute. A write through an invalid row id is undefined, so the scatter writes nothing when any row is out of range.

**Properties:**
- `FillCorrect`: an OK return holds exactly the ragged rows in row order, a `Default` element in each empty row, the indicator, and a `reverse_index_map` that points every input to its place.
- `NRowsValidated`: an OK return never accepted a row id outside `0 .. nrows-1` (`InvalidRejected`), and no `nrows` ends the process (a negative one reaches the `TensorShape` CHECK in `CountElements`).

### `QuantizedMaxPool.tla` (with `MC_QuantizedMaxPool.tla`)
This module models `OneDnnQuantizedMaxPoolOp::Compute` (`kernels/onednn/block/quantized_maxpool_op.cc`), one call, with the failures each step can meet.

**State:**
- `call`: the input's rank, whether it has elements, whether it carries a OneDNN layout, whether `OneDnnPoolParameters::Init` accepts the attributes, and the range inputs.
- `pc`: the next step, or `"done"` / `"crashed"`.
- `status`: the context's status.
- `out`: for outputs 0, 1 and 2, `"none"` or the layout it was allocated in.
- `dstNull`: `dst_tensor` is still `nullptr` after its allocation failed.
- `minOut`, `maxOut`: what was written to outputs 1 and 2.

The range inputs are sequences of elements. `flat<float>()(0)` of an empty one reads past its buffer: the read may fault (`"crashed"`) or return garbage that is passed on.

**Actions:** `CheckInput` (rank 4 or 5), `InitParams`, `ReturnEmpty`, `CreatePrimitive`, `AllocateDst`, `Execute`, `PassRange`, and `Caught` (the `catch (dnnl::error&)` block).

**Fault model.** The constant `Faults` says which failures may happen:
- `"dnnl"`: a `dnnl::error` from a primitive call or from `execute`;
- `"temp"`: the scratchpad's `allocate_temp` fails;
- `"output"`: an `allocate_output` inside `AllocateOutputSetOneDnnShape` fails.

That helper is not in `src/`. It wraps `allocate_output` in `OP_REQUIRES_OK`, so a failure sets the status and returns with the pointer still `nullptr`, and `Compute` goes on to use it.

**Properties:**
- `PrimitiveReturnComplete`: an OK return of the primitive path has output 0 in OneDNN layout and outputs 1 and 2 holding the input range.
- `ReturnContract`: `Compute` always returns, and an OK return has allocated every output.

### `Mangling.tla` (with `MC_Mangling.tla`)
This module models `mangling_util` (`ir/importexport/mangling.cc`): how an attribute is written into MLIR and read back.

**State:** `attr` (the attribute exported: name, kind, value), `enc` (its mangled name and string), `dec` (the name, kind, value and status the import recovers), `pc`.

**Parts:**
- Strings are sequences of characters, and the four prefixes are spelled out, so `StartsWith`, `StrCat` and `substr(strlen(prefix))` act on them as in the code.
- A value's text form (`ShortDebugString`) is a sequence of tokens following the protobuf text grammar. `ParseTextProto` (not in `src/`) consumes the prefix and inverts the text form, or fails.
- Every function of the file is an operator with the source's name: `MangleAttributeName`, `IsMangledAttributeName`, `DemangleAttributeName`, `GetMangledKind`, and `Mangle`/`Demangle` for `Shape`, `Tensor` and `DataType`.

**Actions:** `ExportDataType`, `ExportShape`, `ExportTensor` (name and value mangled by the kind's function), `ImportName` (`DemangleAttributeName`: its `ITEX_DCHECK` aborts on an unmangled name when `DCheckOn`, the debug build; in either build `substr(3)` throws on a name shorter than the prefix; then the kind is read from the value's prefix), and `ImportValue` (the `Demangle` function of that kind).

**Properties:**
- `RoundTrip`: the import never aborts, and after it name, kind and value equal what was exported, with an OK status. It needs the kind prefixes to be mutually distinguishable and each `Demangle` to strip exactly its prefix.

## 3. Runs

| Run | Expect | Checks | Shows |
|---|---|---|---|
| `native_pass` | pass | `TypeOK`, `RewriteComplete`, `InputsPreserved`, `NoAbortOnDag` | Over all 3-node graphs of the model (a chain with a control edge, a graph whose index order is not topological, a cycle), every op and device mix, and three configurations (CPU with OMP, CPU without OMP with fp16, GPU): the pass rewrites exactly the nodes the registry accepts, keeps all control inputs in order and all regular inputs up to reordering (plus the workspace), and never aborts on an acyclic graph. 584k states, about two minutes. |
| `native_sessions_pass` | pass | `LookupMatchesRegistry` | One session makes three lookups under every dispatch branch: Eigen with and without the CPU entries, custom, GPU and XPU, built with the pluggable device. The nodes cover a predicate rule, an AlwaysRewrite rule, the custom op, an op no table has, and an unsupported dtype. Each lookup returns the registry's entry, even as the OMP inserts grow the Eigen vector and reallocate it. About 1.6k states. |
| `native_sessions_race` | violation | `LookupMatchesRegistry` | Two sessions, each with the OMP CPU context or the pluggable GPU context. Session 1 inserts into the Eigen vector and starts its scan; session 2 begins its own insert; session 1's next read happens under that write and returns something other than the registry's entry. |
| `remap_pass` | pass | `TypeOK`, `NoDanglingInputs`, `DataflowPreserved` | Over 2048 graphs (Cast dtypes, device, control input, paddings dtype, Pad or cast1 absent, a fetch of conv3d or of the Pad) and four preserve sets: fusions keep every input resolvable and what every observable node computes. Crash paths are reached here too. |
| `remap_unsound` | violation | `FusionSound` (`FusionPreservesGraph` and `NoCrash`) | The fusion is unsound on graphs the matcher accepts. A second Conv3D on `cast2_out`, or a fetch of `cast2_out`, loses the padding once `cast2_in` is rewired; the fused node drops conv3d's control input; a chain without a Pad passes `Check` as a partial match and `Update` then throws from `map.at("constv")`; and int64 paddings reach `flat<int32>()`. TLC reports the first it reaches; `MCSharedGraphs`, `MCCtrlGraphs` and `MCCrashGraphs` each violate it alone. |
| `segment_pass` | pass | `TypeOK`, `KernelSum`, `InBoundsWrites`, `SegmentSumRefined` | Over every sorted id vector of 1 to 6 rows over 4 segments, with `num_segments` absent or correct, `num_segments` of -1 and 0, and gradients with `output_dim0` 0 and 2, under every interleaving of the work items: each output row is exactly its segment's sum and no store leaves the output. The kernel refines `SegmentSum`. |
| `segment_unchecked_inputs` | violation | `HostValidatesInputs` (`OutputRowsDefined`, `InBoundsWrites` and `NoAbort`) | Three inputs the host code does not check. With no indices and no `num_segments`, the row count comes from reading `segment_ids[-1]`. A negative `output_dim0` reaches `set_dim` in the gradient and aborts. A `num_segments` of 17 wraps in a 4-bit `SegmentId` to 1, so one output row is allocated for ids 0 and 1 and the kernel stores past it. Each is reached alone by `MCEmptyInputs`, `MCNegativeDimInputs` and `MCWideNumSegmentsInputs`. |
| `ragged_pass` | pass | `TypeOK`, `FillCorrect` | Over every `value_rowids` of up to 4 entries over rows -1..3, in any order, and `nrows` 1..3: every OK return is the correct filled tensor. About 12k states. |
| `qpool_pass` | pass | `PrimitiveReturnComplete` | Over inputs of rank 3, 4 and 5, empty or not, in either layout, with attributes accepted or rejected, and with every dnnl, scratchpad and output-allocation failure: an OK return from the primitive path has all three outputs and passes the range through. A `dnnl::error` after output 0 exists ends in `Aborted`. |
| `qpool_contract` | violation | `ReturnContract` | An empty input returns OK with the min and max outputs never allocated. With `MCNonEmptyInput` alone, the same property shows the other failure: a failed allocation of output 0 is followed by a null dereference in `GetTensorBuffer`. An empty `min_input` (`MCEmptyRangeInput`) is read past its end. |
| `ragged_unchecked_nrows` | violation | `NRowsValidated` | `nrows` is never validated. With `nrows` 0 and non-empty `value_rowids`, the op returns OK straight from the `dense_rows == 0` branch: the index check is skipped and the outputs are never written. A negative `nrows` (`MCNegativeRowsInputs` alone) ends the process in `TensorShape`. |
| `mangling_pass` | pass | `TypeOK`, `RoundTrip` | In a debug build, every attribute of the model is mangled and demangled back to the same name, kind and value, and the import never aborts on the name. The names are empty, one character, `tf` and `tf.x` (a name that itself starts with the attribute prefix); the values are both dtypes, shapes of unknown rank or of rank 0 to 2 over sizes -1, 0 and 2, and tensors of those. 704 states. |

**Mutants.** Each property of a passing run has a mutant in `PROJECT.json`. A mutant is a variant operator placed just before the definition it replaces, named `<definition>_<bug>`. The bugs are:
- a loop index that advances twice;
- a rule match on the op name alone;
- an off-by-one in the control-input copy;
- the workspace appended after the control inputs;
- the rewire of `cast2_in` left out;
- a fused node with no paddings;
- every kernel flush made plain (non-atomic);
- `output_rows` without the `+ 1`;
- the last segment id read from the first element;
- `reduce_res` not reset after a flush;
- a reverse_index_map sized for the filled output;
- the new element placed without the `- 1`, and the radix sort given `Log2Floor` key bits;
- a rewrite rule that accepts every node;
- a catch block that swallows the `dnnl::error`;
- the prefix stripped with `sizeof` (one character too many), and `DataType_Parse` skipped.

TLC finds each one.

**Bounds.**
- Three nodes are enough for a chain, a control edge, a non-topological index order and a cycle, and for every visit-order question.
- The node kinds cover every table branch, both rule verdicts, fp16 on CPU, and off-device nodes.
- The remapper graphs are the fusion's own picture plus one extra node. That node is what gives a second consumer of the chain, a second consumer of the Pad, or a fetch.
- The ragged op runs on up to 4 elements with row ids -1..3 and `nrows` 1..3. That covers ordered and unordered ids, empty rows at either end and in the middle, ids below 0 and at `nrows`, and `dense_rows` of 1, 2 and 3. With 3 rows, `Log2Ceiling` and `Log2Floor` differ, so a wrong key width shows.
- The quantized max pool has no loop, so what needs covering is its branches. The inputs cover every rank the check tells apart, both layouts, empty and non-empty inputs, and accepted and rejected attributes. Every fault is enabled at every step that can meet it.
- The kernel runs with `Tile` 3 and work groups of 2. Six rows make two stripes, so a segment can span stripes. Three rows make one stripe and one idle work item. A stripe can hold three segments, so its middle segment takes the plain-flush path.

- The mangling names include `tf.x`, whose demangled form starts with `x` only if exactly the prefix is stripped, and the empty name. The shapes reach rank 2 so that a text form has two `dim` entries; the kind prefixes all start with `tf`, so `GetMangledKind` is exercised on strings sharing a prefix.
- `SegmentIdBits` 4 is the smallest width in which the correct runs' ids fit and a wider `num_segments` (17) truncates to a positive count.

- The sessions model uses one session with three lookups for the pass run, so that the Eigen vector is inserted into repeatedly and reallocates. The race needs two sessions and two lookups each: the first lookup writes, and the second reads a vector the other session is writing.

**Fairness.** Each pass is a single thread that runs to completion with no suspension point (spec section 5). So `WF_vars(Next)` is what the code guarantees. The kernel's work items are device threads, which all run to the end of the launch. So weak fairness of each work item's steps is justified too. No liveness property is checked: the loops are counted, so termination holds by construction, and that every row reaches the output is part of `KernelSum`. `Mangling` states no fairness. `NativeSessions` gives each session weak fairness, since each optimiser thread runs its lookup to the end.

**Visit order.** The loop visits producers before consumers, while the comment at line 432 of `native_layout.cc` and spec 4.4 say reverse topological order. Each node's rewrite depends only on that node, so the order changes nothing the pass produces; `RewriteComplete` holds for the order the code uses.

**Deadlock checking.** It is off: a finished or aborted pass really does stop.

## 4. Not modelled (yet), and the plan

1. **Done:** the native-layout pass and the `PadConv3dWithCast` fusion with its driver, which are the graph-rewrite core the spec is about. Also done: the sparse segment sum (host code and striped kernel, with a refinement of the abstract `SegmentSum`), the ragged fill-empty-rows forward op, and `OneDnnQuantizedMaxPoolOp::Compute`. Concurrent sessions sharing the native-layout static tables are done as well.
   The MLIR attribute mangling is modelled too, with the protobuf text format (not in `src/`) as an invertible grammar.
2. **Left in the modelled kernels:** the ragged gradient op, whose functor is not in `src/`. And in the sparse segment reduction: the mean and sqrt-N divisions and `SegmentWeightsKernel`.
3. **Hazards without a property:** the stale `node_name`/`op_name` references (only a log line reads them), the unchecked graph-view status, `GetGraphProperties` (no caller in `src/`), the `rank` read of `value_rowids` (its value depends on `TensorShape` internals), and `GetMangledKind` on plain string attributes (the importer is not in `src/`).
4. **Out of TLC's reach or without control logic:**
   - registration-only kernel files;
   - the flash-attention tile constants, whose documented divisibility constraints were checked by hand and hold;
   - declarations without a body in `src/`, including `onednn_post_op_util.h`, whose only code is inline getters.
