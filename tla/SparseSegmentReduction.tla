------------------------- MODULE SparseSegmentReduction -------------------------
(***************************************************************************)
(* The GPU sparse segment reduction: the host side of                     *)
(* SparseSegmentReductionOpBase::Compute and SparseSegmentGradOpBase::     *)
(* Compute (sparse_segment_reduction_ops.h), and the striped reduction     *)
(* SortedSegmentKernel launched by LaunchSortedSegmentKernel               *)
(* (sparse_segment_reduction_util.h).                                      *)
(*                                                                         *)
(* Each work item of the kernel is a process.  It reduces a stripe of      *)
(* Tile consecutive rows of segment_ids into a private reduce_res and      *)
(* flushes it to output[segment] whenever the segment id grows: with an    *)
(* atomic add for the stripe's first segment and at the end, with a plain  *)
(* load-add-store otherwise.  The plain flush is two steps (load, store),  *)
(* so other work items may interleave with it.                             *)
(*                                                                         *)
(* Data: inner_dim_size is 1 (columns are independent work items that      *)
(* touch disjoint outputs), the reduction is the sum, and the value        *)
(* gathered for row j is 2^(j-1), so every sum names the rows it counts.   *)
(***************************************************************************)
EXTENDS Integers, Sequences, FiniteSets

CONSTANTS
    Tile,           \* OuterDimTileSize
    WorkGroupSize,  \* max_work_group_size of the device
    Inputs,         \* calls: [op, ids, hasNum, numSeg, dim0]
    Garbage,        \* SegmentId values an out-of-bounds device read may yield
    SegmentIdBits   \* the width of SegmentId; num_segments may be wider

ASSUME Tile \in Nat \ {0} /\ WorkGroupSize \in Nat \ {0} /\ SegmentIdBits \in Nat \ {0}

VARIABLES
    call,   \* the call's inputs
    pc,     \* "host", "kernel", "done", "error" (OP_REQUIRES failed) or "crashed"
    rows,   \* output_rows, the first dimension given to set_dim
    out,    \* the float output, row -> value
    oob,    \* TRUE once a flush wrote outside the allocated output
    ipc,    \* work item -> "exit", "loop", "write" or "done"
    ij,     \* work item -> loop counter j
    res,    \* work item -> reduce_res
    last,   \* work item -> last_output_segment_id
    wt,     \* work item -> output index of a plain flush between load and store
    wv      \* work item -> the value that plain flush will store

vars == <<call, pc, rows, out, oob, ipc, ij, res, last, wt, wv>>

N == Len(call.ids)                    \* indices.NumElements()
Contribution(j) == 2 ^ (j - 1)        \* input[indices[j]] of row j (1-based)
Total == 2 ^ N - 1

-----------------------------------------------------------------------------
(* Host side of the forward op. *)

\* A conversion or an arithmetic result stored in a SegmentId: two's
\* complement wrap-around to SegmentIdBits bits.
ToSegmentId(v) ==
    LET h == 2 ^ (SegmentIdBits - 1) IN ((v + h) % (2 * h)) - h

\* last_segment_id_host: num_segments (int32 or int64, copied into a
\* SegmentId) - 1, or the device copy of
\* segment_ids[num_indices - 1], which reads before the buffer when there
\* are no indices.
NumSegmentsLast(c) == ToSegmentId(ToSegmentId(c.numSeg) - 1)
LastSegmentId_First(c) == c.ids[1]
LastSegmentId(c) == c.ids[Len(c.ids)]
LastSegmentIds(c) ==
    IF c.hasNum THEN {NumSegmentsLast(c)}
    ELSE IF c.ids = << >> THEN Garbage
    ELSE {LastSegmentId(c)}

OutputRows_NoPlusOne(l) == l
OutputRows(l) == ToSegmentId(l + 1)

RowsOK(r) == r > 0                    \* OP_REQUIRES(output_rows > 0)

\* TensorShape::set_dim CHECK-fails on a negative size.
SetDimAborts(r) == r < 0

\* SparseSegmentReductionFunctor (not in src/): total_stripe_count for
\* inner_dim_size 1, and the launch grid rounded up to whole work groups.
TotalStripes == (N + Tile - 1) \div Tile
GlobalSize == ((TotalStripes + WorkGroupSize - 1) \div WorkGroupSize) * WorkGroupSize
Item == 0 .. GlobalSize - 1

Base(i) == i * Tile                               \* input_outer_dim_index_base
Height(i) == IF Tile < N - Base(i) THEN Tile ELSE N - Base(i)
FirstSegment(i) == call.ids[Base(i) + 1]          \* first_segment_id

Launch(r) ==
    /\ ipc' = [i \in Item |-> IF i >= TotalStripes THEN "exit" ELSE "loop"]
    /\ ij' = [i \in Item |-> 0]
    /\ res' = [i \in Item |-> 0]                  \* initial_value
    /\ last' = [i \in Item |-> r]                 \* output_outer_dim_size
    /\ wt' = [i \in Item |-> 0]
    /\ wv' = [i \in Item |-> 0]

Compute ==
    /\ pc = "host" /\ call.op = "reduce"
    /\ \E l \in LastSegmentIds(call) :
         LET r == OutputRows(l) IN
         IF ~RowsOK(r) \/ SetDimAborts(r)
           THEN /\ pc' = IF ~RowsOK(r) THEN "error" ELSE "crashed"
                /\ UNCHANGED <<rows, out, ipc, ij, res, last, wt, wv>>
           ELSE /\ rows' = r
                /\ out' = [k \in 0 .. r - 1 |-> 0]
                /\ Launch(r)
                /\ pc' = IF N = 0 THEN "done" ELSE "kernel"
    /\ UNCHANGED <<call, oob>>

\* The gradient: M comes from output_dim0 with no sign check; the functor
\* is skipped when M or N is zero.  Its kernel is not in src/.
GradCompute ==
    /\ pc = "host" /\ call.op = "grad"
    /\ IF SetDimAborts(call.dim0)
         THEN pc' = "crashed" /\ UNCHANGED <<rows, out>>
         ELSE /\ rows' = call.dim0
              /\ out' = [k \in 0 .. call.dim0 - 1 |-> 0]
              /\ pc' = "done"
    /\ UNCHANGED <<call, oob, ipc, ij, res, last, wt, wv>>

-----------------------------------------------------------------------------
(* The kernel: one work item per stripe. *)

\* reduce_res after a flush is reset to initial_value.
ResAfter_NoReset(flush, r) == r
ResAfter(flush, r) == IF flush THEN 0 ELSE r

FlushIsAtomic_Never(l, f) == FALSE
FlushIsAtomic(l, f) == l = f          \* last_output_segment_id == first_segment_id

\* A store to output row k; a row outside the allocation is recorded.
Store(k, v) ==
    /\ out' = IF k \in DOMAIN out THEN [out EXCEPT ![k] = v] ELSE out
    /\ oob' = (oob \/ k \notin DOMAIN out)
Load(k) == IF k \in DOMAIN out THEN out[k] ELSE 0

\* Work items with id >= total_stripe_count return at once.
ExitItem(i) ==
    /\ pc = "kernel" /\ ipc[i] = "exit"
    /\ ipc' = [ipc EXCEPT ![i] = "done"]
    /\ UNCHANGED <<call, pc, rows, out, oob, ij, res, last, wt, wv>>

\* One iteration of the j loop.  When the segment id grows, reduce_res is
\* flushed to the previous segment and reset; then row j is added.  A plain
\* flush loads here and stores in WriteBack.
Iterate(i) ==
    LET j == ij[i]
        cur == call.ids[Base(i) + j + 1]
        l == last[i]
        flush == cur > l
        atomic == FlushIsAtomic(l, FirstSegment(i))
    IN
    /\ pc = "kernel" /\ ipc[i] = "loop" /\ j < Height(i)
    /\ IF flush /\ atomic THEN Store(l, Load(l) + res[i])
                          ELSE UNCHANGED <<out, oob>>
    /\ ipc' = IF flush /\ ~atomic THEN [ipc EXCEPT ![i] = "write"] ELSE ipc
    /\ wt' = IF flush /\ ~atomic THEN [wt EXCEPT ![i] = l] ELSE wt
    /\ wv' = IF flush /\ ~atomic THEN [wv EXCEPT ![i] = Load(l) + res[i]] ELSE wv
    /\ res' = [res EXCEPT ![i] = ResAfter(flush, @) + Contribution(Base(i) + j + 1)]
    /\ last' = [last EXCEPT ![i] = cur]
    /\ ij' = [ij EXCEPT ![i] = j + 1]
    /\ UNCHANGED <<call, pc, rows>>

\* The store half of reduction_op(output + output_index, &reduce_res).
WriteBack(i) ==
    /\ pc = "kernel" /\ ipc[i] = "write"
    /\ Store(wt[i], wv[i])
    /\ ipc' = [ipc EXCEPT ![i] = "loop"]
    /\ UNCHANGED <<call, pc, rows, ij, res, last, wt, wv>>

\* After the loop: atom_reduction_op on the last segment.
FinalFlush(i) ==
    /\ pc = "kernel" /\ ipc[i] = "loop" /\ ij[i] = Height(i)
    /\ Store(last[i], Load(last[i]) + res[i])
    /\ ipc' = [ipc EXCEPT ![i] = "done"]
    /\ UNCHANGED <<call, pc, rows, ij, res, last, wt, wv>>

\* The host returns once the kernel has completed.
KernelDone ==
    /\ pc = "kernel" /\ \A i \in Item : ipc[i] = "done"
    /\ pc' = "done"
    /\ UNCHANGED <<call, rows, out, oob, ipc, ij, res, last, wt, wv>>

Init ==
    /\ call \in Inputs
    /\ pc = "host"
    /\ rows = 0 /\ out = << >> /\ oob = FALSE
    /\ ipc = << >> /\ ij = << >> /\ res = << >> /\ last = << >>
    /\ wt = << >> /\ wv = << >>

Next ==
    \/ Compute
    \/ GradCompute
    \/ KernelDone
    \/ \E i \in Item : ExitItem(i)
    \/ \E i \in Item : Iterate(i)
    \/ \E i \in Item : WriteBack(i)
    \/ \E i \in Item : FinalFlush(i)

\* Work items of a launched kernel all make progress.
Spec == Init /\ [][Next]_vars /\ WF_vars(Next)

-----------------------------------------------------------------------------
(* Properties *)

\* Type: the counters stay within the stripe, and a work item's segment id
\* stays within output_outer_dim_size, so every flush is a row of output.
TypeOK ==
    /\ pc \in {"host", "kernel", "done", "error", "crashed"}
    /\ oob \in BOOLEAN
    /\ pc = "kernel" =>
         \A i \in Item :
           /\ ipc[i] \in {"exit", "loop", "write", "done"}
           /\ ij[i] \in 0 .. Tile
           /\ res[i] \in 0 .. Total
           /\ last[i] \in 0 .. rows

\* The reference: output row k is the sum of the rows whose segment id is k.
SegmentSum(k) ==
    LET S == {j \in 1 .. N : call.ids[j] = k}
        RECURSIVE SumOver(_)
        SumOver(T) == IF T = {} THEN 0
                      ELSE LET j == CHOOSE x \in T : TRUE
                           IN Contribution(j) + SumOver(T \ {j})
    IN SumOver(S)

\* When the kernel has finished, every output row holds exactly the sum of
\* its segment, whatever the order in which the stripes' flushes ran: no
\* plain load-add-store of one work item loses an atomic add of another.
KernelSum ==
    pc = "done" /\ call.op = "reduce" =>
        \A k \in DOMAIN out : out[k] = SegmentSum(k)

\* No flush of any work item writes outside the rows set_dim allocated.
InBoundsWrites == ~oob

\* A successful forward call has num_segments rows, or one more than the
\* last segment id, or none when there are no indices.
ExpectedRows(c) ==
    IF c.hasNum THEN c.numSeg
    ELSE IF c.ids = << >> THEN 0 ELSE c.ids[Len(c.ids)] + 1
OutputRowsDefined ==
    pc = "done" /\ call.op = "reduce" => rows = ExpectedRows(call)

\* The refinement mapping onto SegmentSum.  A row is counted once its
\* contribution has been stored to the output: rows a work item has
\* passed, minus those still in its reduce_res (the rows of its current
\* segment, until the final flush) and those of a plain flush that has
\* loaded but not yet stored.
Passed(i) == {Base(i) + j : j \in 1 .. ij[i]}
Pending(i) ==
    {r \in Passed(i) :
        \/ ipc[i] \in {"loop", "write"} /\ call.ids[r] = last[i]
        \/ ipc[i] = "write" /\ call.ids[r] = wt[i]}
Launched == call.op = "reduce" /\ pc \in {"kernel", "done"}
CountedRows ==
    IF Launched THEN UNION {Passed(i) \ Pending(i) : i \in Item} ELSE {}
Abs == INSTANCE SegmentSum WITH
    ids <- call.ids,
    out <- IF Launched THEN out ELSE << >>,
    counted <- CountedRows

\* The striped kernel implements SegmentSum: every store to the output,
\* atomic or the store half of a plain load-add-store, adds exactly the
\* rows it flushes to what the row holds at that moment, so no flush of
\* one work item overwrites the add of another.
SegmentSumRefined == Abs!Spec

\* Neither Compute ends in a CHECK failure: bad shapes end in an
\* InvalidArgument status.
NoAbort == pc # "crashed"

\* The host code validates what it reads before it uses it: every call ends
\* in an error status or in an output whose row count is defined by the
\* inputs, never in a CHECK failure.  Compute reads segment_ids[-1] when
\* there are no indices; GradCompute passes output_dim0 to set_dim unchecked;
\* an int64 num_segments is truncated into a narrower SegmentId, and the
\* kernel then writes the rows of larger segment ids outside the output.
HostValidatesInputs == OutputRowsDefined /\ InBoundsWrites /\ NoAbort

=============================================================================
