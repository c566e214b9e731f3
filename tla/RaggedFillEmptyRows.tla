------------------------- MODULE RaggedFillEmptyRows -------------------------
(***************************************************************************)
(* RaggedFillEmptyRowsGPUOp::Compute and the GPU FillEmptyRows functor    *)
(* with ragged operands (ragged_fill_empty_rows_op.cc).                    *)
(*                                                                         *)
(* The host validates shapes, then drives a chain of device kernels on     *)
(* one in-order stream: count the elements of each row, two inclusive      *)
(* scans, copy three scalars back, check the indices, allocate the         *)
(* outputs, sort the elements by row if they are out of order, and         *)
(* scatter the input elements and one default element per empty row.      *)
(* Each launch is one step; the host waits on every copy back, so no two   *)
(* steps overlap.                                                          *)
(*                                                                         *)
(* The device kernels, the scan and the radix sort are not in src/: their  *)
(* effect is the TensorFlow FillEmptyRows semantics.  Element i of         *)
(* `values` is the number i, the default value is Default, and an          *)
(* allocated output that nothing writes holds Unset.                       *)
(***************************************************************************)
EXTENDS Integers, Sequences, SequencesExt, Functions

CONSTANTS
    Inputs,     \* calls: [rowids, nvalues, nrows]
    Default,    \* default_value
    Unset       \* the contents of allocated, unwritten memory

VARIABLES
    call,       \* the call's inputs
    pc,         \* the host's position; "ok", "error" or "crashed" at the end
    count,      \* elements_per_row
    notOrdered, \* rows_are_not_ordered
    firstInvalid, \* first_invalid_index
    rowEnds,    \* input_row_ends
    emptyRow,   \* output 2, empty_row_indicator
    emptyThrough, \* num_empty_rows_through
    inputMap,   \* input_index_map (<< >> when it stays nullptr)
    outIdx,     \* output 0, output_indices
    outVal,     \* output 1, output_values
    rev         \* output 3, reverse_index_map

vars == <<call, pc, count, notOrdered, firstInvalid, rowEnds, emptyRow,
          emptyThrough, inputMap, outIdx, outVal, rev>>

N == Len(call.rowids)                     \* indices_num
DenseRows == call.nrows                   \* dense_shape(0)
Row(i) == call.rowids[i + 1]              \* indices(i, 0), i 0-based
Idx(n) == 0 .. n - 1
kAllIndicesValid == 2147483647            \* numeric_limits<Tindex>::max()
Uninit(n) == [k \in Idx(n) |-> Unset]

\* TensorShape({d}) CHECK-fails on a negative dimension.
ShapeAborts(d) == d < 0

\* An inclusive prefix sum (launchFullScan, is_exclusive false).
InclusiveScan(f) == [k \in DOMAIN f |-> SumFunctionOnSet(f, 0 .. k)]

\* Log2Ceiling64, and the radix sort over that many key bits: a stable sort
\* of 0..N-1 by row, looking only at the low `bits` bits of the key.
RECURSIVE Log2Floor(_)
Log2Floor(n) == IF n <= 1 THEN 0 ELSE 1 + Log2Floor(n \div 2)
Log2Ceiling(n) == IF n <= 1 THEN 0 ELSE Log2Floor(n - 1) + 1
RadixSortByRow(bits) ==
    LET key(i) == Row(i) % (2 ^ bits)
        before(a, b) == key(a) < key(b) \/ (key(a) = key(b) /\ a < b)
        s == SetToSortSeq(Idx(N), before)
    IN [k \in Idx(N) |-> s[k + 1]]

\* AllocateOutputsExceptEmptyRowIndicator: outputs 0 and 1 hold N_full
\* elements, reverse_index_map (output 3) holds indices_num.
AllocateOutputs_RevFull(full) ==
    /\ outIdx' = Uninit(full) /\ outVal' = Uninit(full) /\ rev' = Uninit(full)
AllocateOutputs(full) ==
    /\ outIdx' = Uninit(full) /\ outVal' = Uninit(full) /\ rev' = Uninit(N)

-----------------------------------------------------------------------------
(* Compute: the shape checks; only the length check is about values. *)
Validate ==
    /\ pc = "compute"
    /\ pc' = IF N = call.nvalues THEN "functor" ELSE "error"
    /\ UNCHANGED <<call, count, notOrdered, firstInvalid, rowEnds, emptyRow,
                   emptyThrough, inputMap, outIdx, outVal, rev>>

\* dense_rows == 0: the outputs are allocated for indices_num elements and
\* the call returns OK at once.
EmptyDenseShape ==
    /\ pc = "functor" /\ DenseRows = 0
    /\ AllocateOutputs(N)
    /\ emptyRow' = Uninit(0)
    /\ pc' = "ok"
    /\ UNCHANGED <<call, count, notOrdered, firstInvalid, rowEnds,
                   emptyThrough, inputMap>>

\* Temporaries are allocated and cleared, then CountElementsPerRow runs if
\* there are indices: per-row counts, whether a row id decreases, and the
\* first index whose row is outside [0, dense_rows).
Invalid(i) == Row(i) < 0 \/ Row(i) >= DenseRows
CountElements ==
    /\ pc = "functor" /\ DenseRows # 0
    /\ IF ShapeAborts(DenseRows)
         THEN pc' = "crashed" /\ UNCHANGED <<count, notOrdered, firstInvalid>>
         ELSE LET bad == {i \in Idx(N) : Invalid(i)} IN
              /\ count' = [r \in Idx(DenseRows) |->
                             Cardinality({i \in Idx(N) : Row(i) = r})]
              /\ notOrdered' = (\E i \in 1 .. N - 1 : Row(i) < Row(i - 1))
              /\ firstInvalid' = IF bad = {} THEN kAllIndicesValid
                                 ELSE CHOOSE i \in bad : \A b \in bad : i <= b
              /\ pc' = "scan"
    /\ UNCHANGED <<call, rowEnds, emptyRow, emptyThrough, inputMap, outIdx, outVal, rev>>

\* input_row_ends, empty_row_indicator (output 2) and num_empty_rows_through.
EmptyIndicator(c) == [r \in DOMAIN c |-> IF c[r] = 0 THEN 1 ELSE 0]
ScanRows ==
    /\ pc = "scan"
    /\ rowEnds' = InclusiveScan(count)
    /\ emptyRow' = EmptyIndicator(count)
    /\ emptyThrough' = InclusiveScan(EmptyIndicator(count))
    /\ pc' = "copyback"
    /\ UNCHANGED <<call, count, notOrdered, firstInvalid, inputMap, outIdx, outVal, rev>>

\* The three scalars are copied to the host; an invalid index is an
\* InvalidArgument error; otherwise outputs 0, 1 and 3 are allocated for
\* indices_num + num_empty_rows elements.
IndicesChecked == firstInvalid = kAllIndicesValid
CheckIndices ==
    /\ pc = "copyback"
    /\ IF ~IndicesChecked
         THEN pc' = "error" /\ UNCHANGED <<outIdx, outVal, rev>>
         ELSE LET full == N + emptyThrough[DenseRows - 1] IN
              /\ AllocateOutputs(full)
              /\ pc' = IF notOrdered THEN "argsort" ELSE "scatter"
    /\ UNCHANGED <<call, count, notOrdered, firstInvalid, rowEnds, emptyRow,
                   emptyThrough, inputMap>>

ArgSortByRows_FloorBits == RadixSortByRow(Log2Floor(DenseRows))
ArgSortByRows == RadixSortByRow(Log2Ceiling(DenseRows))
ArgSort ==
    /\ pc = "argsort"
    /\ inputMap' = ArgSortByRows
    /\ pc' = "scatter"
    /\ UNCHANGED <<call, count, notOrdered, firstInvalid, rowEnds, emptyRow,
                   emptyThrough, outIdx, outVal, rev>>

\* ScatterInputElements (if indices_num > 0) then ScatterNewElements:
\* the k-th element in row order goes to k + num_empty_rows_through[row];
\* an empty row r gets a default at row_begin + num_empty_rows_through[r] - 1.
\* A row outside [0, dense_rows) (only past a missing index check) makes
\* the kernels read and write out of bounds; nothing defined is written.
InputAt(k) == IF inputMap = << >> THEN k ELSE inputMap[k]
InputPos(k) == k + emptyThrough[Row(InputAt(k))]
RowBegin(r) == IF r = 0 THEN 0 ELSE rowEnds[r - 1]
NewPos_NoMinusOne(r) == RowBegin(r) + emptyThrough[r]
NewPos(r) == RowBegin(r) + emptyThrough[r] - 1
Scatter ==
    /\ pc = "scatter"
    /\ IF \E k \in Idx(N) : Invalid(InputAt(k))
         THEN UNCHANGED <<outIdx, outVal, rev>>
         ELSE LET inPos == {InputPos(k) : k \in Idx(N)}
              newRows == {r \in Idx(DenseRows) : emptyRow[r] = 1}
              atNew(p) == CHOOSE r \in newRows : NewPos(r) = p
              atIn(p) == CHOOSE k \in Idx(N) : InputPos(k) = p
          IN
          /\ outIdx' = [p \in DOMAIN outIdx |->
                         IF p \in inPos THEN Row(InputAt(atIn(p)))
                         ELSE IF \E r \in newRows : NewPos(r) = p THEN atNew(p)
                         ELSE outIdx[p]]
          /\ outVal' = [p \in DOMAIN outVal |->
                         IF p \in inPos THEN InputAt(atIn(p))
                         ELSE IF \E r \in newRows : NewPos(r) = p THEN Default
                         ELSE outVal[p]]
          /\ rev' = [i \in DOMAIN rev |->
                      InputPos(CHOOSE k \in Idx(N) : InputAt(k) = i)]
    /\ pc' = "ok"
    /\ UNCHANGED <<call, count, notOrdered, firstInvalid, rowEnds, emptyRow,
                   emptyThrough, inputMap>>

Init ==
    /\ call \in Inputs
    /\ pc = "compute"
    /\ count = << >> /\ notOrdered = FALSE /\ firstInvalid = kAllIndicesValid
    /\ rowEnds = << >> /\ emptyRow = << >> /\ emptyThrough = << >>
    /\ inputMap = << >> /\ outIdx = << >> /\ outVal = << >> /\ rev = << >>

Next ==
    \/ Validate
    \/ EmptyDenseShape
    \/ CountElements
    \/ ScanRows
    \/ CheckIndices
    \/ ArgSort
    \/ Scatter

Spec == Init /\ [][Next]_vars /\ WF_vars(Next)

-----------------------------------------------------------------------------
(* Properties *)

TypeOK ==
    /\ pc \in {"compute", "functor", "scan", "copyback", "argsort", "scatter",
               "ok", "error", "crashed"}
    /\ notOrdered \in BOOLEAN
    /\ pc \in {"argsort", "scatter", "ok"} =>
         /\ DOMAIN rev = Idx(N)
         /\ DOMAIN outIdx = DOMAIN outVal

\* The reference result, written from the FillEmptyRows contract: rows in
\* order; each row's elements in input order, or one default element for an
\* empty row.
RowElements(r) == SelectSeq([k \in 1 .. N |-> k - 1], LAMBDA i : Row(i) = r)
RowBlock(r) ==
    IF RowElements(r) = << >> THEN << [row |-> r, val |-> Default] >>
    ELSE [k \in 1 .. Len(RowElements(r)) |-> [row |-> r, val |-> RowElements(r)[k]]]
Filled == FlattenSeq([k \in 1 .. DenseRows |-> RowBlock(k - 1)])

\* Whenever the call returns OK, outputs 0 and 1 are exactly the filled
\* ragged rows (no Unset entry left), output 2 marks exactly the empty rows,
\* and reverse_index_map sends each input element to its place in them,
\* whether or not the rows had to be sorted first.
FillCorrect ==
    pc = "ok" =>
        /\ Len(Filled) = Cardinality(DOMAIN outIdx)
        /\ \A p \in DOMAIN outIdx :
             outIdx[p] = Filled[p + 1].row /\ outVal[p] = Filled[p + 1].val
        /\ \A r \in Idx(DenseRows) : emptyRow[r] = IF RowElements(r) = << >> THEN 1 ELSE 0
        /\ \A i \in DOMAIN rev : rev[i] \in DOMAIN outVal /\ outVal[rev[i]] = i

\* The op returns OK only when every value_rowids entry names a row in
\* [0, nrows): an out-of-range row is an InvalidArgument error.
InvalidRejected ==
    pc = "ok" => \A i \in Idx(N) : ~Invalid(i)


\* Compute checks the shapes of its inputs but never the value of nrows:
\* the op rejects an out-of-range row id with an error and ends every call
\* with a status, never in a CHECK failure.  With nrows 0 the functor
\* returns before the index check; a negative nrows reaches
\* TensorShape({dense_rows}) for the temporaries and aborts.
NRowsValidated == InvalidRejected /\ pc # "crashed"

=============================================================================
