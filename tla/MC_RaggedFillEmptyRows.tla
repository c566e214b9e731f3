----------------------- MODULE MC_RaggedFillEmptyRows -----------------------
EXTENDS RaggedFillEmptyRows

\* value_rowids of up to MaxElems entries over rows -1 .. MaxRows (so both
\* out-of-range sides occur), in any order.
MaxElems == 4
MaxRows == 3
RowIds == UNION {[1 .. n -> -1 .. MaxRows] : n \in 0 .. MaxElems}

Call(s, v, r) == [rowids |-> s, nvalues |-> v, nrows |-> r]

\* nrows from 1 to MaxRows, values of matching length, plus a length
\* mismatch and nrows 0 without elements.
MCInputs ==
    {Call(s, Len(s), r) : s \in RowIds, r \in 1 .. MaxRows}
    \cup {Call(<<0>>, 2, 1), Call(<< >>, 0, 0)}

\* nrows 0 with elements.
MCZeroRowsInputs == {Call(<<0, 1>>, 2, 0)}

\* A negative nrows.
MCNegativeRowsInputs == {Call(<<0>>, 1, -1)}

MCUncheckedNRowsInputs == MCZeroRowsInputs \cup MCNegativeRowsInputs

=============================================================================
