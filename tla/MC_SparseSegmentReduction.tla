---------------------- MODULE MC_SparseSegmentReduction ----------------------
EXTENDS SparseSegmentReduction

\* Non-decreasing segment id sequences of length 1..MaxRows over 0..MaxSeg.
MaxRows == 6
MaxSeg == 3
SortedIds ==
    UNION {{s \in [1 .. n -> 0 .. MaxSeg] :
              \A a \in 1 .. n - 1 : s[a] <= s[a + 1]} : n \in 1 .. MaxRows}

Reduce(s, h, m) == [op |-> "reduce", ids |-> s, hasNum |-> h, numSeg |-> m, dim0 |-> 0]
Grad(s, m) == [op |-> "grad", ids |-> s, hasNum |-> FALSE, numSeg |-> 0, dim0 |-> m]

\* Valid forward calls: ids sorted, num_segments (when given) above every id
\* or not positive; grad calls with a non-negative output_dim0.
MCInputs ==
    {Reduce(s, FALSE, 0) : s \in SortedIds}
    \cup {Reduce(s, TRUE, s[Len(s)] + 1) : s \in SortedIds}
    \cup {Reduce(<<0, 1>>, TRUE, m) : m \in {-1, 0}}
    \cup {Reduce(<< >>, TRUE, m) : m \in {0, 2}}
    \cup {Grad(<<0, 1>>, m) : m \in {0, 2}} \cup {Grad(<< >>, 2)}

\* A forward call without indices and without num_segments.
MCEmptyInputs == {Reduce(<< >>, FALSE, 0)}
MCGarbage == {-1, 0, 3}


\* A gradient with a negative output_dim0.
MCNegativeDimInputs == {Grad(<<0, 1>>, -1)}

\* An int64 num_segments of 2^SegmentIdBits + 1: as a SegmentId it is 1.
MCWideNumSegmentsInputs == {Reduce(<<0, 1>>, TRUE, 2 ^ 4 + 1)}

\* The inputs the host code does not validate.
MCUncheckedInputs == MCEmptyInputs \cup MCNegativeDimInputs \cup MCWideNumSegmentsInputs

=============================================================================
