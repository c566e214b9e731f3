------------------------- MODULE MC_QuantizedMaxPool -------------------------
EXTENDS QuantizedMaxPool

Call(d, e, l, p) ==
    [dims |-> d, elems |-> e, onednn |-> l, paramsOk |-> p, minIn |-> << -1 >>, maxIn |-> << 1 >>]

\* Inputs with and without elements, of every rank the check tells apart, in either
\* layout, with attributes Init accepts or rejects.
MCInputs == {Call(d, e, l, p) : d \in {3, 4, 5}, e \in {0, 1}, l \in BOOLEAN, p \in BOOLEAN}

\* Inputs with no elements, and one with elements that reaches every
\* allocation of the primitive path.
MCEmptyInputs == {Call(4, 0, FALSE, TRUE), Call(4, 0, TRUE, TRUE)}
MCNonEmptyInput == {Call(4, 1, FALSE, TRUE)}
\* An input with elements whose min range input is empty.
MCEmptyRangeInput == {[Call(4, 1, FALSE, TRUE) EXCEPT !.minIn = << >>]}
MCContractInputs == MCEmptyInputs \cup MCNonEmptyInput \cup MCEmptyRangeInput

MCFaults == {"dnnl", "temp", "output"}

=============================================================================
