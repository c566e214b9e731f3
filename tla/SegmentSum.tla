------------------------------ MODULE SegmentSum ------------------------------
(***************************************************************************)
(* What a sparse segment sum promises, with no stripes or work items:     *)
(* the output is allocated as zeros, and then, one step at a time, a set  *)
(* of not yet counted input rows that share a segment id k is added to     *)
(* output row k.  Every row is counted eventually.                         *)
(*                                                                         *)
(* The actions are written as predicates on the next state, so that a     *)
(* refinement mapping can be checked against them; row j contributes      *)
(* 2^(j-1), as in SparseSegmentReduction.                                  *)
(***************************************************************************)
EXTENDS Integers, Sequences, FiniteSets, Functions

VARIABLES
    ids,      \* segment_ids, fixed for the call
    out,      \* output row -> value; << >> until allocated
    counted   \* input rows already added to the output

vars == <<ids, out, counted>>

Rows == 1 .. Len(ids)
Weight(S) == SumFunctionOnSet([j \in Rows |-> 2 ^ (j - 1)], S)
ZeroRows(f) == DOMAIN f = 0 .. Cardinality(DOMAIN f) - 1 /\ \A k \in DOMAIN f : f[k] = 0

Init == out = << >> /\ counted = {}

\* The output is allocated, all zeros.
Allocate ==
    /\ out = << >> /\ counted = {}
    /\ ZeroRows(out')
    /\ UNCHANGED <<ids, counted>>

\* Rows S of one segment k, none counted before, are added to row k at once.
Add ==
    /\ counted \subseteq counted'
    /\ LET S == counted' \ counted IN
       /\ S # {} /\ S \subseteq Rows
       /\ \E k \in DOMAIN out :
            /\ \A j \in S : ids[j] = k
            /\ out' = [out EXCEPT ![k] = @ + Weight(S)]
    /\ UNCHANGED ids

Next == Allocate \/ Add

Spec == Init /\ [][Next]_vars

=============================================================================
