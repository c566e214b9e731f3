--------------------------- MODULE QuantizedMaxPool ---------------------------
(***************************************************************************)
(* OneDnnQuantizedMaxPoolOp::Compute (quantized_maxpool_op.cc): one call  *)
(* of the kernel, step by step, with the failures each step can meet.     *)
(*                                                                         *)
(* The op has three outputs: 0 the pooled tensor, 1 and 2 the min and max *)
(* of its quantization range, passed through from inputs 1 and 2.  Shapes *)
(* are abstracted to the input's rank, whether it has elements, whether   *)
(* it carries a OneDNN layout and whether OneDnnPoolParameters::Init       *)
(* accepts the attributes.  The range inputs are the sequences of their   *)
(* elements: flat<float>()(0) of an empty one reads past its buffer.      *)
(*                                                                         *)
(* Faults is the set of failures a model lets happen:                      *)
(*   "dnnl"   a dnnl::error thrown by a primitive call or by execute;      *)
(*   "temp"   allocate_temp of the scratchpad fails;                       *)
(*   "output" an allocate_output inside AllocateOutputSetOneDnnShape fails.*)
(* AllocateOutputSetOneDnnShape is not in src/: it wraps allocate_output   *)
(* in OP_REQUIRES_OK, so on failure it sets the error status and returns   *)
(* with the output pointer still nullptr, and Compute carries on.          *)
(***************************************************************************)
EXTENDS Integers

CONSTANTS
    Inputs,   \* calls: [dims, elems, onednn, paramsOk, minIn, maxIn]; minIn
              \* and maxIn are the elements of inputs 1 and 2
    Faults,   \* a subset of {"dnnl", "temp", "output"}
    Unset     \* an output that was never written

ASSUME Faults \subseteq {"dnnl", "temp", "output"}

VARIABLES
    call,     \* the call's inputs
    pc,       \* the next step of Compute; "done" or "crashed" at the end
    status,   \* the context's status
    out,      \* output index -> "none", "tf" or "onednn" (its layout)
    dstNull,  \* dst_tensor is still nullptr after its allocation
    minOut,   \* the value written to output 1
    maxOut    \* the value written to output 2

vars == <<call, pc, status, out, dstNull, minOut, maxOut>>

kDstIndex == 0
kDstMinRangeIndex == 1
kDstMaxRangeIndex == 2
OutputIdx == {kDstIndex, kDstMinRangeIndex, kDstMaxRangeIndex}

\* A return from Compute with the status s.
Return(s) == pc' = "done" /\ status' = s

\* flat<float>()(0): the first element; of an empty tensor, whose buffer
\* is nullptr, the read faults or yields whatever the address holds.
ReadsFault(t) == t = << >>
ReadScalar(t) == IF t = << >> THEN {"garbage"} ELSE {t[1]}

\* AllocateOutputSetOneDnnShape(context, i, ...) that succeeds.
Allocated(i, layout) == out' = [out EXCEPT ![i] = layout]

\* Input 0 must be 4- or 5-dimensional.
CheckInput ==
    /\ pc = "input"
    /\ IF call.dims \in {4, 5}
         THEN pc' = "params" /\ UNCHANGED status
         ELSE Return("invalid_argument")
    /\ UNCHANGED <<call, out, dstNull, minOut, maxOut>>

\* pool_params.Init records bad attributes in the context's status.
InitParams ==
    /\ pc = "params"
    /\ IF call.paramsOk
         THEN pc' = "empty" /\ UNCHANGED status
         ELSE Return("invalid_argument")
    /\ UNCHANGED <<call, out, dstNull, minOut, maxOut>>

\* Nothing to compute: output 0 is allocated in TF layout and Compute
\* returns.  Outputs 1 and 2 are left alone.
ReturnEmpty ==
    /\ pc = "empty" /\ call.elems = 0
    /\ \/ Allocated(kDstIndex, "tf") /\ Return("ok")
       \/ "output" \in Faults /\ Return("resource_exhausted") /\ UNCHANGED out
    /\ UNCHANGED <<call, dstNull, minOut, maxOut>>

\* The memory descriptors, the primitive descriptor, the scratchpad and the
\* primitive.  A dnnl::error goes to the catch block; a failed allocate_temp
\* returns through OP_REQUIRES_OK.
CreatePrimitive ==
    /\ pc = "empty" /\ call.elems # 0
    /\ \/ pc' = "allocate" /\ UNCHANGED status
       \/ "dnnl" \in Faults /\ pc' = "catch" /\ UNCHANGED status
       \/ "temp" \in Faults /\ Return("resource_exhausted")
    /\ UNCHANGED <<call, out, dstNull, minOut, maxOut>>

\* Output 0 takes the primitive's dst layout.  A failed allocation leaves
\* dst_tensor nullptr, and nothing checks the status before its use.
AllocateDst ==
    /\ pc = "allocate"
    /\ pc' = "execute"
    /\ \/ Allocated(kDstIndex, "onednn") /\ UNCHANGED <<status, dstNull>>
       \/ /\ "output" \in Faults
          /\ status' = "resource_exhausted" /\ dstNull' = TRUE
          /\ UNCHANGED out
    /\ UNCHANGED <<call, minOut, maxOut>>

\* GetTensorBuffer<T>(dst_tensor) and the primitive's execution.
Execute ==
    /\ pc = "execute"
    /\ IF dstNull
         THEN pc' = "crashed"
         ELSE \/ pc' = "range"
              \/ "dnnl" \in Faults /\ pc' = "catch"
    /\ UNCHANGED <<call, status, out, dstNull, minOut, maxOut>>

\* min_input and max_input are read from inputs 1 and 2; then outputs 1
\* and 2 are allocated in turn and written through their pointers; a
\* failed allocation leaves the pointer nullptr.
PassRange ==
    /\ pc = "range"
    /\ \/ /\ ReadsFault(call.minIn) \/ ReadsFault(call.maxIn)
          /\ pc' = "crashed"
          /\ UNCHANGED <<status, out, minOut, maxOut>>
       \/ \E mn \in ReadScalar(call.minIn), mx \in ReadScalar(call.maxIn) :
          \/ /\ out' = [out EXCEPT ![kDstMinRangeIndex] = "tf",
                                   ![kDstMaxRangeIndex] = "tf"]
             /\ minOut' = mn /\ maxOut' = mx
             /\ Return(status)
          \/ /\ "output" \in Faults
             /\ status' = "resource_exhausted" /\ pc' = "crashed"
             /\ UNCHANGED <<out, minOut, maxOut>>
          \/ /\ "output" \in Faults
             /\ Allocated(kDstMinRangeIndex, "tf")
             /\ status' = "resource_exhausted" /\ pc' = "crashed"
             /\ UNCHANGED <<minOut, maxOut>>
    /\ UNCHANGED <<call, dstNull>>

\* catch (dnnl::error& e): the exception becomes an Aborted status.
Caught_Swallowed ==
    pc = "catch" /\ Return(status) /\ UNCHANGED <<call, out, dstNull, minOut, maxOut>>
Caught ==
    /\ pc = "catch"
    /\ Return("aborted")
    /\ UNCHANGED <<call, out, dstNull, minOut, maxOut>>

Init ==
    /\ call \in Inputs
    /\ pc = "input" /\ status = "ok"
    /\ out = [i \in OutputIdx |-> "none"]
    /\ dstNull = FALSE
    /\ minOut = Unset /\ maxOut = Unset

Next ==
    \/ CheckInput \/ InitParams \/ ReturnEmpty \/ CreatePrimitive
    \/ AllocateDst \/ Execute \/ PassRange \/ Caught

Spec == Init /\ [][Next]_vars /\ WF_vars(Next)

-----------------------------------------------------------------------------

\* An OK return through the primitive path has written all three outputs:
\* output 0 in the primitive's layout and the range passed through.  A
\* dnnl::error thrown after output 0 exists must not end in OK.
PrimitiveReturnComplete ==
    (pc = "done" /\ status = "ok" /\ call.elems # 0) =>
        /\ out = [i \in OutputIdx |-> IF i = kDstIndex THEN "onednn" ELSE "tf"]
        /\ <<minOut>> = call.minIn /\ <<maxOut>> = call.maxIn

\* The kernel's contract with the executor: Compute returns (it does not
\* end the process), and when it returns OK every output is allocated.
\* Nothing checks that the range inputs hold an element before the reads.
ReturnContract ==
    /\ pc # "crashed"
    /\ pc = "done" /\ status = "ok" => \A i \in OutputIdx : out[i] # "none"

=============================================================================
