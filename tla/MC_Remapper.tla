--------------------------- MODULE MC_Remapper ----------------------------
(***************************************************************************)
(* The graphs of the PadConv3dWithCast picture (input1 -> cast1 -> conv3d; *)
(* input2, constv -> pad -> cast2_in -> quantize -> dequantize ->           *)
(* cast2_out -> conv3d), varied in the Cast dtypes, conv3d's device and    *)
(* control input, the paddings dtype, whether the Pad and cast1 are there, *)
(* and what node 13 does.                                                  *)
(***************************************************************************)
EXTENDS Remapper

MCNode == 1..13

D(s) == [src |-> s, ctrl |-> FALSE]
C(s) == [src |-> s, ctrl |-> TRUE]

Nd(op, ins) ==
  [op |-> op, dev |-> "CPU", srcT |-> "float", dstT |-> "float", T |-> "float",
   in |-> ins, live |-> TRUE, pads |-> None]

Cast(ins, src, dst) == [Nd("Cast", ins) EXCEPT !.srcT = src, !.dstT = dst]

(* sink: "fetch_conv" reads conv3d, "fetch_pad" reads the Pad as well,    *)
(* "conv" is a second Conv3D on cast2_out and cast1.                       *)
Build(t1, t2in, t2out, dev, ctrl, padT, hasPad, hasCast1, sink) ==
  [n \in MCNode |->
    CASE n = 1  -> Nd("Placeholder", << >>)
      [] n = 2  -> Cast(<< D(1) >>, "float", t1)
      [] n = 3  -> Nd("Placeholder", << >>)
      [] n = 4  -> [Nd("Const", << >>) EXCEPT !.T = padT]
      [] n = 5  -> Nd("Pad", << D(3), D(4) >>)
      [] n = 6  -> Cast(<< D(IF hasPad THEN 5 ELSE 3) >>, t2in, "float")
      [] n = 7  -> Nd("Const", << >>)
      [] n = 8  -> Nd("Const", << >>)
      [] n = 9  -> Nd("QuantizeV2", << D(6), D(7), D(8) >>)
      [] n = 10 -> Nd("Dequantize", << D(9), D(9), D(9) >>)
      [] n = 11 -> Cast(<< D(10) >>, "float", t2out)
      [] n = 12 -> [Nd("Conv3D", << D(11), D(IF hasCast1 THEN 2 ELSE 1) >>
                                 \o (IF ctrl THEN << C(1) >> ELSE << >>))
                    EXCEPT !.dev = dev]
      [] n = 13 -> CASE sink = "fetch_conv" -> Nd("Fetch", << D(12) >>)
                     [] sink = "fetch_pad"  -> Nd("Fetch", << D(12), D(5) >>)
                     [] sink = "conv"       -> Nd("Conv3D", << D(11), D(2) >>)]

DT == {"bfloat16", "float"}

GraphsOf(sinks, ctrls) ==
  { Build(t1, t2in, t2out, dev, ctrl, padT, hasPad, hasCast1, sink) :
      t1 \in DT, t2in \in DT, t2out \in DT, dev \in {"CPU", "GPU"},
      ctrl \in ctrls, padT \in {"int32", "int64"}, hasPad \in BOOLEAN,
      hasCast1 \in BOOLEAN, sink \in sinks }

MCGraphs == GraphsOf({"fetch_conv", "fetch_pad"}, BOOLEAN)

MCPreserves == { {}, {5}, {12}, {13} }

(* cast2_out is fetched by the caller. *)
MCFetchedChain == { {}, {11} }

(* A second Conv3D reads the same quantized chain. *)
MCSharedGraphs ==
  { Build("bfloat16", "bfloat16", "bfloat16", "CPU", FALSE, "int32", TRUE, TRUE, "conv") }

(* The bfloat16 chain without a Pad. *)
MCNoPadGraphs ==
  { Build("bfloat16", "bfloat16", "bfloat16", "CPU", FALSE, "int32", FALSE, TRUE, "fetch_conv") }

(* The bfloat16 chain whose paddings are int64. *)
MCInt64Graphs ==
  { Build("bfloat16", "bfloat16", "bfloat16", "CPU", FALSE, "int64", TRUE, TRUE, "fetch_conv") }

(* The two chains that reach Update's fatal paths. *)
MCCrashGraphs == MCNoPadGraphs \cup MCInt64Graphs

(* The bfloat16 chain with a control input on conv3d. *)
MCCtrlGraphs ==
  { Build("bfloat16", "bfloat16", "bfloat16", "CPU", TRUE, "int32", TRUE, TRUE, "fetch_conv") }

(* The chains whose fusion changes the graph: a shared chain, and a *)
(* conv3d with a control input.                                      *)
MCSemanticsGraphs == MCSharedGraphs \cup MCCtrlGraphs


(* Every chain the fusion mishandles. *)
MCUnsoundGraphs == MCSemanticsGraphs \cup MCCrashGraphs

=============================================================================
