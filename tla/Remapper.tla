------------------------------ MODULE Remapper ------------------------------
(***************************************************************************)
(* The remapper (fusion) pass with its one fusion in src/, PadConv3dWithCast *)
(* (src/itex/core/graph/remapper/pad_conv3d_with_cast_pattern.cc).        *)
(*                                                                         *)
(* The driver (RunRemapper, declared in remapper.h) walks node indices in  *)
(* forward order, skips removed and preserved nodes, and runs each fusion's *)
(* Check and, on a match, its Update.  Check runs the pattern matcher      *)
(* FillProperties over the fusion's OpTypePattern and then the fusion's own *)
(* device and Cast-dtype conditions; Update builds the fused node, rewires  *)
(* cast2_in past the Pad and applies the mutation.  The driver, the matcher *)
(* and the mutation builder are not in src/ and follow the spec (sections  *)
(* 4.1 to 4.3); Check and Update follow the source.                        *)
(***************************************************************************)
EXTENDS Integers, Sequences, SequencesExt, FiniteSets

CONSTANTS
  Node,        \* indices of the GraphDef's nodes, 1..N
  Graphs,      \* the GraphDefs the pass may be handed
  Preserves    \* the nodes_to_preserve sets it may be handed

ASSUME Node = 1..Cardinality(Node)

VARIABLES
  graph,     \* the mutable GraphDef: Node -> node record
  orig,      \* the GraphDef handed to the pass (history variable)
  preserve,  \* ctx.nodes_to_preserve
  idx,       \* the driver's node index
  pc         \* "loop", "done" or "crashed" (an exception or a CHECK failure)

vars == <<graph, orig, preserve, idx, pc>>

None == 0   \* no node

(***************************************************************************)
(* A node: op, device, the Cast attributes SrcT/DstT, the dtype of a Const *)
(* tensor, its input list ([src, ctrl], regular inputs first), whether it  *)
(* is still in the graph, and, for the fused node, the Const whose values  *)
(* became its explicit_paddings.                                           *)
(***************************************************************************)
Input == [src : Node, ctrl : BOOLEAN]

DataInputs(in) == SelectSeq(in, LAMBDA e : ~e.ctrl)
ControlInputs(in) == SelectSeq(in, LAMBDA e : e.ctrl)

-----------------------------------------------------------------------------
(***************************************************************************)
(* The OpTypePattern of PadConv3dWithCast: label -> [op, status, inputs].  *)
(* nsame marks AddNSameInput: every input of the node comes from the one  *)
(* node that matches the child.                                            *)
(***************************************************************************)
P(op, status, kids, nsame) ==
  [op |-> op, status |-> status, kids |-> kids, nsame |-> nsame]

Pattern ==
  ("input1"        :> P("*", "kRemain", << >>, FALSE)) @@
  ("cast1"         :> P("Cast", "kRemain", <<"input1">>, FALSE)) @@
  ("input2"        :> P("*", "kRemain", << >>, FALSE)) @@
  ("constv"        :> P("Const", "kRemain", << >>, FALSE)) @@
  ("pad"           :> P("Pad", "kRemove", <<"input2", "constv">>, FALSE)) @@
  ("const_min"     :> P("Const", "kRemain", << >>, FALSE)) @@
  ("const_max"     :> P("Const", "kRemain", << >>, FALSE)) @@
  ("cast2_in"      :> P("Cast", "kRemain", <<"pad">>, FALSE)) @@
  ("quantize"      :> P("QuantizeV2", "kRemain",
                        <<"cast2_in", "const_min", "const_max">>, FALSE)) @@
  ("dequantize"    :> P("Dequantize", "kRemain", <<"quantize">>, TRUE)) @@
  ("cast2_out"     :> P("Cast", "kRemain", <<"dequantize">>, FALSE)) @@
  ("conv3d_output" :> P("Conv3D", "kReplace", <<"cast2_out", "cast1">>, FALSE))

Root == "conv3d_output"

(* The constructor sets is_partial_ = true. *)
is_partial_ == TRUE

-----------------------------------------------------------------------------
(***************************************************************************)
(* FillProperties (spec 4.1): top-down structural match.  A map from labels *)
(* to nodes; the empty map is "no match".  A child is the node feeding the *)
(* data input at the child's position (or all inputs, for AddNSameInput).  *)
(* Without partial matching a failing child fails the whole match; with    *)
(* it the node keeps the prefix of children that matched.                  *)
(***************************************************************************)
OpMatches(op, nd) == nd.live /\ (op = "*" \/ op = nd.op)

ChildNode(l, n, i) ==
  LET ins == DataInputs(graph[n].in)
  IN IF Pattern[l].nsame
       THEN IF ins # << >> /\ \A j \in 1..Len(ins) : ins[j].src = ins[1].src
              THEN ins[1].src ELSE None
       ELSE IF i <= Len(ins) THEN ins[i].src ELSE None

RECURSIVE MatchNode(_, _), MatchKids(_, _, _, _)

MatchNode(l, n) ==
  IF OpMatches(Pattern[l].op, graph[n])
    THEN MatchKids(l, n, 1, l :> n)
    ELSE << >>

MatchKids(l, n, i, acc) ==
  IF i > Len(Pattern[l].kids) THEN acc
  ELSE LET c   == ChildNode(l, n, i)
           sub == IF c = None THEN << >> ELSE MatchNode(Pattern[l].kids[i], c)
       IN IF sub = << >>
            THEN IF is_partial_ THEN acc ELSE << >>
            ELSE MatchKids(l, n, i + 1, acc @@ sub)

Consumers(n) == { m \in Node : graph[m].live /\ n \in { e.src : e \in Range(graph[m].in) } }

(* The matched nodes tagged kRemove.  They may be removed only when no     *)
(* node outside the match consumes them and none is preserved (P2, P3).    *)
Removed(m) == { m[l] : l \in { l \in DOMAIN m : Pattern[l].status = "kRemove" } }

SafeToRemove(m) ==
  \A r \in Removed(m) : r \notin preserve /\ Consumers(r) \subseteq Range(m)

FillProperties(n) ==
  LET m == MatchNode(Root, n)
  IN IF m # << >> /\ SafeToRemove(m) THEN m ELSE << >>

-----------------------------------------------------------------------------
(***************************************************************************)
(* PadConv3dWithCast::Check.  "throw": std::map::at on a label the match   *)
(* does not have, which ends the process.                                  *)
(***************************************************************************)
Empty == [kind |-> "empty", map |-> << >>]
Throw == [kind |-> "throw", map |-> << >>]

CastsAreBf16(m) ==
  /\ graph[m["cast1"]].dstT = "bfloat16"
  /\ graph[m["cast2_out"]].dstT = "bfloat16"
  /\ graph[m["cast2_in"]].srcT = "bfloat16"

Check(n) ==
  LET m == FillProperties(n)
  IN IF graph[n].op # "Conv3D" THEN Empty
     ELSE IF m = << >> THEN Empty
     ELSE IF graph[n].dev = "GPU" THEN Empty
     ELSE IF ~({"cast1", "cast2_in", "cast2_out"} \subseteq DOMAIN m) THEN Throw
     ELSE IF ~CastsAreBf16(m) THEN Empty
     ELSE [kind |-> "match", map |-> m]

(***************************************************************************)
(* PadConv3dWithCast::Update.  The fused node takes conv3d's name, device, *)
(* attributes and its inputs 0 and 1, with padding EXPLICIT and the Const's *)
(* values (read as int32) as explicit_paddings; cast2_in's input 0 becomes *)
(* the Pad's input 0; the mutation is applied.                              *)
(***************************************************************************)
FusedNode_NoPaddings(c, constv) ==
  [c EXCEPT !.op = "PadConv3d", !.in = SubSeq(c.in, 1, 2), !.pads = None]

FusedNode(c, constv) ==
  [c EXCEPT !.op = "PadConv3d", !.in = SubSeq(c.in, 1, 2), !.pads = constv]

RewireCast2In_Skipped(g, cast2, pad) == g

(* mutation->AddOrUpdateRegularFanin(cast2_view, 0, pad_node->input(0)) *)
RewireCast2In(g, cast2, pad) ==
  [g EXCEPT ![cast2].in[1] = [src |-> graph[pad].in[1].src, ctrl |-> FALSE]]

Update(m) ==
  IF ~({"constv", "pad", "conv3d_output"} \subseteq DOMAIN m) THEN Throw
  ELSE IF graph[m["constv"]].T # "int32" THEN Throw
  ELSE LET conv == m["conv3d_output"]
           g1   == [graph EXCEPT ![conv] = FusedNode(graph[conv], m["constv"])]
       IN [kind |-> "ok", graph |-> RewireCast2In(g1, m["cast2_in"], m["pad"])]

-----------------------------------------------------------------------------
(***************************************************************************)
(* The driver (spec 4.3).                                                  *)
(***************************************************************************)
Init ==
  /\ graph \in Graphs
  /\ orig = graph
  /\ preserve \in Preserves
  /\ idx = 1
  /\ pc = "loop"

NextIdx_Twice(i) == i + 2

(* The driver moves on to the next index. *)
NextIdx(i) == i + 1

(* The node was removed by an earlier fusion, or is to be preserved. *)
Skip(n) == ~graph[n].live \/ n \in preserve

SkipNode ==
  /\ pc = "loop" /\ idx \in Node
  /\ Skip(idx)
  /\ idx' = NextIdx(idx)
  /\ UNCHANGED <<graph, orig, preserve, pc>>

NoFusion ==
  /\ pc = "loop" /\ idx \in Node
  /\ ~Skip(idx)
  /\ Check(idx).kind = "empty"
  /\ idx' = NextIdx(idx)
  /\ UNCHANGED <<graph, orig, preserve, pc>>

CheckThrows ==
  /\ pc = "loop" /\ idx \in Node
  /\ ~Skip(idx)
  /\ Check(idx).kind = "throw"
  /\ pc' = "crashed"
  /\ UNCHANGED <<graph, orig, preserve, idx>>

UpdateThrows ==
  /\ pc = "loop" /\ idx \in Node
  /\ ~Skip(idx)
  /\ Check(idx).kind = "match"
  /\ Update(Check(idx).map).kind = "throw"
  /\ pc' = "crashed"
  /\ UNCHANGED <<graph, orig, preserve, idx>>

(* Update succeeds; the matched kRemove nodes leave the graph. *)
Fuse ==
  /\ pc = "loop" /\ idx \in Node
  /\ ~Skip(idx)
  /\ Check(idx).kind = "match"
  /\ LET m == Check(idx).map
         u == Update(m)
     IN /\ u.kind = "ok"
        /\ graph' = [n \in Node |->
                       IF n \in Removed(m) THEN [u.graph[n] EXCEPT !.live = FALSE]
                                           ELSE u.graph[n]]
  /\ idx' = NextIdx(idx)
  /\ UNCHANGED <<orig, preserve, pc>>

Finish ==
  /\ pc = "loop" /\ idx \notin Node
  /\ pc' = "done"
  /\ UNCHANGED <<graph, orig, preserve, idx>>

Next == SkipNode \/ NoFusion \/ CheckThrows \/ UpdateThrows \/ Fuse \/ Finish

Spec == Init /\ [][Next]_vars /\ WF_vars(Next)

-----------------------------------------------------------------------------
(***************************************************************************)
(* Properties.                                                             *)
(***************************************************************************)
NodeRec ==
  [op : STRING, dev : STRING, srcT : STRING, dstT : STRING, T : STRING,
   in : Seq(Input), live : BOOLEAN, pads : Node \cup {None}]

TypeOK ==
  /\ graph \in [Node -> NodeRec]
  /\ preserve \in Preserves
  /\ idx \in 1..Cardinality(Node) + 1
  /\ pc \in {"loop", "done", "crashed"}

(***************************************************************************)
(* The value a node computes, up to what the fusion may change: Cast,      *)
(* QuantizeV2 and Dequantize act element-wise and carry the zero padding   *)
(* of their first input through (pad names the Const holding it); a Conv3D *)
(* consumes the padding of its input, a PadConv3d applies its             *)
(* explicit_paddings to an unpadded input; any other op is opaque.        *)
(***************************************************************************)
Elementwise == {"Cast", "QuantizeV2", "Dequantize"}

RECURSIVE Val(_, _)
Val(g, n) ==
  LET ins  == DataInputs(g[n].in)
      v(i) == Val(g, ins[i].src)
      es   == [i \in 1..Len(ins) |-> v(i).e]
  IN CASE g[n].op = "Pad" -> [e |-> v(1).e, pad |-> ins[2].src]
       [] g[n].op \in Elementwise ->
            [e |-> <<g[n].op, es>>, pad |-> v(1).pad]
       [] g[n].op = "Conv3D" ->
            [e |-> <<"Conv3D", es, v(1).pad, v(2).pad>>, pad |-> None]
       [] g[n].op = "PadConv3d" ->
            [e |-> <<"Conv3D", es, IF v(1).pad = None THEN g[n].pads ELSE -1,
                     v(2).pad>>, pad |-> None]
       [] OTHER -> [e |-> <<n, [i \in 1..Len(ins) |-> v(i)]>>, pad |-> None]

(* A node whose value the rest of the program can observe: a non-element- *)
(* wise op, or a node the caller asked to preserve.                        *)
Observable(g, n) ==
  g[n].live /\ (g[n].op \notin Elementwise \cup {"Pad", "Const"} \/ n \in preserve)

(* Every fusion the pass applies preserves what the graph computes: each   *)
(* observable node of the input graph is still there and computes the same *)
(* value.  Update moves the Pad's padding into the fused Conv3D and wires  *)
(* cast2_in to the Pad's input, which changes what cast2_in and the nodes  *)
(* after it compute for every other consumer.                              *)
DataflowPreserved ==
  \A n \in Node :
    Observable(orig, n) => graph[n].live /\ Val(graph, n) = Val(orig, n)

(* Spec P2: every input of a node in the graph names a node in the graph; *)
(* the Pad is removed only after cast2_in no longer reads it.              *)
NoDanglingInputs ==
  \A n \in Node :
    graph[n].live => \A e \in Range(graph[n].in) : graph[e.src].live

(* The spec has Check return an empty result when a match does not apply *)
(* and a failed Update only logged: the pass never ends the process.      *)
NoCrash == pc # "crashed"

(* A fusion keeps the control dependencies of the nodes it replaces: every *)
(* control input of a node still in the graph is still one of its inputs. *)
ControlDepsPreserved ==
  \A n \in Node :
    graph[n].live =>
      \A e \in Range(ControlInputs(orig[n].in)) :
        graph[e.src].live => e \in Range(graph[n].in)

(* Together: a fusion changes neither the value of any observable node nor *)
(* the control dependencies of the nodes that stay, whichever other       *)
(* consumers, fetches or control inputs the matched chain has.            *)
FusionPreservesGraph == DataflowPreserved /\ ControlDepsPreserved


(* The fusion is sound: it neither ends the process nor changes what the   *)
(* graph computes.  Update dereferences map.at on a partial match and reads *)
(* int64 paddings as int32; Check ignores the chain's other consumers, its  *)
(* fetches and conv3d's control inputs.                                     *)
FusionSound == FusionPreservesGraph /\ NoCrash

=============================================================================
