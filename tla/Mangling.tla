------------------------------ MODULE Mangling ------------------------------
(***************************************************************************)
(* mangling_util (mangling.cc): how an attribute of a TensorFlow node is   *)
(* written as an MLIR attribute and read back.  The name gets the prefix   *)
(* "tf."; a DataType, a TensorShapeProto or a TensorProto value becomes    *)
(* a string: a kind prefix followed by its text form.  GetMangledKind      *)
(* tells the kind back from the prefix and Demangle* parses the rest.      *)
(*                                                                         *)
(* A string is a sequence of characters; the text forms of values are     *)
(* sequences of tokens (a keyword, a brace, a number or a dtype name).     *)
(* ShortDebugString and ParseTextProto are protobuf's text format and are *)
(* not in src/: the text is the protobuf text grammar, and parsing it     *)
(* inverts it.                                                             *)
(*                                                                         *)
(* One behaviour exports one attribute and imports it again.              *)
(***************************************************************************)
EXTENDS Integers, Sequences, SequencesExt

CONSTANTS
  Names,      \* attribute names: sequences of characters
  DataTypes,  \* DataType enum names, e.g. DT_FLOAT
  DimSizes,   \* dimension sizes as printed, e.g. "-1" for an unknown one
  None,       \* no value parsed
  MaxRank,    \* the largest rank of a shape
  DCheckOn    \* ITEX_DCHECK is compiled in (a debug build)

ASSUME DCheckOn \in BOOLEAN

VARIABLES
  attr,   \* the attribute exported: [name, kind, value]
  enc,    \* its MLIR form: [name, str]
  dec,    \* what the import recovers: [name, kind, value, status]
  pc      \* "export", "import", "value", "done" or "crashed"

vars == <<attr, enc, dec, pc>>

kAttributePrefix == <<"t", "f", ".">>
kDataTypePrefix == <<"t", "f", "d", "t", "y", "p", "e", "$">>
kTensorShapePrefix == <<"t", "f", "s", "h", "a", "p", "e", "$">>
kTensorPrefix == <<"t", "f", "t", "e", "n", "s", "o", "r", "$">>

\* absl::StartsWith and absl::StrCat.
StartsWith(s, p) == IsPrefix(p, s)
StrCat(p, s) == p \o s

-----------------------------------------------------------------------------
(* The values and their protobuf text forms (ShortDebugString).  An        *)
(* unknown-rank shape prints as "unknown_rank: true", a scalar as nothing. *)
Shapes ==
  {[unknown |-> TRUE, dims |-> << >>]}
  \cup {[unknown |-> FALSE, dims |-> d] : d \in BoundedSeq(DimSizes, MaxRank)}
Tensors == [dtype : DataTypes, shape : Shapes]

ShapeText(sh) ==
  IF sh.unknown THEN <<"unknown_rank:", "true">>
  ELSE FlattenSeq([i \in 1 .. Len(sh.dims) |->
                     <<"dim", "{", "size:", sh.dims[i], "}">>])
TensorText(t) ==
  <<"dtype:", t.dtype, "tensor_shape", "{">> \o ShapeText(t.shape) \o <<"}">>

\* ParseTextProto(str, prefix, proto): ConsumePrefix, then the text format
\* parser; a string that is no text form of a value is an error.  text maps
\* each value of the proto's type to its text form.
ParseTextProto(str, prefix, text) ==
  IF ~StartsWith(str, prefix) THEN [status |-> "error", value |-> None]
  ELSE LET rest == SubSeq(str, Len(prefix) + 1, Len(str))
           parses == {v \in DOMAIN text : text[v] = rest}
       IN IF parses = {} THEN [status |-> "error", value |-> None]
          ELSE [status |-> "ok", value |-> CHOOSE v \in parses : TRUE]

-----------------------------------------------------------------------------
(* The functions of mangling.cc. *)

MangleAttributeName(str) == StrCat(kAttributePrefix, str)
IsMangledAttributeName(str) == StartsWith(str, kAttributePrefix)
\* str.substr(std::strlen(kAttributePrefix)); a sizeof would count the NUL.
DemangleAttributeName_Sizeof(str) == SubSeq(str, Len(kAttributePrefix) + 2, Len(str))
DemangleAttributeName(str) == SubSeq(str, Len(kAttributePrefix) + 1, Len(str))

GetMangledKind(str) ==
  CASE StartsWith(str, kDataTypePrefix) -> "kDataType"
    [] StartsWith(str, kTensorShapePrefix) -> "kTensorShape"
    [] StartsWith(str, kTensorPrefix) -> "kTensor"
    [] OTHER -> "kUnknown"

MangleShape(shape) == StrCat(kTensorShapePrefix, ShapeText(shape))
DemangleShape(str) == ParseTextProto(str, kTensorShapePrefix, [v \in Shapes |-> ShapeText(v)])

MangleTensor(tensor) == StrCat(kTensorPrefix, TensorText(tensor))
DemangleTensor(str) == ParseTextProto(str, kTensorPrefix, [v \in Tensors |-> TensorText(v)])

\* DataType_Name, and DataType_Parse of the whole rest of the string.
MangleDataType(dtype) == StrCat(kDataTypePrefix, <<dtype>>)
DemangleDataType_NoParse(str) ==
  IF ~StartsWith(str, kDataTypePrefix) THEN [status |-> "error", value |-> None]
  ELSE [status |-> "ok", value |-> SubSeq(str, Len(kDataTypePrefix) + 1, Len(str))]
DemangleDataType(str) ==
  IF ~StartsWith(str, kDataTypePrefix) THEN [status |-> "error", value |-> None]
  ELSE LET pbtxt == SubSeq(str, Len(kDataTypePrefix) + 1, Len(str)) IN
       IF Len(pbtxt) = 1 /\ pbtxt[1] \in DataTypes
         THEN [status |-> "ok", value |-> pbtxt[1]]
         ELSE [status |-> "failed_precondition", value |-> None]

-----------------------------------------------------------------------------
(* Export: the name and the value are mangled, by the function of the     *)
(* value's kind.                                                           *)
ExportAttr(mangled) ==
  /\ pc = "export"
  /\ enc' = [name |-> MangleAttributeName(attr.name), str |-> mangled]
  /\ pc' = "import"
  /\ UNCHANGED <<attr, dec>>

ExportDataType == attr.kind = "kDataType" /\ ExportAttr(MangleDataType(attr.value))
ExportShape == attr.kind = "kTensorShape" /\ ExportAttr(MangleShape(attr.value))
ExportTensor == attr.kind = "kTensor" /\ ExportAttr(MangleTensor(attr.value))

\* Import of the name by DemangleAttributeName, and of the kind.  Its
\* ITEX_DCHECK(IsMangledAttributeName(str)) aborts only in a debug build;
\* in a release build substr(3) throws out_of_range on a shorter name and
\* otherwise drops the first three characters, whatever they are.
ImportName ==
  /\ pc = "import"
  /\ IF \/ DCheckOn /\ ~IsMangledAttributeName(enc.name)
        \/ Len(enc.name) < Len(kAttributePrefix)
       THEN pc' = "crashed" /\ UNCHANGED dec
       ELSE /\ dec' = [dec EXCEPT !.name = DemangleAttributeName(enc.name),
                                  !.kind = GetMangledKind(enc.str)]
            /\ pc' = "value"
  /\ UNCHANGED <<attr, enc>>

\* Import of the value by the Demangle function of the kind its prefix names.
ImportValue ==
  /\ pc = "value"
  /\ LET r == CASE dec.kind = "kDataType" -> DemangleDataType(enc.str)
                [] dec.kind = "kTensorShape" -> DemangleShape(enc.str)
                [] dec.kind = "kTensor" -> DemangleTensor(enc.str)
                [] OTHER -> [status |-> "unknown", value |-> None]
     IN dec' = [dec EXCEPT !.value = r.value, !.status = r.status]
  /\ pc' = "done"
  /\ UNCHANGED <<attr, enc>>

Kinds == {"kDataType", "kTensorShape", "kTensor"}
ValuesOf(k) == CASE k = "kDataType" -> DataTypes
                 [] k = "kTensorShape" -> Shapes
                 [] k = "kTensor" -> Tensors

Init ==
  /\ attr \in UNION {[name : Names, kind : {k}, value : ValuesOf(k)] : k \in Kinds}
  /\ enc = [name |-> << >>, str |-> << >>]
  /\ dec = [name |-> << >>, kind |-> "kUnknown", value |-> None, status |-> "none"]
  /\ pc = "export"

Next == ExportDataType \/ ExportShape \/ ExportTensor \/ ImportName \/ ImportValue

Spec == Init /\ [][Next]_vars

-----------------------------------------------------------------------------
TypeOK ==
  /\ pc \in {"export", "import", "value", "done", "crashed"}
  /\ dec.kind \in Kinds \cup {"kUnknown"}
  /\ dec.status = "ok" => dec.value \in ValuesOf(dec.kind)

(* An attribute survives the trip through MLIR: the import finds the      *)
(* mangled name, strips exactly the prefix MangleAttributeName added       *)
(* (whatever the name itself begins with), tells the value's kind from    *)
(* its prefix, and parses back the value that was mangled.  This needs    *)
(* the three kind prefixes to be prefixes of no mangled string of another  *)
(* kind, and every Demangle to consume exactly its own prefix; and the     *)
(* import never aborts on the name, in either build.                       *)
RoundTrip ==
  /\ pc # "crashed"
  /\ pc = "done" =>
    /\ dec.name = attr.name
    /\ dec.kind = attr.kind
    /\ dec.status = "ok" /\ dec.value = attr.value

=============================================================================
