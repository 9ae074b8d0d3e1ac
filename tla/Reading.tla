------------------------------ MODULE Reading -------------------------------
(***************************************************************************)
(* What the front end makes of a text: tokens compared with the trees they *)
(* become, and digits with numbers.                                        *)
(***************************************************************************)
EXTENDS FrontEnd, SequencesExt

CONSTANTS INT64_MAX, UINT64_MAX, DigitValue(_)       \* of Numbers

ASSUME DigitAssumption == \A c \in Digits : DigitValue(c) \in 0..9
ASSUME WidthAssumption == INT64_MAX \in Nat /\ UINT64_MAX \in Nat /\ INT64_MAX > 9

-----------------------------------------------------------------------------
(* A tree written back as token types, with every closing token a ")".     *)

OpenerOf(node) ==
    CASE node.type = "N_UNKNOWN" -> <<>>
      [] node.type = "N_ARRAY"   -> <<"T_BRAKET_LEFT">>
      [] node.type = "N_OBJECT"  -> <<"T_CURLY_LEFT">>
      [] node.type = "N_LIST"    -> <<"T_DELIMITOR_LEFT">>
      [] OTHER                   -> <<"T_DELIMITOR_LEFT", node.token.type>>

(* A list as far as it goes, where w has what its children are written as. *)
Opened(node, w) ==
    OpenerOf(node) \o FlattenSeq([k \in 1..Len(node.children) |-> w[node.children[k]]])
written[node \in Built] ==
    IF node.type \in {"N_ATOM", "N_IDENT"} THEN <<node.token.type>>
    ELSE Append(Opened(node, written), "T_DELIMITOR_RIGHT")

Type(t) == IF t.type \in P!Closers THEN "T_DELIMITOR_RIGHT" ELSE t.type
Read == [k \in 1..p_pos |-> Type(out[k])]

(* No token is lost, doubled or moved: the lists that are open, written    *)
(* back one after the other, are the tokens read so far.                   *)
Unparses ==
    p_status \in {"parsing", "parsed"} =>
        FlattenSeq([d \in 1..Len(open) |-> Opened(open[d], written)]) = Read

-----------------------------------------------------------------------------
(* The values of the number literals: see Numbers. *)
N == INSTANCE Numbers
Text(t) == SubSeq(input, t.start + 1, t.end)
NumbersExact ==
    lex_status = "done" => \A k \in 1..Len(out) :
        /\ out[k].type = "T_INTEGER" => N!IntegerExact(Text(out[k]))
        /\ out[k].type = "T_DOUBLE" => N!DoubleExact(Text(out[k]))
=============================================================================
