------------------------------ MODULE FrontEnd ------------------------------
(***************************************************************************)
(* The part of main() that turns a text into a syntax tree: Lexer_all      *)
(* writes all tokens, then Parser_all reads them.                          *)
(***************************************************************************)
EXTENDS Integers, Sequences, FiniteSets

CONSTANTS
    Letters, Digits, Keyword(_), MIN_MEM,      \* of Lexer
    STACK_SIZE                                 \* of Parser

ASSUME SizeAssumption == MIN_MEM \in Nat \ {0} /\ STACK_SIZE \in Nat \ {0}
ASSUME ClassAssumption == "NUL" \notin Letters \cup Digits

VARIABLES input, zero_behind, pos, out, lex_status, p_pos, open, p_status

L == INSTANCE Lexer

(* node_count of main.c:196 counts bytes for request, nodes for Parser_all *)
Room == ((L!Size * 8) \div 4) \div 8

P == INSTANCE Parser WITH tokens <- out, room <- Room

lexerVars == <<input, zero_behind, pos, out, lex_status>>
parserVars == <<p_pos, open, p_status>>
vars == <<lexerVars, parserVars>>

Init == L!Init /\ P!Init

Lex == L!Next /\ UNCHANGED parserVars

Parse ==
    /\ lex_status = "done"
    /\ P!Next
    /\ UNCHANGED lexerVars

Next == Lex \/ Parse

-----------------------------------------------------------------------------
(* Every variable has its type: see Lexer and Parser. *)
TypeOK == L!TypeOK /\ P!TypeOK

(* The lexer's and the parser's own properties: see there. *)
LexemesMaximal == L!LexemesMaximal
StaysInTokens == lex_status = "done" => P!StaysInTokens

(* The tokens the parser gets to see: those before the first end marker.   *)
Visible == CHOOSE n \in 0..Len(out) - 1 :
               out[n + 1].type = "T_EOF" /\ \A k \in 1..n : out[k].type # "T_EOF"
Openers == {"T_DELIMITOR_LEFT", "T_BRAKET_LEFT", "T_CURLY_LEFT"}
Heads == P!Operators \cup {"T_BUILTIN"}
Count(n, types) == Cardinality({k \in 1..n : out[k].type \in types})
OpensFirst(n) == Count(n, P!Closers) <= Count(n, Openers)
HeadOpened(k) == out[k].type \in Heads => k > 1 /\ out[k - 1].type = "T_DELIMITOR_LEFT"
Balanced ==
    /\ \A n \in 1..Visible : OpensFirst(n) /\ HeadOpened(n)
    /\ Count(Visible, P!Closers) = Count(Visible, Openers)

(* The parser accepts exactly the texts whose brackets balance, of         *)
(* whatever kinds, and whose operators and builtins follow a "(".          *)
AcceptsBalanced ==
    /\ p_status = "parsed" => Balanced
    /\ p_status \in {"aborted", "crashed"} => ~Balanced

(* What the compiler takes for granted of a node: its token fits its kind, *)
(* only arrays and objects have none, and a list never begins with a name, *)
(* which would have made it a call.                                        *)
NodeFits(n) ==
    CASE n.type = "N_ATOM"    -> n.token.type \in P!Atoms /\ n.children = <<>>
      [] n.type = "N_IDENT"   -> n.token.type = "T_IDENT" /\ n.children = <<>>
      [] n.type = "N_BUILTIN" -> n.token.type = "T_BUILTIN"
      [] n.type = "N_BIN"     -> n.token.type \in P!Operators
      [] n.type = "N_CALL"    -> n.token.type = "T_IDENT"
      [] n.type = "N_LIST"    -> n.children # <<>> => n.children[1].type # "N_IDENT"
      [] OTHER                -> n.type \in {"N_ARRAY", "N_OBJECT"} /\ n.token = P!NoToken

(* The nodes at each depth below the lists that are open; no tree is       *)
(* deeper than the text has tokens.                                        *)
ChildrenOf(n) == {n.children[k] : k \in 1..Len(n.children)}
level[d \in 0..Len(out)] ==
    IF d = 0 THEN UNION {ChildrenOf(open[k]) : k \in 1..Len(open)}
    ELSE UNION {ChildrenOf(n) : n \in level[d - 1]}
Built == UNION {level[d] : d \in 0..Len(out)}

(* Every tree is one the compiler can take (cc.c:77-370): its nodes fit.   *)
TreesFit ==
    p_status = "parsed" => \A d \in 0..Len(out) : \A n \in level[d] : NodeFits(n)

(* Lexer and parser come to an end. *)
Finished == lex_status \in {"aborted", "undefined"} \/ p_status # "parsing"
Terminates == <>Finished
=============================================================================
