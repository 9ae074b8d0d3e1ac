------------------------------- MODULE Syntax -------------------------------
(***************************************************************************)
(* Syntax trees as parser.c builds them (parser.h Node): a node has its    *)
(* kind, the text of its token and its children.  These constructors write *)
(* the trees of the checked programs down.                                 *)
(***************************************************************************)
EXTENDS Sequences, SequencesExt, FiniteSetsExt

Node(kind, tok, ch) == [kind |-> kind, tok |-> tok, ch |-> ch]

Atom(tok)        == Node("N_ATOM", tok, <<>>)
Ident(tok)       == Node("N_IDENT", tok, <<>>)
Bin(op, ch)      == Node("N_BIN", op, ch)
Builtin(tok, ch) == Node("N_BUILTIN", tok, ch)
Call(tok, ch)    == Node("N_CALL", tok, ch)
List(ch)         == Node("N_LIST", "(", ch)
Arr(ch)          == Node("N_ARRAY", "", ch)
Obj0             == Node("N_OBJECT", "", <<>>)

Let(x, e)             == Builtin("let", <<Ident(x), e>>)
Function(f, ps, body) == Builtin("function",
                            <<Ident(f), Arr([k \in 1..Len(ps) |-> Ident(ps[k])])>>
                              \o body)
(* a case of a match.  A list whose first word is a name would be a call,  *)
(* so a name as condition is written (= x)                                 *)
Branch(c, b) == List(<<IF c.kind = "N_IDENT" THEN Bin("EQ", <<c>>) ELSE c, b>>)
Match(cases)          == Builtin("match", cases)

(* a node and all nodes below it *)
RECURSIVE Subtrees(_)
Subtrees(n) == {n} \cup UNION {Subtrees(n.ch[k]) : k \in 1..Len(n.ch)}

AllNodes(programs) ==
    UNION {UNION {Subtrees(p[k]) : k \in 1..Len(p)} : p \in programs}
=============================================================================
