--------------------------- MODULE MCConformance ----------------------------
(***************************************************************************)
(* All straight programs of a small grammar: a preamble that binds x and   *)
(* defines f, then one expression two levels deep over every construct.    *)
(* Each is written as a text and given to +r.  Besides, every command line *)
(* of up to three words over options, values and files.                    *)
(***************************************************************************)
EXTENDS Conformance, Syntax, TLC

MCToDouble(i) == 10 * i
MCDoubleOp(op, a, b) == IF op = "ADD" THEN a + b ELSE a - b
MCDoubleEq(a, b) == a = b
MCDoubleOf(d) == d.mantissa * 10^(1 + d.exponent)

(* a character is one of a number or a symbol, or stands for a whole name *)
MCDigits == {"0", "1", "2", "5", "8"}
MCDigitValue(c) == CASE c = "0" -> 0 [] c = "1" -> 1 [] c = "2" -> 2 [] c = "5" -> 5 [] c = "8" -> 8
MCLetters == {"x", "y", "f", "g", "s", "false"} \cup CompileTime \cup Runtime
MCKeyword(text) == IF text = <<"false">> THEN "T_FALSE" ELSE "T_IDENT"

Number(text) == Atom([type |-> IF "." \in {text[k] : k \in 1..Len(text)}
                               THEN "T_DOUBLE" ELSE "T_INTEGER", text |-> text])
Text0(text) == Atom([type |-> "T_STRING", text |-> text])
No  == Atom([type |-> "T_FALSE", text |-> <<>>])
One == Number(<<"1">>)
Half == Number(<<"0", ".", "5">>)
S   == Text0(<<"s">>)
X   == Ident("x")

Symbol == [op \in {"ADD", "SUB", "MUL", "DIV", "EQ"} |->
              CASE op = "ADD" -> "+" [] op = "SUB" -> "-" [] op = "MUL" -> "*"
                [] op = "DIV" -> "/" [] op = "EQ" -> "="]
Between(open0, text, close) == <<open0>> \o text \o <<close>>

RECURSIVE Write(_), WriteAll(_)
WriteAll(ns) == IF ns = <<>> THEN <<>>
                ELSE <<"space">> \o Write(Head(ns)) \o WriteAll(Tail(ns))
Write(n) ==
    CASE n.kind = "N_ATOM" -> CASE n.tok.type = "T_FALSE"  -> <<"false">>
                                [] n.tok.type = "T_STRING" -> Between("quote", n.tok.text, "quote")
                                [] OTHER                   -> n.tok.text
      [] n.kind = "N_IDENT"   -> <<n.tok>>
      [] n.kind = "N_BIN"     -> Between("(", <<Symbol[n.tok]>> \o WriteAll(n.ch), ")")
      [] n.kind = "N_CALL"    -> Between("(", <<n.tok>> \o WriteAll(n.ch), ")")
      [] n.kind = "N_BUILTIN" -> Between("(", <<"@", n.tok>> \o WriteAll(n.ch), ")")
      [] n.kind = "N_LIST"    -> Between("(", WriteAll(n.ch), ")")
      [] n.kind = "N_ARRAY"   -> Between("[", WriteAll(n.ch), "]")
      [] n.kind = "N_OBJECT"  -> <<"{", "}">>

-----------------------------------------------------------------------------
Leaves == {One, X}
TypeOfOne == Builtin("type", <<One>>)
Small  == Leaves \cup {Bin("ADD", <<One, X>>), Bin("ADD", <<X, X>>), Bin("EQ", <<X, X>>)}
            \cup {Call("f", <<X, One>>), Builtin("Some", <<X>>),
                  TypeOfOne, Builtin("println", <<X, One>>),
                  Let("x", Bin("ADD", <<X, One>>)), Builtin("assert", <<Bin("EQ", <<X, One>>)>>),
                  Match(<<Branch(Bin("EQ", <<X, One>>), One), X>>), No, Half}
Two    == {<<a, b>> : a \in Small, b \in Small}

Expressions ==
    {Bin("SUB", p) : p \in Two} \cup {Bin("EQ", p) : p \in Two}
      \cup {Call("f", p) : p \in Two} \cup {Builtin("print", p) : p \in Two}
      \cup {Match(<<Branch(p[1], p[2]), Branch(p[2], p[1]), X>>) : p \in Two}
      \cup {Builtin(b, <<e>>) : b \in {"Some", "type", "assert"}, e \in Small}
      \cup {Builtin("len", <<e>>) : e \in (Small \ {TypeOfOne}) \cup {Obj0}}

(* arithmetic at the ends of the integers (128 is one too many), around    *)
(* zero, and on operands of different types                                *)
Minus(n) == Bin("SUB", <<Number(<<"0">>), n>>)
Hundred  == Number(<<"1", "0", "0">>)
Least    == Bin("SUB", <<Minus(Hundred), Number(<<"2", "8">>)>>)
Edges    == {Hundred, Least, Minus(One), Minus(Number(<<"5">>)), Number(<<"0">>),
             Number(<<"2">>), Half, S}
Sums     == {<<Bin(op, <<a, b>>)>> : op \in {"ADD", "SUB", "MUL", "DIV"}, a \in Edges, b \in Edges}
              \cup {<<Bin("ADD", <<S, Text0(<<"x">>)>>)>>}

Preambles ==
    {<<Let("x", Number(<<"2">>)), Function("f", <<"x", "y">>, b)>> :
        b \in {<<Bin("SUB", <<X, Ident("y")>>)>>,
               <<Let("x", Bin("ADD", <<Ident("y"), X>>)), Match(<<Branch(X, X)>>)>>}}

Straights == {pre \o <<e, X>> : pre \in Preambles, e \in {f \in Expressions : Straight(f, FALSE)}}
              \cup Sums
(* a default before a case that matches *)
DefaultFirst == {<<Match(<<Builtin("print", <<Half>>),
                           Branch(Bin("EQ", <<One, One>>), Builtin("print", <<One>>))>>)>>}
(* the length of a string, kept out of the programs above *)
Lengths == {<<Builtin("len", <<S>>)>>}
(* a string that spells a number and the character behind it *)
Alike == {<<Builtin("print", <<Text0(<<"1", ")">>), One>>)>>}

-----------------------------------------------------------------------------
Word(form, name, text) == [form |-> form, name |-> name, text |-> text]
Short(c) == Word("short", c, <<"+", c>>)
Long(n) == Word("long", n, <<"+", n>>)
Rest(text) == Word("rest", "", text)
File(n) == Word("rest", n, <<n>>)

(* with two frames from the start the third is requested *)
Filed == <<Bin("ADD", <<S, S>>), Function("f", <<>>, <<One>>),
           Function("g", <<>>, <<Call("f", <<>>)>>), Call("g", <<>>)>>
(* a text of one page *)
Paged == <<"1", "space", "1", "space", "1", "space", "1", "space",
           "1", "space", "1", "space", "1", "space", "1", "space">>
MCFiles == "file" :> WriteAll(Filed) @@ "pages" :> Paged @@ "empty" :> <<>>

MCNumeral == <<"1">> :> 1 @@ <<"8">> :> 8 @@ <<"-", "1">> :> -1
Words == {Short("v"), Short("V"), Short("r"), Short("b"), Short("h"), Long("run"),
          Long("helpme"), Long("nosuch"), File("file"), File("missing"), Rest(<<"8">>),
          Rest(<<"1">>), Rest(<<"-", "1">>)}
Broken == {<<")">>, <<"(", "+", ")">>,
           Write(Let("x", Half)) \o Write(Builtin("let", <<Arr(<<>>), Half>>))}

(* command lines, and the meaning of the texts in them *)
RunLine(p) == [argv |-> <<Short("r"), Rest(WriteAll(p))>>, meant |-> WriteAll(p) :> p]
OptionLine(ws) ==
    [argv |-> ws, meant |-> WriteAll(Filed) :> Filed @@ <<"1">> :> <<One>> @@ <<"file">> :> <<Ident("x")>>]
StraightLines ==
    {RunLine(p) : p \in Straights}
      \cup {OptionLine(ws) : ws \in UNION {[1..k -> Words] : k \in 0..3}}
      \cup {OptionLine(<<File(n)>>) : n \in {"pages", "empty"}}
      \cup {OptionLine(<<Long("run"), Rest(text)>>) : text \in Broken}
DefaultLines == {RunLine(p) : p \in DefaultFirst}
AlikeLines == {RunLine(p) : p \in Alike}
LengthLines == {RunLine(p) : p \in Lengths}

CONSTANT Lines
MCInit == /\ \E l \in Lines : argv = l.argv /\ meant = l.meant
          /\ Init
MCSpec == MCInit /\ [][Step]_meantVars /\ WF_meantVars(Step)

Index(names, t) == IF \E k \in 1..Len(names) : names[k] = t
                   THEN CHOOSE k \in 1..Len(names) : names[k] = t ELSE 0
MCLitHash(text) == Index(<<<<"1", "space">>, <<"1", ")">>, <<"2", ")">>, <<"0", ".", "5", "space">>,
                           <<"0", ".", "5", ")">>, <<"s">>, <<"1">>, <<"8">>, <<"0", ")">>,
                           <<"0", "space">>, <<"1", "0", "0", "space">>, <<"1", "0", "0", ")">>,
                           <<"2", "8", ")">>, <<"5", ")">>, <<"2", "space">>>>, text)
MCVarHash == [t \in STRING |-> Index(<<"x", "y">>, t)]
MCFnHash  == [t \in STRING |->
                 Index(<<"let", "function", "assert", "None", "match", "print",
                         "println", "len", "type", "Some", "f", "g">>, t)]
MCNameHash == [n \in STRING |->
    Index(<<"version", "disassemble", "block-allocator", "aot-functions", "memory-usage",
            "verbose", "stats", "run">>, n)]
MCHelping == {"help", "helpme"}
=============================================================================
