-------------------------------- MODULE MCCc --------------------------------
(***************************************************************************)
(* The compiler on a family of programs that nests every construct in      *)
(* every other one, breaks every rule of the compiler once, and is large   *)
(* enough to exhaust the small register file, pool and bytecode below.     *)
(***************************************************************************)
EXTENDS Cc, Syntax

MCToDouble(i) == 10 * i
MCDoubleOp(op, a, b) == a
MCDoubleEq(a, b) == a = b

Leaves  == {Atom("1"), Ident("x")}
Simple  == Leaves \cup {Atom("true"), Arr(<<>>), Builtin("None", <<>>)}
One     == Atom("1")
X       == Ident("x")
Nested  == {Bin("ADD", <<One, X>>), Bin("EQ", <<X>>),
            Builtin("println", <<X, One>>), Builtin("Some", <<One>>),
            Call("f", <<X, One>>)}

Matches  == {Match(<<Branch(X, One), X>>), Match(<<Branch(One, X), Branch(X, One)>>)}
Operands == Simple \cup Nested \cup Matches

F == Function("f", <<"x", "y">>, <<Bin("ADD", <<Ident("x"), Ident("y")>>)>>)
F1(e) == Function("f", <<"x", "y">>, <<Ident("y"), e>>)
G(body) == Function("g", <<>>, body)

(* one expression around two others, with f defined before *)
Expressions ==
    {<<F, Bin("SUB", <<a, b>>)>> : a \in Operands, b \in Operands}
      \cup {<<F, Builtin("println", <<a, b, Atom("2")>>)>> : a \in Nested, b \in Nested}
      \cup {<<F, Call("f", <<a, b>>)>> : a \in Operands, b \in Operands}
      \cup {<<F, Match(<<Branch(a, b), Branch(b, a), c>>)>> :
               a \in Nested, b \in Matches, c \in {Atom("1"), Match(<<Atom("1")>>)}}

(* functions around expressions and functions, calls of both *)
Definitions ==
    {<<F1(e), Call("f", <<Atom("1"), Atom("2")>>)>> : e \in Operands}
      \cup {<<F, G(<<e>>), Let("x", Call("g", <<>>)), Call("g", <<>>)>> : e \in Operands}
      \cup {<<G(<<F, e>>), Match(<<Branch(Call("g", <<>>), e)>>)>> : e \in Operands}
      \cup {<<Function("f", <<"x", "y">>, <<>>), e>> : e \in Operands}
      \cup {<<Function("f", <<>>, <<>>), Builtin("print", <<Call("f", <<>>)>>)>>}
      \cup {<<F, Builtin("assert", <<e, Let("x", e)>>)>> : e \in Operands}
      \cup {<<Match(<<Branch(Atom("true"), F), Atom("1")>>), e>> : e \in Operands}

(* a default that is not the last case *)
DefaultFirst ==
    {<<Match(<<d, Branch(a, Atom("1"))>>)>> : d \in Leaves, a \in Leaves}

(* Sums nested on the right, each holding one register more *)
RECURSIVE Sum(_)
Sum(k) == IF k = 0 THEN Atom("1") ELSE Bin("ADD", <<Atom("1"), Sum(k - 1)>>)

Limits == {<<Sum(k)>> : k \in 3..7}
            \cup {<<Arr(<<>>), Obj0, Atom("s"), Arr(<<>>), e>> :
                     e \in {Atom("1"), Atom("s"), Obj0, Bin("SUB", <<Atom("1"), Atom("2")>>)}}
            \cup {<<F, Sum(k), Sum(4), Sum(4), Sum(4), Sum(4)>> : k \in 1..2}

Let0(name) == Builtin("let", <<name, X>>)
Mistakes ==
    {<<e>> : e \in {Atom("huge"), Bin("ADD", <<>>), Bin("ADD", <<Obj0, Obj0, Obj0>>),
                    List(<<Atom("1")>>), Arr(<<Atom("1"), Atom("2")>>),
                    Call("g", <<>>), Builtin("nosuch", <<>>),
                    Builtin("let", <<Ident("x")>>), Builtin("function", <<Ident("f")>>),
                    Builtin("function", <<Ident("f"), Arr(<<Atom("1")>>), Atom("1")>>),
                    Let0(Arr(<<>>)), Let0(Obj0), Let0(List(<<One>>)), Let0(One),
                    Builtin("function", <<Arr(<<X>>), Arr(<<>>)>>),
                    Builtin("function", <<Obj0, Arr(<<>>), One>>),
                    Match(<<>>), Match(<<Atom("1"), Atom("2")>>)}}
      \cup {<<F, Call("f", <<Atom("1")>>)>>}

(* an argument of a call that replaces the called function by an empty one; *)
(* kept apart from the others, see MCRedefining.cfg                         *)
Redefining ==
    {<<F, Call("f", <<Function("f", <<"x", "y">>, <<>>), e>>)>> : e \in Leaves}

(* a call while the register of the first operand is held, see              *)
(* MCArguments.cfg                                                          *)
Held == {<<F, Bin("SUB", <<One, Call("f", <<One, Atom("2")>>)>>)>>}

MCPrograms == Expressions \cup Definitions \cup DefaultFirst \cup Limits \cup Mistakes
MCNodes == AllNodes(MCPrograms \cup Redefining \cup Held)
MCTokens == {n.tok : n \in MCNodes} \cup CompileTime \cup Runtime

MCLitValue == [t \in MCTokens |-> CASE t = "1"    -> Int64(1)
                                    [] t = "2"    -> Int64(2)
                                    [] t = "true" -> True
                                    [] t = "huge" -> None
                                    [] OTHER      -> Str(<<t>>)]
Index(names, t) == IF \E k \in 1..Len(names) : names[k] = t
                   THEN CHOOSE k \in 1..Len(names) : names[k] = t ELSE 0
MCBucket  == [t \in MCTokens |-> Index(<<"1", "2", "s", "huge">>, t)]
MCVarHash == [t \in MCTokens |-> Index(<<"x", "y">>, t)]
MCFnHash  == [t \in MCTokens |->
                 Index(<<"let", "function", "assert", "None", "match", "print",
                         "println", "len", "type", "Some", "f", "g">>, t)]
=============================================================================
