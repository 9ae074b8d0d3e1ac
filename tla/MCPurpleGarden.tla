--------------------------- MODULE MCPurpleGarden ---------------------------
(***************************************************************************)
(* Compiler and machine together, on programs that call functions from     *)
(* functions several scopes deep, from conditions, bodies, operands and    *)
(* arguments, and on programs that end in every way a program can end.     *)
(***************************************************************************)
EXTENDS PurpleGarden, Syntax

(* doubles are tenths; the operations saturate to keep the set small *)
MCToDouble(i) == 10 * i
MCDoubleOp(op, a, b) == IF op = "ADD" THEN a + b ELSE IF op = "SUB" THEN a - b ELSE a
MCDoubleEq(a, b) == a = b

One == Atom("1")
Two == Atom("2")
X   == Ident("x")
Y   == Ident("y")

(* three levels: each calls the one before, in an operand, a condition, an *)
(* argument or a body; k leaves a variable behind in its frame             *)
Base == {Function("f", <<"x">>, <<Bin("ADD", <<X, One>>)>>),
         Function("f", <<"x">>, <<Let("y", X), Builtin("println", <<X, Y>>), Y>>)}
Middle ==
    {Function("g", <<"x", "y">>, b) :
        b \in {<<Bin("ADD", <<Call("f", <<X>>), Y>>)>>,
               <<Match(<<Branch(Bin("EQ", <<Call("f", <<Y>>), Two>>), Call("f", <<X>>)),
                         Builtin("print", <<Call("f", <<X>>)>>)>>)>>,
               <<Let("x", Call("f", <<X>>)), Bin("ADD", <<Y, Call("f", <<X>>)>>)>>}}
Outermost == {Call("g", <<Call("f", <<One>>), Two>>),
         Call("g", <<One, Call("g", <<One, Two>>)>>),
         Bin("SUB", <<One, Call("g", <<One, One>>)>>),
         Match(<<Branch(Call("g", <<One, One>>), Call("f", <<Two>>))>>),
         Builtin("println", <<Call("f", <<One>>), Call("g", <<Two, One>>)>>),
         Builtin("assert", <<Call("g", <<One, One>>)>>)}
Layers == {<<a, b, c>> : a \in Base, b \in Middle, c \in Outermost}

(* a function inside a function, and calls of both from either side *)
Inner == Function("f", <<"x">>, <<Bin("MUL", <<X, Two>>)>>)
NestedDefinitions ==
    {<<Function("g", <<"x">>, <<Inner, Call("f", <<X>>)>>), c>> :
        c \in {Call("g", <<Two>>), Call("f", <<Two>>)}}
      \cup {<<Inner, Function("g", <<>>, <<Call("f", <<One>>)>>),
              Function("f", <<"x">>, <<Call("g", <<>>)>>), Call("f", <<Two>>)>>,
            <<Function("f", <<"x">>, <<Call("f", <<X>>), X>>), Call("f", <<Two>>)>>}

(* every way to stop: type errors, exits of the C code, a trap, a failed   *)
(* assertion, an undefined variable, a value that only reads as undefined  *)
Values0 == {One, Atom("max"), Atom("0.5"), Atom("s"), Atom("true"), Arr(<<>>),
            Obj0, Builtin("None", <<>>), Builtin("Some", <<One>>)}
Endings ==
    {<<Bin(op, <<a, b>>)>> : op \in {"ADD", "SUB", "MUL", "DIV", "EQ"}, a \in Values0, b \in Values0}
      \cup {<<Bin("DIV", <<One, Atom("0")>>)>>, <<Bin("DIV", <<Atom("max"), Two>>)>>, <<X>>}
      \cup {<<Let("x", a), Builtin("assert", <<Bin("EQ", <<X, a>>)>>), Builtin(b, <<X>>)>> :
               a \in Values0, b \in {"type", "len"}}
      \cup {<<Builtin(b, ch)>> : b \in {"type", "len", "Some", "print"},
                                 ch \in {<<>>, <<Obj0>>, <<One, Two>>}}
      \cup {<<Match(<<Branch(Atom("false"), One), Branch(a, Two), X>>)>> : a \in Values0}

MCPrograms == Layers \cup NestedDefinitions \cup Endings
MCNodes == AllNodes(MCPrograms)
MCTokens == {n.tok : n \in MCNodes} \cup CompileTime \cup Runtime

MCLitValue == [t \in MCTokens |->
    CASE t = "0"     -> Int64(0)
      [] t = "1"     -> Int64(1)
      [] t = "2"     -> Int64(2)
      [] t = "max"   -> Int64(127)
      [] t = "0.5"   -> Double(5)
      [] t = "true"  -> True
      [] t = "false" -> False
      [] OTHER       -> Str(<<t>>)]
Index(names, t) == IF \E k \in 1..Len(names) : names[k] = t
                   THEN CHOOSE k \in 1..Len(names) : names[k] = t ELSE 0
MCBucket  == [t \in MCTokens |-> Index(<<"0", "1", "2", "max", "0.5", "s">>, t)]
MCVarHash == [t \in MCTokens |-> Index(<<"x", "y">>, t)]
MCFnHash  == [t \in MCTokens |->
                 Index(<<"let", "function", "assert", "None", "match", "print",
                         "println", "len", "type", "Some", "f", "g">>, t)]
=============================================================================
