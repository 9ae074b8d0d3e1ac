----------------------------- MODULE Semantics ------------------------------
(***************************************************************************)
(* What a purple-garden program means, by recursion over its syntax tree:  *)
(* no bytecode, registers, jumps or frames.  It is the reference the       *)
(* compiler and the machine are compared with.  Variables live in an       *)
(* environment by name, a function sees its parameters and what was        *)
(* defined before it, and arguments are evaluated from left to right.      *)
(* Arithmetic, comparison and @len are defined here by what the documents  *)
(* and the tests say of them, not by the operators of the machine.         *)
(***************************************************************************)
EXTENDS Values, TLC

CONSTANT LitValue

(* v the last value, env the variables, fns the functions, out what was    *)
(* printed, s how the evaluation stands                                    *)
Start == [v |-> None, env |-> <<>>, fns |-> <<>>, out |-> <<>>, s |-> "ok"]

Give(st, v) == [st EXCEPT !.v = v]
Settle(st, o) == IF o.status = "ok" THEN Give(st, o.value) ELSE [st EXCEPT !.s = o.status]
Ok(v)  == Outcome("ok", v)
Failed == Outcome("error", None)

-----------------------------------------------------------------------------
(* The operators, on the operands as they are written (tests/test.c:81-116) *)

Integers64 == -2^(IntBits - 1)..2^(IntBits - 1) - 1
InRange(i) == CHOOSE k \in Integers64 : (k - i) % 2^IntBits = 0
Quotients(a, b) ==
    {q \in Integers64 : LET rest == a - q * b
                        IN  Abs(rest) < Abs(b) /\ (rest = 0 \/ (rest < 0) = (a < 0))}

(* an integer result is the exact one, reduced to the width of integers; a *)
(* division without a quotient of that width kills the process             *)
Compute(op, a, b) ==
    LET types == {a.type, b.type}
    IN  CASE op = "ADD" /\ types = {"Str"} -> Ok(Str(a.str \o b.str))
          [] types = {"Int"} /\ op = "ADD" -> Ok(Int64(InRange(a.num + b.num)))
          [] types = {"Int"} /\ op = "SUB" -> Ok(Int64(InRange(a.num - b.num)))
          [] types = {"Int"} /\ op = "MUL" -> Ok(Int64(InRange(a.num * b.num)))
          [] types = {"Int"} /\ op = "DIV" ->
                IF Quotients(a.num, b.num) = {} THEN Outcome("trap", None)
                ELSE Ok(Int64(CHOOSE q \in Quotients(a.num, b.num) : TRUE))
          [] types \in {{"Double"}, {"Int", "Double"}} ->
                Ok(Double(DoubleOp(op, Value_as_double(a), Value_as_double(b))))
          [] OTHER -> Failed

(* values are compared, not what an option, a list or an object holds      *)
(* (common.c:14-20)                                                        *)
Same(a, b) ==
    /\ ~a.some /\ ~b.some /\ a.type \notin {"Array", "Obj"}
    /\ \/ a = b
       \/ {a.type, b.type} = {"Double"} /\ DoubleEq(a.num, b.num)

(* @len: of a string its characters (tests/test.c:106-110, docs/lang.md:   *)
(* 62), of a list its elements (builtins.c:67, docs/lang.md:63), of an     *)
(* object its size (builtins.c:79): none, as only empty ones are compiled. *)
(* Else "only strings and lists have a length" (builtins.c:81).            *)
Length(v) == CASE v.type = "Str"             -> Ok(Int64(Len(v.str)))
               [] v.type \in {"Array", "Obj"} -> Ok(Int64(0))
               [] OTHER                      -> Failed

-----------------------------------------------------------------------------

RECURSIVE Eval(_, _), EvalAll(_, _), EvalCases(_, _, _), EvalArgs(_, _, _)

(* a sequence of expressions: the value is the last one's *)
EvalAll(ns, st) == IF ns = <<>> THEN st ELSE EvalAll(Tail(ns), Eval(Head(ns), st))

(* the values of a list of arguments, and the state after the last one *)
EvalArgs(ns, st, values) ==
    IF ns = <<>> \/ st.s # "ok" THEN [st |-> st, values |-> values]
    ELSE LET one == Eval(Head(ns), st)
         IN  EvalArgs(Tail(ns), one, Append(values, one.v))

(* the body of the first case whose condition is not false, else the       *)
(* default, wherever it is written                                         *)
EvalCases(cases, default, st) ==
    IF cases = <<>> THEN EvalAll(default, st)
    ELSE LET c == Eval(Head(cases).ch[1], st)
         IN  IF c.s = "ok" /\ c.v.type = "False"
             THEN EvalCases(Tail(cases), default, c)
             ELSE Eval(Head(cases).ch[2], c)

Conditional(c) == Len(c.ch) > 1
Default(c) == ~Conditional(c)

Param(n, k) == n.ch[2].ch[k].tok

EvalBuiltin(n, st) ==
    LET e == EvalArgs(n.ch, st, <<>>)
        single(op(_)) == IF Len(e.values) = 1 THEN Settle(e.st, op(e.values[1]))
                         ELSE [e.st EXCEPT !.s = "abort"]
    IN  IF e.st.s # "ok" THEN e.st
        ELSE CASE n.tok \in {"print", "println"} ->
                    [e.st EXCEPT !.out = Append(@, [call |-> n.tok, values |-> e.values])]
               [] n.tok = "type" -> single(builtin_type)
               [] n.tok = "len"  -> single(Length)
               [] n.tok = "Some" -> single(builtin_Some)

Eval(n, st) ==
    IF st.s # "ok" THEN st
    ELSE CASE n.kind = "N_ATOM"  -> Give(st, LitValue[n.tok])
           [] n.kind = "N_IDENT" -> IF n.tok \in DOMAIN st.env THEN Give(st, st.env[n.tok])
                                    ELSE [st EXCEPT !.s = "error"]
           [] n.kind = "N_OBJECT" -> Give(st, Obj)
           [] n.kind \in {"N_LIST", "N_ARRAY"} -> Give(st, Array)
           [] n.kind = "N_BIN" /\ Len(n.ch) = 1 -> Eval(n.ch[1], st)
           [] n.kind = "N_BIN" /\ Len(n.ch) = 2 ->
                LET e == EvalArgs(n.ch, st, <<>>)
                    a == e.values[1]
                    b == e.values[2]
                IN  IF e.st.s # "ok" THEN e.st
                    ELSE IF n.tok = "EQ" THEN Give(e.st, Bool(Same(a, b)))
                    ELSE Settle(e.st, Compute(n.tok, a, b))
           [] n.kind = "N_BUILTIN" ->
                CASE n.tok = "let" ->
                        LET e == Eval(n.ch[2], st)
                        IN  [e EXCEPT !.env = (n.ch[1].tok :> e.v) @@ @]
                  [] n.tok = "None" -> Give(st, None)
                  [] n.tok = "assert" ->
                        LET e == EvalAll(n.ch, st)
                        IN  IF e.s = "ok" /\ e.v.type # "True"
                            THEN [e EXCEPT !.s = "error"] ELSE e
                  [] n.tok = "match" -> EvalCases(SelectSeq(n.ch, Conditional), SelectSeq(n.ch, Default), st)
                  [] n.tok = "function" ->
                        [st EXCEPT !.fns = (n.ch[1].tok :> [decl |-> n, fns |-> st.fns]) @@ @]
                  [] OTHER -> EvalBuiltin(n, st)
           [] n.kind = "N_CALL" ->
                LET e == EvalArgs(n.ch, st, <<>>)
                    f == st.fns[n.tok]
                    names == {Param(f.decl, k) : k \in 1..Len(e.values)}
                    scope == [x \in names |->
                                 e.values[CHOOSE k \in 1..Len(e.values) : Param(f.decl, k) = x]]
                    result == EvalAll(SubSeq(f.decl.ch, 3, Len(f.decl.ch)),
                                      [e.st EXCEPT !.env = scope, !.fns = f.fns])
                IN  IF e.st.s # "ok" THEN e.st
                    ELSE [result EXCEPT !.env = e.st.env, !.fns = e.st.fns]

Meaning(program) == EvalAll(program, Start)
=============================================================================
