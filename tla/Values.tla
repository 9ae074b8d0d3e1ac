------------------------------- MODULE Values -------------------------------
(***************************************************************************)
(* The values of the purple-garden runtime (common.h Value, common.c) and  *)
(* the pure computations the virtual machine performs on them.             *)
(*                                                                         *)
(* A Value is the C struct without its union: every value has all payload  *)
(* fields, and the ones its type does not use hold a fixed default, so     *)
(* that equality of records is equality of values.  A string is the        *)
(* sequence of its characters; a double is an element of a set of opaque   *)
(* numbers whose arithmetic is a parameter.                                *)
(***************************************************************************)
EXTENDS Integers, Sequences

CONSTANTS
    IntBits,             \* width of Value.integer (64 in common.h)
    ToDouble(_),         \* (double)integer
    DoubleOp(_, _, _),   \* IEEE result of an operation on two doubles
    DoubleEq(_, _)       \* |a - b| < PREC, common.c:46-47

Types == {"None", "Str", "Double", "Int", "True", "False", "Array", "Obj"}

Value == [type : Types, some : BOOLEAN, num : Int, str : Seq(STRING)]

Plain(t)  == [type |-> t, some |-> FALSE, num |-> 0, str |-> <<>>]
None      == Plain("None")
True      == Plain("True")
False     == Plain("False")
Int64(i)  == [Plain("Int") EXCEPT !.num = i]
Double(d) == [Plain("Double") EXCEPT !.num = d]
Str(s)    == [Plain("Str") EXCEPT !.str = s]
Array     == Plain("Array")
Obj       == Plain("Obj")
Some(v)   == [v EXCEPT !.some = TRUE]

Bool(b) == IF b THEN True ELSE False

(* Value_cmp: a shallow comparison.  Arrays, objects and options are never *)
(* equal to anything, not even to themselves unless the pointers agree.    *)
Value_cmp(a, b) ==
    /\ a.type = b.type
    /\ ~a.some /\ ~b.some
    /\ CASE a.type = "Str"    -> a.str = b.str
         [] a.type = "Double" -> DoubleEq(a.num, b.num)
         [] a.type = "Int"    -> a.num = b.num
         [] OTHER             -> a.type \in {"True", "False", "None"}

-----------------------------------------------------------------------------
(* Arithmetic.  An outcome is the value left in r0 and how the operation   *)
(* ended: "ok", "error" (VM_ERR: the VM stops and returns 1), "abort" (an  *)
(* ASSERT calls exit) or "trap" (SIGFPE).                                  *)

Outcome(s, v) == [status |-> s, value |-> v]

(* int64_t arithmetic as the build performs it: two's complement wrapping *)
Wrap(i) == LET half == 2^(IntBits - 1) IN ((i + half) % (2 * half)) - half

Abs(i) == IF i < 0 THEN -i ELSE i

(* C division truncates towards zero *)
Quotient(a, b) ==
    IF (a < 0) = (b < 0) THEN Abs(a) \div Abs(b) ELSE -(Abs(a) \div Abs(b))

(* the two divisions for which idiv raises SIGFPE *)
Traps(a, b) == b = 0 \/ (b = -1 /\ a = -2^(IntBits - 1))

IntOp(op, a, b) ==
    CASE op = "ADD" -> Wrap(a + b)
      [] op = "SUB" -> Wrap(a - b)
      [] op = "MUL" -> Wrap(a * b)
      [] op = "DIV" -> Quotient(a, b)

Numeric(v) == v.type \in {"Int", "Double"}

Value_as_double(v) == IF v.type = "Double" THEN v.num ELSE ToDouble(v.num)

(* OP_ADD, OP_SUB, OP_MUL, OP_DIV: left is r0, right is the register the   *)
(* operand names.  The numeric cases assign r0 in place: its is_some flag  *)
(* survives.  Only OP_ADD knows strings, and it builds a new value.        *)
Arith(op, left, right) ==
    CASE op = "ADD" /\ left.type = "Str" /\ right.type = "Str" ->
            Outcome("ok", Str(right.str \o left.str))
      [] "Double" \in {left.type, right.type} ->
            IF Numeric(left) /\ Numeric(right)
            THEN Outcome("ok", [Double(DoubleOp(op, Value_as_double(right),
                                                Value_as_double(left)))
                                  EXCEPT !.some = left.some])
            ELSE Outcome("abort", left)
      [] left.type = "Int" /\ right.type = "Int" ->
            IF op = "DIV" /\ Traps(right.num, left.num)
            THEN Outcome("trap", left)
            ELSE Outcome("ok", [Int64(IntOp(op, right.num, left.num))
                                  EXCEPT !.some = left.some])
      [] OTHER -> Outcome("error", left)

-----------------------------------------------------------------------------
(* The builtins that return a value, on the value of their one argument.   *)

(* builtin_type: any option is an "option", a number of either kind "number" *)
TypeName(v) ==
    CASE v.some \/ v.type = "None"      -> "option"
      [] ~v.some /\ v.type = "Str"      -> "string"
      [] ~v.some /\ Numeric(v)          -> "number"
      [] ~v.some /\ v.type = "Array"    -> "array"
      [] ~v.some /\ v.type = "Obj"      -> "object"
      [] OTHER                          -> "boolean"

builtin_type(v) == Outcome("ok", Str(<<TypeName(v)>>))

builtin_Some(v) == Outcome("ok", Some(v))

(* builtin_len: the second test is not an else-if of the first, so strings *)
(* and arrays reach the exit too                                           *)
builtin_len(v) ==
    IF v.type = "Obj" THEN Outcome("ok", Int64(0)) ELSE Outcome("abort", v)
=============================================================================
