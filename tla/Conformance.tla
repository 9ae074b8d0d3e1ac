---------------------------- MODULE Conformance -----------------------------
(***************************************************************************)
(* The program against the reference semantics: from the command line over *)
(* text, tokens, trees and bytecode to the output and the exit code.       *)
(*                                                                         *)
(* The two agree on straight programs: the compiler passes arguments in    *)
(* whatever registers are free (cc.c:344-358), callees read them from r1   *)
(* on (cc.c:253-268, builtins.c:51), so a call is only sound where no      *)
(* register is held: not in a second operand and not in a second argument. *)
(***************************************************************************)
EXTENDS Main
LOCAL INSTANCE SequencesExt

(* the trees a text was written for: history, no step reads it *)
VARIABLE meant

meantVars == <<vars, meant>>
Step == Next /\ UNCHANGED meant

(* what a literal stands for, where token_to_value does not refuse it *)
Denotes(t) ==
    LET digits == SelectSeq(t.text, LAMBDA c : c # ".")
    IN  CASE t.type = "T_INTEGER" -> Int64(Decimal(t.text))
          [] t.type = "T_DOUBLE"  ->
                Double(DoubleOf(Scaled(Decimal(digits),
                                       SelectInSeq(t.text, LAMBDA c : c = ".") - Len(t.text))))
          [] t.type = "T_TRUE"    -> True
          [] t.type = "T_FALSE"   -> False
          [] OTHER                -> Str(t.text)

LOCAL Sem == INSTANCE Semantics WITH
                LitValue <- [t \in [type : STRING, text : Seq(STRING)] |-> Denotes(t)]

(* held: some register holds a value while n is evaluated *)
RECURSIVE Straight(_, _)
Straight(n, held) ==
    LET operands == \A k \in 1..Len(n.ch) : Straight(n.ch[k], held \/ k > 1)
        children == \A k \in 1..Len(n.ch) : Straight(n.ch[k], held)
    IN  CASE n.kind = "N_BIN" -> operands
          [] n.kind = "N_CALL" -> ~held /\ operands
          [] n.kind = "N_BUILTIN" /\ n.tok \in Runtime -> ~held /\ operands
          [] OTHER -> children

ExitOf(s) == CASE s = "ok" -> "success" [] s = "trap" -> "killed" [] OTHER -> "failure"

(* main ran a text whose meaning is known, in a heap the user did not make *)
(* too small, and met no undefined behaviour                               *)
Ran == /\ phase # "Args_parse" /\ input \in DOMAIN meant
       /\ UsesBump => vm_status \notin {"idle", "running"}
       /\ exit \notin {"running", "undefined"}

(* When the process ends it has printed what the text means and exits the  *)
(* way the program ends, and if that is well r0 holds its value: lexer,    *)
(* parser, registers, jumps and frames together compute the language's     *)
(* meaning, and main passes the outcome on (main.c:267).                   *)
ResultAgrees ==
    Ran =>
        LET m == Sem!Meaning(meant[input])
        IN  /\ out = m.out
            /\ exit = ExitOf(m.s)
            /\ m.s = "ok" => r[0] = m.v
=============================================================================
