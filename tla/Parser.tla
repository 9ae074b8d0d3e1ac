------------------------------- MODULE Parser -------------------------------
(***************************************************************************)
(* The parser (parser.c): one action per label Parser_all jumps to.  It    *)
(* has no recursion: the lists that are still open are on a stack whose    *)
(* bottom is the root.  Every closing token closes the innermost list,     *)
(* whatever token opened it.                                               *)
(***************************************************************************)
EXTENDS Integers, Sequences

CONSTANT STACK_SIZE        \* 256

VARIABLES
    tokens,                \* the lexer's output
    room,                  \* top-level nodes main.c requested memory for
    p_pos,                 \* Parser.pos
    open,                  \* the stack, the root first
    p_status

parserVars == <<p_pos, open, p_status>>

NoToken == [type |-> "none", start |-> 0, end |-> 0]
Node(type, token, children) == [type |-> type, token |-> token, children |-> children]

Available == p_pos < Len(tokens)
Current == tokens[p_pos + 1]
Parsing(types) == p_status = "parsing" /\ Available /\ Current.type \in types

Atoms == {"T_STRING", "T_TRUE", "T_FALSE", "T_DOUBLE", "T_INTEGER"}
Operators == {"T_PLUS", "T_MINUS", "T_ASTERISKS", "T_SLASH", "T_EQUAL"}

Top == open[Len(open)]
Below == SubSeq(open, 1, Len(open) - 1)

(* Node_add_child to the last node of stack.  The root's array is the one  *)
(* main.c requested, which is smaller than its children_cap says; the      *)
(* other nodes' arrays grow.                                               *)
AddChild(stack, child) ==
    LET list == stack[Len(stack)]
    IN  IF Len(stack) = 1 /\ Len(list.children) = room
        THEN p_status' = "undefined" /\ UNCHANGED open
        ELSE /\ open' = [stack EXCEPT ![Len(stack)].children = Append(@, child)]
             /\ UNCHANGED p_status

(* stack[++stack_top] = node: nothing checks the size of the stack *)
Open(node) ==
    IF Len(open) < STACK_SIZE
    THEN open' = Append(open, node) /\ UNCHANGED p_status
    ELSE p_status' = "undefined" /\ UNCHANGED open

AdvanceBy(n) == p_pos' = p_pos + n
Abort == p_status' = "aborted" /\ UNCHANGED <<p_pos, open>>

-----------------------------------------------------------------------------
Init ==
    /\ p_pos = 0
    /\ open = <<Node("N_UNKNOWN", NoToken, <<>>)>>
    /\ p_status = "parsing"

Atom ==
    /\ Parsing(Atoms)
    /\ AddChild(open, Node("N_ATOM", Current, <<>>))
    /\ AdvanceBy(1)

Ident ==
    /\ Parsing({"T_IDENT"})
    /\ AddChild(open, Node("N_IDENT", Current, <<>>))
    /\ AdvanceBy(1)

HeadTypeOfList(t) ==    \* mutant: no case for names
    CASE t.type = "T_BUILTIN"     -> "N_BUILTIN"
      [] t.type \in Operators     -> "N_BIN"
      [] OTHER                    -> "N_LIST"
(* the token behind the ( decides; a list keeps it for its first child *)
HeadType(t) ==
    CASE t.type = "T_BUILTIN"     -> "N_BUILTIN"
      [] t.type \in Operators     -> "N_BIN"
      [] t.type = "T_IDENT"       -> "N_CALL"
      [] OTHER                    -> "N_LIST"
stmt_begin_advancing ==    \* mutant: the default case advances as well
    /\ Parsing({"T_DELIMITOR_LEFT"})
    /\ Open(Node(HeadType(tokens[p_pos + 2]), tokens[p_pos + 2], <<>>))
    /\ AdvanceBy(2)
stmt_begin_consuming ==    \* mutant: the operator stays
    /\ Parsing({"T_DELIMITOR_LEFT"})
    /\ LET head == tokens[p_pos + 2]
       IN  /\ Open(Node(HeadType(head), head, <<>>))
           /\ AdvanceBy(IF HeadType(head) \in {"N_LIST", "N_CALL"} THEN 1 ELSE 2)
stmt_begin ==
    /\ Parsing({"T_DELIMITOR_LEFT"})
    /\ LET head == tokens[p_pos + 2]
       IN  /\ Open(Node(HeadType(head), head, <<>>))
           /\ AdvanceBy(IF HeadType(head) = "N_LIST" THEN 1 ELSE 2)

arr_start ==
    /\ Parsing({"T_BRAKET_LEFT"})
    /\ Open(Node("N_ARRAY", NoToken, <<>>))
    /\ AdvanceBy(1)

obj_start ==
    /\ Parsing({"T_CURLY_LEFT"})
    /\ Open(Node("N_OBJECT", NoToken, <<>>))
    /\ AdvanceBy(1)

Closers == {"T_DELIMITOR_RIGHT", "T_BRAKET_RIGHT", "T_CURLY_RIGHT"}

(* the three ends do the same, and none looks at what it closes *)
Close(type) ==
    /\ Parsing({type}) /\ Len(open) > 1
    /\ AddChild(Below, Top)
    /\ AdvanceBy(1)

stmt_end == Close("T_DELIMITOR_RIGHT")
arr_end  == Close("T_BRAKET_RIGHT")
obj_end  == Close("T_CURLY_RIGHT")

UnexpectedEnd == Parsing(Closers) /\ Len(open) = 1 /\ Abort

eof_unchecked ==     \* mutant: no assert on the stack
    /\ Parsing({"T_EOF"})
    /\ p_status' = "parsed"
    /\ UNCHANGED <<p_pos, open>>
eof ==
    /\ Parsing({"T_EOF"}) /\ Len(open) = 1
    /\ p_status' = "parsed"
    /\ UNCHANGED <<p_pos, open>>

MissingEnd == Parsing({"T_EOF"}) /\ Len(open) > 1 /\ Abort

(* a builtin or an operator that follows no ( has no entry in jump_table: *)
(* the goto goes to address 0                                             *)
NoTarget ==
    /\ Parsing(Operators \cup {"T_BUILTIN"})
    /\ p_status' = "crashed"
    /\ UNCHANGED <<p_pos, open>>

Next == \/ Atom \/ Ident \/ stmt_begin \/ arr_start \/ obj_start
        \/ stmt_end \/ arr_end \/ obj_end \/ UnexpectedEnd \/ eof \/ MissingEnd \/ NoTarget

-----------------------------------------------------------------------------
(* Properties                                                              *)

NodeTypes == {"N_ATOM", "N_IDENT", "N_ARRAY", "N_OBJECT", "N_LIST", "N_BUILTIN",
              "N_BIN", "N_CALL", "N_UNKNOWN"}

(* Every variable of the parser has its type, and only the root is an      *)
(* N_UNKNOWN.                                                              *)
TypeOK ==
    /\ p_pos \in 0..Len(tokens)
    /\ Len(open) \in 1..STACK_SIZE
    /\ \A d \in 1..Len(open) :
          open[d].type \in NodeTypes /\ (open[d].type = "N_UNKNOWN" <=> d = 1)
    /\ p_status \in {"parsing", "parsed", "aborted", "crashed", "undefined"}

(* The parser never looks behind the tokens the lexer wrote: advance reads *)
(* tokens[pos] without a bound (parser.c:20-23), and only the end marker   *)
(* keeps it inside.                                                        *)
StaysInTokens == p_status = "parsing" /\ Len(tokens) > 0 => Available
=============================================================================
