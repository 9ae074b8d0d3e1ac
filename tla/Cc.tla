--------------------------------- MODULE Cc ---------------------------------
(***************************************************************************)
(* The bytecode compiler (cc.c): one recursive walk over the syntax tree   *)
(* that emits instructions, fills the global pool and hands out registers. *)
(*                                                                         *)
(* The C recursion is an explicit stack of activations of compile().  An   *)
(* action is the code between two recursive calls.  A failed ASSERT, a     *)
(* TODO or undefined behaviour ends the run: the process is gone, and      *)
(* status names why.                                                       *)
(*                                                                         *)
(* An address counts instructions from 0, where the code counts the two    *)
(* words each instruction occupies.                                        *)
(***************************************************************************)
EXTENDS Values, Config

CONSTANTS
    Nodes,              \* the syntax trees under consideration
    Programs,           \* sequences of top-level nodes
    Tokens,             \* the texts of their tokens
    LitValue,           \* token_to_value of a literal's token; None: refused
    Bucket,             \* string.hash & GLOBAL_MASK
    VarHash,            \* string.hash & VARIABLE_TABLE_SIZE_MASK
    FnHash              \* string.hash & MAX_BUILTIN_SIZE_MASK

Kinds == {"N_ATOM", "N_IDENT", "N_BIN", "N_BUILTIN", "N_CALL",
          "N_OBJECT", "N_LIST", "N_ARRAY"}
BinOps == {"ADD", "SUB", "MUL", "DIV", "EQ"}

ASSUME NodesAssumption ==
    /\ \A n \in Nodes :
          /\ n.kind \in Kinds
          /\ n.tok \in Tokens
          /\ n.ch \in Seq(Nodes)
          /\ n.kind = "N_BIN" => n.tok \in BinOps
    /\ Programs \subseteq Seq(Nodes)

ASSUME HashAssumption ==
    /\ CompileTime \cup Runtime \subseteq Tokens
    /\ \A a, b \in CompileTime \cup Runtime : FnHash[a] = FnHash[b] => a = b
    /\ LitValue \in [Tokens -> Value]
    /\ Bucket \in [Tokens -> 0..GLOBAL_SIZE - 1]
    /\ VarHash \in [Tokens -> 0..VARIABLE_TABLE_SIZE - 1]
    /\ FnHash \in [Tokens -> 0..MAX_BUILTIN_SIZE - 1]

VARIABLES
    program,                   \* the top-level nodes
    next,                      \* how many of them cc() has taken
    stack,                     \* the activations of compile(), innermost last
    bytecode,
    globals,                   \* globals[i + 1] is vm->globals[i]
    global_hash_buckets,       \* 0, or 1 + the index of the interned global
    registers,
    register_allocated_count,
    hash_to_function,
    status

ccVars == <<program, next, stack, bytecode, globals, global_hash_buckets,
            registers, register_allocated_count, hash_to_function, status>>

-----------------------------------------------------------------------------
Null == ""
NoSlot == -1
Placeholder == -1      \* 0xAFFEDEAD, beyond every address

GLOBAL_FALSE == 0
GLOBAL_TRUE  == 1
GLOBAL_NONE  == 2

Instr(op, arg) == [op |-> op, arg |-> arg]
Ops == BinOps \cup {"STORE", "LOAD", "VAR", "LOADV", "ARGS", "BUILTIN",
                    "LEAVE", "CALL", "JMP", "JMPF", "ASSERT", "LOADG"}

CtxFunction == [name : Tokens \cup {Null}, size : Nat,
                bytecode_index : Nat, argument_count : Nat]
NoFunction == [name |-> Null, size |-> 0, bytecode_index |-> 0,
               argument_count |-> 0]

(* One activation of compile(n).  i counts the recursive calls it has made *)
(* (for a match: the cases it has finished), regs is its local registers   *)
(* array (or r), mark the slot of its JMP or JMPF awaiting a target, slots *)
(* backfill_slots, default encountered_default_cause and phase where in a  *)
(* case of a match it is.  base is a history field no step reads: the      *)
(* register_allocated_count on entry.                                      *)
Activation(n) == [n |-> n, i |-> 0, regs |-> <<>>, mark |-> 0,
                  slots |-> <<>>, default |-> FALSE, phase |-> "start",
                  base |-> register_allocated_count]
Phases == {"start", "condition", "body", "default"}

Top == stack[Len(stack)]
Caller == SubSeq(stack, 1, Len(stack) - 1)
Len0 == Len(bytecode)

At(kind) == /\ status = "compiling"
            /\ stack # <<>>
            /\ Top.n.kind = kind

(* runtime_builtin_hashes: which compile time construct a name stands for *)
Construct(tok) ==
    IF \E c \in CompileTime : FnHash[c] = FnHash[tok]
    THEN CHOOSE c \in CompileTime : FnHash[c] = FnHash[tok]
    ELSE "UNKNOWN"

AtConstruct(c) == At("N_BUILTIN") /\ Construct(Top.n.tok) = c

(* vm->builtins[hash] # NULL *)
Registered(tok) == \E b \in Runtime : FnHash[b] = FnHash[tok]
Callee(tok) == hash_to_function[FnHash[tok]]

-----------------------------------------------------------------------------
(* The BC macro writes, then asserts: the instruction that overflows is    *)
(* already in memory when the process exits.                               *)
Write(code) ==
    IF Len(code) <= BYTECODE_SIZE
    THEN bytecode' = code /\ status' = "compiling"
    ELSE /\ bytecode' = SubSeq(code, 1, BYTECODE_SIZE + 1)
         /\ status' = "out_of_bytecode"
Emit(code) == Write(bytecode \o code)

PatchShort(code, slot, target) ==     \* mutant: one instruction short
    [code EXCEPT ![slot + 1].arg = target - 1]
PatchItself(code, slot, target) ==    \* mutant: the slot, not the target
    [code EXCEPT ![slot + 1].arg = slot]
Patch(code, slot, target) == [code EXCEPT ![slot + 1].arg = target]

Compile(child, self) ==
    stack' = Append([stack EXCEPT ![Len(stack)] = self], Activation(child))
Continue(self) == stack' = [stack EXCEPT ![Len(stack)] = self]
Return == stack' = Caller

Fail(reason) ==
    /\ status' = reason
    /\ UNCHANGED <<program, next, stack, bytecode, globals, registers,
                   global_hash_buckets, register_allocated_count,
                   hash_to_function>>

poolVars == <<globals, global_hash_buckets>>
registerVars == <<registers, register_allocated_count>>

(* an action that does nothing else than to emit code and return, to call  *)
(* compile for a child, or to return                                       *)
Leaf(code) ==
    /\ Emit(code)
    /\ Return
    /\ UNCHANGED <<program, next, hash_to_function, poolVars, registerVars>>
Descend(child, self) ==
    /\ Compile(child, self)
    /\ UNCHANGED <<program, next, bytecode, hash_to_function, status>>
    /\ UNCHANGED <<poolVars, registerVars>>
ReturnOnly ==
    /\ Return
    /\ UNCHANGED <<program, next, bytecode, hash_to_function, status>>
    /\ UNCHANGED <<poolVars, registerVars>>

(* Ctx_allocate_register, which returns register_allocated_count *)
AllocateInPlace ==      \* mutant: the count is not incremented
    /\ registers' = [registers EXCEPT ![register_allocated_count] = TRUE]
    /\ UNCHANGED register_allocated_count
AllocateUnmarked ==     \* mutant: the register is not marked
    /\ register_allocated_count' = register_allocated_count + 1
    /\ UNCHANGED registers
Allocate ==
    /\ registers' = [registers EXCEPT ![register_allocated_count] = TRUE]
    /\ register_allocated_count' = register_allocated_count + 1

(* Ctx_free_register of every register in regs, last first.  FreeAllowed   *)
(* is what its two asserts demand of each of these calls.                  *)
FreeAllowed(regs) ==
    \A k \in 1..Len(regs) :
        /\ regs[k] < register_allocated_count - (Len(regs) - k)
        /\ registers[regs[k]]
        /\ \A j \in k + 1..Len(regs) : regs[j] # regs[k]
FreeOneMore(regs) ==    \* mutant: the count drops once too often
    /\ register_allocated_count' = register_allocated_count - Len(regs) - 1
    /\ registers' = [r \in 0..REGISTERS |->
                        registers[r] /\ \A k \in 1..Len(regs) : regs[k] # r]
FreeUnmarked(regs) ==   \* mutant: the marks stay
    /\ register_allocated_count' = register_allocated_count - Len(regs)
    /\ UNCHANGED registers
FreeDownToOne(regs) ==  \* mutant: the loop stops before index 0
    /\ register_allocated_count' =
            register_allocated_count - (IF regs = <<>> THEN 0 ELSE Len(regs) - 1)
    /\ registers' = [r \in 0..REGISTERS |->
                        registers[r] /\ \A k \in 2..Len(regs) : regs[k] # r]
Free(regs) ==
    /\ register_allocated_count' = register_allocated_count - Len(regs)
    /\ registers' = [r \in 0..REGISTERS |->
                        registers[r] /\ \A k \in 1..Len(regs) : regs[k] # r]

-----------------------------------------------------------------------------
Init ==
    /\ program \in Programs
    /\ next = 0
    /\ stack = <<>>
    /\ bytecode = <<>>
    /\ globals = <<False, True, None>>
    /\ global_hash_buckets = [b \in 0..GLOBAL_SIZE - 1 |-> 0]
    /\ registers = [r \in 0..REGISTERS |-> FALSE]
    /\ register_allocated_count = 1     \* r0 is the temporary
    /\ hash_to_function = [h \in 0..MAX_BUILTIN_SIZE - 1 |-> NoFunction]
    /\ status = "compiling"

(* cc(): the loop over the top-level nodes *)
CompileTop ==
    /\ status = "compiling" /\ stack = <<>> /\ next < Len(program)
    /\ next' = next + 1
    /\ stack' = <<Activation(program[next + 1])>>
    /\ UNCHANGED <<program, bytecode, hash_to_function, status>>
    /\ UNCHANGED <<poolVars, registerVars>>

Done ==
    /\ status = "compiling" /\ stack = <<>> /\ next = Len(program)
    /\ status' = "done"
    /\ UNCHANGED <<program, next, stack, bytecode, hash_to_function>>
    /\ UNCHANGED <<poolVars, registerVars>>

-----------------------------------------------------------------------------
(* N_ATOM and the other nodes that put a value into the global pool        *)

CompileBool ==
    /\ At("N_ATOM") /\ LitValue[Top.n.tok].type \in {"True", "False"}
    /\ Leaf(<<Instr("LOADG", IF LitValue[Top.n.tok].type = "True"
                             THEN GLOBAL_TRUE ELSE GLOBAL_FALSE)>>)

IsLiteral == At("N_ATOM") /\ LitValue[Top.n.tok].type \notin {"True", "False"}
Cached == global_hash_buckets[Bucket[Top.n.tok]]
CachedUnshifted == Cached    \* mutant: the stored index is one more
CachedIndex == Cached - 1
PoolFull == Len(globals) + 1 >= GLOBAL_SIZE
Converts == LitValue[Top.n.tok].type # "None"

(* only the bucket is compared: the tag bits and the value are not *)
CompileCached ==
    /\ IsLiteral /\ Cached # 0
    /\ Leaf(<<Instr("LOADG", CachedIndex)>>)

CompileLiteral ==
    /\ IsLiteral /\ Cached = 0 /\ ~PoolFull /\ Converts
    /\ global_hash_buckets' =
            [global_hash_buckets EXCEPT ![Bucket[Top.n.tok]] = Len(globals) + 1]
    /\ globals' = Append(globals, LitValue[Top.n.tok])
    /\ Emit(<<Instr("LOADG", Len(globals))>>)
    /\ Return
    /\ UNCHANGED <<program, next, hash_to_function, registerVars>>

IsEmptyAggregate == \/ At("N_OBJECT")
                    \/ (At("N_LIST") \/ At("N_ARRAY")) /\ Top.n.ch = <<>>

CompileAggregate ==
    /\ IsEmptyAggregate /\ ~PoolFull
    /\ globals' = Append(globals, IF Top.n.kind = "N_OBJECT" THEN Obj ELSE Array)
    /\ Emit(<<Instr("LOADG", Len(globals))>>)
    /\ Return
    /\ UNCHANGED <<program, next, hash_to_function, global_hash_buckets,
                   registerVars>>

OutOfGlobals ==
    /\ PoolFull
    /\ IsEmptyAggregate \/ (IsLiteral /\ Cached = 0)
    /\ Fail("out_of_globals")

CompileIdent ==
    /\ At("N_IDENT")
    /\ Leaf(<<Instr("LOADV", VarHash[Top.n.tok])>>)

-----------------------------------------------------------------------------
(* N_BIN: one operand is compiled for its value; of two, the first is kept *)
(* in a register while the second is compiled                              *)

NextOperand ==
    /\ At("N_BIN") /\ Len(Top.n.ch) \in {1, 2}
    /\ Top.i = Len(Top.regs) /\ Top.i < Len(Top.n.ch)
    /\ Descend(Top.n.ch[Top.i + 1], [Top EXCEPT !.i = @ + 1])

SingleOperand ==
    /\ At("N_BIN") /\ Len(Top.n.ch) = 1 /\ Top.i = 1
    /\ ReturnOnly

CompileBin ==
    /\ At("N_BIN") /\ Top.i = 2
    /\ Emit(<<Instr(Top.n.tok, Top.regs[1])>>)
    /\ Free(Top.regs)
    /\ Return
    /\ UNCHANGED <<program, next, hash_to_function, poolVars>>

-----------------------------------------------------------------------------
(* Runtime builtins and N_CALL: every argument is compiled and stored in a *)
(* register, the registers are freed, the instruction reads them           *)

IsRuntimeCall == AtConstruct("UNKNOWN") /\ Registered(Top.n.tok)

(* the checks on entry of N_CALL, which an empty body passes by returning *)
Callable ==
    /\ At("N_CALL")
    /\ Top.i = 0 => /\ Callee(Top.n.tok).name # Null
                    /\ Callee(Top.n.tok).argument_count = Len(Top.n.ch)
ElidedNever ==    \* mutant: no check of the size
    Callable /\ Top.i = 0 /\ Callee(Top.n.tok).name = Null
ElidedCall == Callable /\ Top.i = 0 /\ Callee(Top.n.tok).size = 0

AtArguments == IsRuntimeCall \/ (Callable /\ ~ElidedCall)

CompileElidedCall ==
    /\ ElidedCall
    /\ ReturnOnly

NextArgumentAgain ==    \* mutant: the index is not incremented
    /\ AtArguments
    /\ Top.i = Len(Top.regs) /\ Top.i < Len(Top.n.ch)
    /\ Descend(Top.n.ch[Top.i + 1], Top)
NextArgument ==
    /\ AtArguments
    /\ Top.i = Len(Top.regs) /\ Top.i < Len(Top.n.ch)
    /\ Descend(Top.n.ch[Top.i + 1], [Top EXCEPT !.i = @ + 1])

(* Ctx_allocate_register and OP_STORE, for an operand or an argument *)
Storing ==
    \/ At("N_BIN") /\ Len(Top.n.ch) = 2 /\ Top.i = 1 /\ Top.regs = <<>>
    \/ AtArguments /\ Top.i = Len(Top.regs) + 1

StoreOperand ==
    /\ Storing /\ register_allocated_count < REGISTERS
    /\ Allocate
    /\ Emit(<<Instr("STORE", register_allocated_count)>>)
    /\ Continue([Top EXCEPT !.regs = Append(@, register_allocated_count)])
    /\ UNCHANGED <<program, next, hash_to_function, poolVars>>

OutOfRegisters ==
    /\ Storing /\ register_allocated_count >= REGISTERS
    /\ Fail("out_of_registers")

Args(n) == IF Len(n.ch) > 1 THEN <<Instr("ARGS", Len(n.ch))>> ELSE <<>>

ArgumentsStored == Top.i = Len(Top.n.ch) /\ Len(Top.regs) = Top.i

EmitBuiltin ==
    /\ IsRuntimeCall /\ ArgumentsStored
    /\ Free(Top.regs)
    /\ Emit(Args(Top.n) \o <<Instr("BUILTIN", FnHash[Top.n.tok])>>)
    /\ Return
    /\ UNCHANGED <<program, next, hash_to_function, poolVars>>

EmitCall ==
    /\ Callable /\ ~ElidedCall /\ ArgumentsStored
    /\ Free(Top.regs)
    /\ Emit(Args(Top.n) \o <<Instr("CALL", Callee(Top.n.tok).bytecode_index)>>)
    /\ Return
    /\ UNCHANGED <<program, next, hash_to_function, poolVars>>

-----------------------------------------------------------------------------
(* @None, @assert and @let                                                 *)

CompileNone ==
    /\ AtConstruct("None")
    /\ Leaf(<<Instr("LOADG", GLOBAL_NONE)>>)

AssertChild ==
    /\ AtConstruct("assert") /\ Top.i < Len(Top.n.ch)
    /\ Descend(Top.n.ch[Top.i + 1], [Top EXCEPT !.i = @ + 1])

CompileAssert ==
    /\ AtConstruct("assert") /\ Top.i = Len(Top.n.ch)
    /\ Leaf(<<Instr("ASSERT", 0)>>)

LetValue ==
    /\ AtConstruct("let") /\ Len(Top.n.ch) = 2 /\ Top.i = 0
    /\ Descend(Top.n.ch[2], [Top EXCEPT !.i = 1])

(* the parser gives arrays and objects no token *)
Tokenless(n) == n.kind \in {"N_ARRAY", "N_OBJECT"}

LetBind ==
    /\ AtConstruct("let") /\ Len(Top.n.ch) = 2 /\ Top.i = 1
    /\ ~Tokenless(Top.n.ch[1])
    /\ Leaf(<<Instr("VAR", VarHash[Top.n.ch[1].tok])>>)

-----------------------------------------------------------------------------
(* @match: a case with two children or more is a condition and a body (the *)
(* rest is ignored), any other case is the default                         *)

Case == Top.n.ch[Top.i + 1]
Conditional == Len(Case.ch) > 1
LastCase == Top.i = Len(Top.n.ch) - 1
AtCase(phase) == AtConstruct("match") /\ Top.i < Len(Top.n.ch) /\ Top.phase = phase

MatchCondition ==
    /\ AtCase("start") /\ Conditional
    /\ Descend(Case.ch[1], [Top EXCEPT !.phase = "condition"])

MatchBody ==
    /\ AtCase("condition")
    /\ Emit(<<Instr("JMPF", Placeholder)>>)
    /\ Compile(Case.ch[2], [Top EXCEPT !.phase = "body", !.mark = Len0])
    /\ UNCHANGED <<program, next, hash_to_function, poolVars, registerVars>>

MatchCaseEnd ==
    /\ AtCase("body")
    /\ LET jmp  == IF LastCase THEN <<>> ELSE <<Instr("JMP", Placeholder)>>
           code == bytecode \o jmp
       IN  Write(Patch(code, Top.mark, Len(code)))
    /\ Continue([Top EXCEPT !.i = @ + 1, !.phase = "start",
                    !.slots = Append(@, IF LastCase THEN NoSlot ELSE Len0)])
    /\ UNCHANGED <<program, next, hash_to_function, poolVars, registerVars>>

MatchDefault ==
    /\ AtCase("start") /\ ~Conditional /\ ~Top.default
    /\ Descend(Case, [Top EXCEPT !.phase = "default"])

MatchDefaultEnd ==
    /\ AtCase("default")
    /\ Continue([Top EXCEPT !.i = @ + 1, !.phase = "start", !.default = TRUE,
                    !.slots = Append(@, NoSlot)])
    /\ UNCHANGED <<program, next, bytecode, hash_to_function, status>>
    /\ UNCHANGED <<poolVars, registerVars>>

AtMatchEnd ==
    /\ AtConstruct("match") /\ Top.n.ch # <<>> /\ Top.i = Len(Top.n.ch)

(* backfill_slots[i] of a default case that is not the last one was never  *)
(* assigned.  MatchEnd reads 0 from it and skips it ...                    *)
BackfillTooFew ==    \* mutant: the last case but one is left out
    {Top.slots[k] + 1 : k \in 1..Len(Top.n.ch) - 2} \ {NoSlot + 1}
BackfillSlots == {Top.slots[k] + 1 : k \in 1..Len(Top.n.ch) - 1} \ {NoSlot + 1}

MatchEnd ==
    /\ AtMatchEnd
    /\ bytecode' = [a \in DOMAIN bytecode |->
                       IF a \in BackfillSlots
                       THEN [bytecode[a] EXCEPT !.arg = Len0] ELSE bytecode[a]]
    /\ Return
    /\ UNCHANGED <<program, next, hash_to_function, status>>
    /\ UNCHANGED <<poolVars, registerVars>>

(* ... MatchGarbage reads anything else and writes to that place in memory *)
MatchGarbage ==
    /\ AtMatchEnd
    /\ \E k \in 1..Len(Top.n.ch) - 1 : Top.slots[k] = NoSlot
    /\ Fail("undefined")

-----------------------------------------------------------------------------
(* @function: the body is compiled in place, behind a jump around it       *)

Params(n) == n.ch[2].ch
HeaderFromR0(n) ==    \* mutant: arguments are read from r0 on
    [k \in 1..2 * Len(Params(n)) |->
        IF k % 2 = 1 THEN Instr("LOAD", (k - 1) \div 2)
                     ELSE Instr("VAR", VarHash[Params(n)[k \div 2].tok])]
Header(n) ==
    [k \in 1..2 * Len(Params(n)) |->
        IF k % 2 = 1 THEN Instr("LOAD", (k + 1) \div 2)
                     ELSE Instr("VAR", VarHash[Params(n)[k \div 2].tok])]

AtFunction ==
    AtConstruct("function") /\ Len(Top.n.ch) >= 2 /\ ~Tokenless(Top.n.ch[1])
FunctionHash == FnHash[Top.n.ch[1].tok]
Declared == [name |-> Top.n.ch[1].tok, size |-> 0, bytecode_index |-> Len0,
             argument_count |-> Len(Params(Top.n))]

FunctionEmpty ==
    /\ AtFunction /\ Len(Top.n.ch) = 2
    /\ hash_to_function' = [hash_to_function EXCEPT ![FunctionHash] = Declared]
    /\ Return
    /\ UNCHANGED <<program, next, bytecode, status, poolVars, registerVars>>

(* everything up to the first node of the body; i counts the body's nodes *)
FunctionHeader ==
    /\ AtFunction /\ Len(Top.n.ch) > 2 /\ Top.i = 0
    /\ \A p \in 1..Len(Params(Top.n)) : Params(Top.n)[p].kind = "N_IDENT"
    /\ hash_to_function' = [hash_to_function EXCEPT ![FunctionHash] = Declared]
    /\ Emit(<<Instr("JMP", Placeholder)>> \o Header(Top.n))
    /\ Compile(Top.n.ch[3], [Top EXCEPT !.i = 1, !.mark = Len0])
    /\ UNCHANGED <<program, next, poolVars, registerVars>>

FunctionBody ==
    /\ AtFunction /\ Top.i > 0 /\ Top.i + 2 < Len(Top.n.ch)
    /\ Descend(Top.n.ch[Top.i + 3], [Top EXCEPT !.i = @ + 1])

(* bytecode_index of the function's own context is the slot of its JMP *)
FunctionEnd ==
    /\ AtFunction /\ Top.i > 0 /\ Top.i + 2 = Len(Top.n.ch)
    /\ LET code == Append(bytecode, Instr("LEAVE", 0))
       IN  /\ Write(Patch(code, Top.mark, Len(code)))
           /\ hash_to_function' =
                [hash_to_function EXCEPT ![FunctionHash].size = Len(code) - Top.mark]
    /\ Return
    /\ UNCHANGED <<program, next, poolVars, registerVars>>

-----------------------------------------------------------------------------
(* what the compiler refuses with an ASSERT or a TODO *)
Rejected ==
    \/ IsLiteral /\ Cached = 0 /\ ~PoolFull /\ ~Converts
    \/ At("N_BIN") /\ Len(Top.n.ch) \notin {1, 2}
    \/ (At("N_LIST") \/ At("N_ARRAY")) /\ Top.n.ch # <<>>
    \/ At("N_CALL") /\ ~Callable
    \/ AtConstruct("UNKNOWN") /\ ~Registered(Top.n.tok)
    \/ AtConstruct("let") /\ Len(Top.n.ch) # 2
    \/ AtConstruct("function") /\ Len(Top.n.ch) < 2
    \/ /\ AtFunction /\ Top.i = 0 /\ Len(Top.n.ch) > 2
       /\ \E p \in 1..Len(Params(Top.n)) : Params(Top.n)[p].kind # "N_IDENT"
    \/ AtConstruct("match") /\ Top.n.ch = <<>>
    \/ AtCase("start") /\ ~Conditional /\ Top.default

Reject == Rejected /\ Fail("rejected")

(* the token of the name is NULL and is read all the same *)
NullToken ==
    /\ \/ AtConstruct("let") /\ Len(Top.n.ch) = 2 /\ Top.i = 1
       \/ AtConstruct("function") /\ Len(Top.n.ch) >= 2
    /\ Tokenless(Top.n.ch[1])
    /\ Fail("crashed")

Next ==
    \/ CompileTop \/ Done
    \/ CompileBool \/ CompileCached \/ CompileLiteral \/ CompileAggregate
    \/ OutOfGlobals \/ CompileIdent
    \/ NextOperand \/ SingleOperand \/ CompileBin
    \/ CompileElidedCall \/ NextArgument \/ StoreOperand \/ OutOfRegisters
    \/ EmitBuiltin \/ EmitCall
    \/ CompileNone \/ AssertChild \/ CompileAssert \/ LetValue \/ LetBind
    \/ MatchCondition \/ MatchBody \/ MatchCaseEnd \/ MatchDefault
    \/ MatchDefaultEnd \/ MatchEnd \/ MatchGarbage
    \/ FunctionEmpty \/ FunctionHeader \/ FunctionBody \/ FunctionEnd
    \/ Reject \/ NullToken

Spec == Init /\ [][Next]_ccVars /\ WF_ccVars(Next)
-----------------------------------------------------------------------------
(* Properties                                                              *)

ActivationType == [n : Nodes, i : Nat, regs : Seq(Nat), mark : Nat,
                   slots : Seq(Nat \cup {NoSlot}), default : BOOLEAN,
                   phase : Phases, base : Nat]
InstrType == [op : Ops, arg : Nat \cup {Placeholder}]
StatusType == {"compiling", "done", "rejected", "crashed", "undefined", "out_of_globals",
               "out_of_registers", "out_of_bytecode"}

(* Every variable has its type: the compiler's context (cc.h Ctx), the     *)
(* bytecode and the pool it fills, and the stack of activations.           *)
TypeOK ==
    /\ program \in Programs
    /\ next \in 0..Len(program)
    /\ stack \in Seq(ActivationType)
    /\ bytecode \in Seq(InstrType)
    /\ globals \in Seq(Value)
    /\ global_hash_buckets \in [0..GLOBAL_SIZE - 1 -> Nat]
    /\ registers \in [0..REGISTERS -> BOOLEAN]
    /\ register_allocated_count \in 1..REGISTERS
    /\ hash_to_function \in [0..MAX_BUILTIN_SIZE - 1 -> CtxFunction]
    /\ status \in StatusType

(* The two asserts of Ctx_free_register (cc.c:62-64) hold whenever compile *)
(* frees the registers it holds, whatever was compiled in between.         *)
AssertsHold == stack # <<>> => FreeAllowed(Top.regs)

(* No two activations hold the same register, none holds r0, and every     *)
(* register the context marks as taken is held by some activation: nothing *)
(* leaks and nothing is handed out twice (cc.c:52-70).                     *)
Holds(d, r) == \E k \in 1..Len(stack[d].regs) : stack[d].regs[k] = r
RegistersOwned ==
    /\ \A r \in 0..REGISTERS : registers[r] <=> \E d \in 1..Len(stack) : Holds(d, r)
    /\ \A d, e \in 1..Len(stack) : d # e =>
          \A r \in 0..REGISTERS : ~(Holds(d, r) /\ Holds(e, r))
    /\ ~registers[0]

(* compile() returns with as many registers allocated as it was entered    *)
(* with: a caller's r and registers[] are still the topmost ones.          *)
Balanced ==
    [][Len(stack') < Len(stack) => register_allocated_count' = Top.base]_ccVars

(* No instruction emitted for a subexpression stores into a register that  *)
(* an expression around it still holds a value in.                         *)
NoClobber ==
    [][\A a \in Len(bytecode) + 1..Len(bytecode') :
          bytecode'[a].op = "STORE" =>
              \A d \in 1..Len(stack) : ~Holds(d, bytecode'[a].arg)]_ccVars

(* "registers = r1 r2 r3, arguments = [1 2 3]" (cc.c:253-257): when all     *)
(* arguments of a call to a function are stored, they are in the registers *)
(* from r1 on, where the function's header reads them.                     *)
ArgumentRegisters ==
    stack # <<>> /\ At("N_CALL") /\ ArgumentsStored =>
        \A k \in 1..Len(Top.regs) : Top.regs[k] = k

IsJump(a) == bytecode[a + 1].op \in {"JMP", "JMPF"}
Addresses == 0..Len(bytecode) - 1

(* Once the compiler is done every jump has been given its target, the     *)
(* target is ahead of the jump and not beyond the end of the code: OP_JMP  *)
(* "does no bounds checking" (vm.h:134-137).                               *)
JumpsLand ==
    status = "done" =>
        \A a \in Addresses : IsJump(a) => bytecode[a + 1].arg \in a + 1..Len(bytecode)

(* A call enters a function whose body lies completely before the call, so *)
(* no chain of calls comes back to where it started: hash_to_function      *)
(* holds the function before its body is compiled (cc.c:236), its size     *)
(* only afterwards (cc.c:283), and the optimisation is to "remove calls to *)
(* empty functions, since their definition is also removed"                *)
(* (cc.c:335-336).                                                         *)
CallsCompleted ==
    \A a \in Addresses : bytecode[a + 1].op = "CALL" =>
        LET f == bytecode[a + 1].arg
        IN  /\ f < a
            /\ bytecode[f + 1].op = "JMP"
            /\ bytecode[f + 1].arg \in f + 2..a
            /\ bytecode[bytecode[f + 1].arg].op = "LEAVE"

(* Control neither falls out of a function's body nor jumps into one: a    *)
(* jump and its target are on the same side of every completed body.       *)
BodyOf(h) == LET f == hash_to_function[h]
             IN  f.bytecode_index + 1..f.bytecode_index + f.size - 1
BodiesSealed ==
    status = "done" =>
        \A h \in DOMAIN hash_to_function : hash_to_function[h].size > 0 =>
            \A a \in Addresses : IsJump(a) =>
                (a \in BodyOf(h) <=> bytecode[a + 1].arg \in BodyOf(h))

(* The instruction emitted for a literal loads that literal, cached or not *)
(* (cc.c:77-79): two literals share a global only if they are the same.    *)
LiteralsLoaded ==
    [][At("N_ATOM") /\ status' = "compiling" =>
          LET load == bytecode'[Len(bytecode')]
          IN  /\ load.op = "LOADG"
              /\ load.arg < Len(globals')
              /\ globals'[load.arg + 1] = LitValue[Top.n.tok]]_ccVars

(* compile() always comes to an end. *)
Ends == <>(status # "compiling")
=============================================================================
