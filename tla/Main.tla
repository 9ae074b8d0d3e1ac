-------------------------------- MODULE Main --------------------------------
(***************************************************************************)
(* The program (main.c, io.c): from the command line to the exit code.     *)
(* main parses the options, maps the input, and runs lexer, parser,        *)
(* compiler and machine one after the other.  phase is where it is.        *)
(*                                                                         *)
(* The pipeline's own memory, over 160 MiB for a text below MIN_MEM,       *)
(* does not run out here; the machine's heap does.  What the flags for     *)
(* listings and measurements print is left out.                            *)
(***************************************************************************)
EXTENDS Values, Config, Numbers, Sequences
LOCAL INSTANCE SequencesExt

CONSTANTS
    Letters, Digits, Keyword(_), MIN_MEM, STACK_SIZE,    \* of FrontEnd
    LitHash(_), VarHash, FnHash,     \* hashes, masked as the compiler does
    DoubleOf(_),                     \* the double of a scaled mantissa
    NameHash, Helping, Numeral, SIX_MAX_REST,            \* of Options
    Files,                           \* the texts of the regular files
    PAGE_SIZE,
    KB,                              \* 1024
    SizeBits,                        \* width of size_t
    MMAP_LIMIT,                      \* the largest region there is
    GC_MIN_HEAP,
    FRAME_SIZE                       \* sizeof(Frame)

VARIABLES
    argv, arg_i, value, rest, six_status,                                  \* SixParse
    input, zero_behind, pos, lexed, lex_status, p_pos, open, p_status,     \* FrontEnd
    program, next, stack, bytecode, globals, global_hash_buckets, registers,
    register_allocated_count, hash_to_function, status,                    \* cc
    pc, r, frames, frame, head, arg_count, out, vm_status,                 \* Vm_run
    heap_size, heap_pos,                                                   \* vm.alloc
    phase,
    exit                                       \* how the process ended

optionVars == <<argv, arg_i, value, rest, six_status>>
inputVars == <<input, zero_behind>>
frontVars == <<pos, lexed, lex_status, p_pos, open, p_status>>
ccVars == <<program, next, stack, bytecode, globals, global_hash_buckets,
            registers, register_allocated_count, hash_to_function, status>>
vmVars == <<pc, r, frames, frame, head, arg_count, out, vm_status>>
heapVars == <<heap_size, heap_pos>>
vars == <<optionVars, inputVars, frontVars, ccVars, vmVars, heapVars, phase, exit>>

-----------------------------------------------------------------------------
Flag(name, short, type, default) ==
    [name |-> name, short |-> short, type |-> type, default |-> default]
Flags == <<Flag("version", "v", "BOOL", FALSE),
           Flag("disassemble", "d", "BOOL", FALSE),
           Flag("block-allocator", "b", "LONG", 0),
           Flag("aot-functions", "a", "BOOL", FALSE),
           Flag("memory-usage", "m", "BOOL", FALSE),
           Flag("verbose", "V", "BOOL", FALSE),
           Flag("stats", "s", "BOOL", FALSE),
           Flag("run", "r", "STR", <<>>)>>
version == value[1]
block_allocator == value[3]
run == value[8]

Six == INSTANCE Options
FE == INSTANCE FrontEnd WITH out <- lexed

-----------------------------------------------------------------------------
(* The parser's nodes as the compiler sees them.  The compiler looks at    *)
(* the text of a literal and, to intern it, at its hash, which for a       *)
(* number covers the character behind it as well.                          *)
Text(t) == SubSeq(input, t.start + 1, t.end)
Hashed(t) ==
    IF t.type \in {"T_INTEGER", "T_DOUBLE"} /\ t.end < Len(input)
    THEN SubSeq(input, t.start + 1, t.end + 1) ELSE Text(t)
Literal(t) == [type |-> t.type, text |-> Text(t), hashed |-> Hashed(t)]
Name(t) == FoldLeft(LAMBDA name, c : name \o c, "", Text(t))

Operator == [t \in {"T_PLUS", "T_MINUS", "T_ASTERISKS", "T_SLASH", "T_EQUAL"} |->
                CASE t = "T_PLUS"      -> "ADD" [] t = "T_MINUS" -> "SUB"
                  [] t = "T_ASTERISKS" -> "MUL" [] t = "T_SLASH" -> "DIV"
                  [] t = "T_EQUAL"     -> "EQ"]

Tree[n \in FE!Built] ==
    [kind |-> n.type,
     tok  |-> CASE n.type = "N_ATOM" -> Literal(n.token)
                [] n.type = "N_BIN"  -> Operator[n.token.type]
                [] n.type \in {"N_IDENT", "N_CALL", "N_BUILTIN"} -> Name(n.token)
                [] OTHER             -> "",
     ch   |-> [k \in 1..Len(n.children) |-> Tree[n.children[k]]]]
Trees == [k \in 1..Len(open[1].children) |-> Tree[open[1].children[k]]]

(* token_to_value *)
Texts == Seq(STRING)
Literals == [type : STRING, text : Texts, hashed : Texts]
Token_to_value(type, text) ==
    CASE type = "T_STRING"  -> Str(text)
      [] type = "T_TRUE"    -> True
      [] type = "T_FALSE"   -> False
      [] type = "T_INTEGER" -> LET i == Str_to_int64_t(text)
                               IN  IF i = Refused THEN None ELSE Int64(i)
      [] type = "T_DOUBLE"  -> LET d == Str_to_double(text)
                               IN  IF d = RefusedDouble THEN None ELSE Double(DoubleOf(d))

PG == INSTANCE PurpleGarden WITH
        Nodes <- {}, Programs <- {<<>>}, Tokens <- {},
        LitValue <- [t \in Literals |-> Token_to_value(t.type, t.text)],
        Bucket <- [t \in Literals |-> LitHash(t.hashed)]

-----------------------------------------------------------------------------
(* The machine's heap.  Region is the size bump_init is asked for, in      *)
(* size_t arithmetic: a negative block_allocator is a huge one.            *)
SizeWrap(i) == i % 2^SizeBits
Region == SizeWrap(block_allocator * KB)
Pages == PAGE_SIZE * (SizeWrap(Region + PAGE_SIZE - 1) \div PAGE_SIZE)
Mappable == Pages \in 1..MMAP_LIMIT
UsesBump == block_allocator # 0

M == INSTANCE Mem WITH Sizes <- {}, Capacities <- {}

(* what the next step of the machine requests, if anything: the frames of  *)
(* freelist_preallocate, a frame, or the text of a concatenation           *)
FramesAtStart == IF PREALLOCATE_FREELIST_SIZE = 0 THEN 1 ELSE PREALLOCATE_FREELIST_SIZE
Requested ==
    IF vm_status = "idle" THEN {FramesAtStart * FRAME_SIZE}
    ELSE IF vm_status # "running" \/ pc >= Len(bytecode) THEN {}
    ELSE LET i == bytecode[pc + 1]
         IN  CASE i.op = "CALL" /\ head = 0 -> {FRAME_SIZE}
               [] i.op = "ADD" /\ r[0].type = "Str" /\ r[i.arg].type = "Str" ->
                    {Len(r[0].str) + Len(r[i.arg].str)}
               [] OTHER -> {}
FitsHeap(size) ==
    IF UsesBump THEN M!Align(heap_pos) + size <= heap_size ELSE heap_pos + size < heap_size

-----------------------------------------------------------------------------
Init ==
    /\ Six!Init
    /\ input = <<>> /\ zero_behind = TRUE
    /\ FE!Init
    /\ PG!MainInit
    /\ heap_size = 0 /\ heap_pos = 0
    /\ phase = "Args_parse"
    /\ exit = "running"

In(p) == exit = "running" /\ phase = p
Exit(how) == exit' = how /\ UNCHANGED phase
Enter(p) == phase' = p /\ UNCHANGED exit

SixParse ==
    /\ In("Args_parse")
    /\ Six!Next
    /\ UNCHANGED <<inputVars, frontVars, ccVars, vmVars, heapVars, phase, exit>>

(* Args_parse behind SixParse, and IO_read_file_to_string.  A text of +r   *)
(* counts before a file; mmap fills a file's last page with zeros.         *)
NothingToRun == rest = <<>> /\ run = <<>>
Unreadable == run = <<>> /\ rest # <<>> /\ rest[1].name \notin DOMAIN Files

EndEarly ==
    /\ In("Args_parse")
    /\ \/ six_status = "help" /\ Exit("success")
       \/ six_status = "usage" /\ Exit("failure")
       \/ six_status = "parsed" /\ version /\ Exit("success")
       \/ six_status = "parsed" /\ ~version /\ (NothingToRun \/ Unreadable) /\ Exit("failure")
    /\ UNCHANGED <<optionVars, inputVars, frontVars, ccVars, vmVars, heapVars>>

ReadInput ==
    /\ In("Args_parse") /\ six_status = "parsed"
    /\ ~version /\ ~NothingToRun /\ ~Unreadable
    /\ input' = IF run # <<>> THEN run ELSE Files[rest[1].name]
    /\ zero_behind' = (run # <<>> \/ Len(input') % PAGE_SIZE # 0)
    /\ Enter("front end")
    /\ UNCHANGED <<optionVars, frontVars, ccVars, vmVars, heapVars>>

Understand ==
    /\ In("front end")
    /\ FE!Next
    /\ UNCHANGED <<optionVars, ccVars, vmVars, heapVars, phase, exit>>

FailFrontEnd ==
    /\ In("front end")
    /\ \/ "aborted" \in {lex_status, p_status} /\ Exit("failure")
       \/ "crashed" = p_status /\ Exit("killed")
       \/ "undefined" \in {lex_status, p_status} /\ Exit("undefined")
    /\ UNCHANGED <<optionVars, inputVars, frontVars, ccVars, vmVars, heapVars>>

StartCompiler ==
    /\ In("front end") /\ p_status = "parsed"
    /\ program' = Trees
    /\ Enter("cc")
    /\ UNCHANGED <<next, stack, bytecode, globals, global_hash_buckets, registers,
                   register_allocated_count, hash_to_function, status>>
    /\ UNCHANGED <<optionVars, inputVars, frontVars, vmVars, heapVars>>

Compile ==
    /\ In("cc")
    /\ PG!cc
    /\ UNCHANGED <<optionVars, inputVars, frontVars, heapVars, phase, exit>>

FailCompiler ==
    /\ In("cc") /\ status \notin {"compiling", "done"}
    /\ Exit(CASE status = "crashed"   -> "killed"
              [] status = "undefined" -> "undefined"
              [] OTHER                -> "failure")
    /\ UNCHANGED <<optionVars, inputVars, frontVars, ccVars, vmVars, heapVars>>

(* bump_init or xcgc_init *)
MapHeap ==
    /\ In("cc") /\ status = "done" /\ (UsesBump => Mappable)
    /\ heap_size' = IF UsesBump THEN Pages ELSE GC_MIN_HEAP
    /\ Enter("Vm_run")
    /\ UNCHANGED <<optionVars, inputVars, frontVars, ccVars, vmVars, heap_pos>>

NoHeap ==
    /\ In("cc") /\ status = "done" /\ UsesBump /\ ~Mappable
    /\ Exit("failure")
    /\ UNCHANGED <<optionVars, inputVars, frontVars, ccVars, vmVars, heapVars>>

Run ==
    /\ In("Vm_run") /\ \A size \in Requested : FitsHeap(size)
    /\ PG!Vm_run
    /\ heap_pos' = IF Requested = {} THEN heap_pos
                   ELSE M!Align(heap_pos) + CHOOSE size \in Requested : TRUE
    /\ UNCHANGED <<optionVars, inputVars, frontVars, heap_size, phase, exit>>

HeapExhausted ==
    /\ In("Vm_run") /\ \E size \in Requested : ~FitsHeap(size)
    /\ Exit("failure")
    /\ UNCHANGED <<optionVars, inputVars, frontVars, ccVars, vmVars, heapVars>>

(* a type error ends in the teardown as well, a failed ASSERT does not     *)
Return ==
    /\ In("Vm_run") /\ vm_status \notin {"idle", "running"}
    /\ Exit(CASE vm_status = "halted" -> "success"
              [] vm_status = "trap"   -> "killed"
              [] OTHER                -> "failure")
    /\ UNCHANGED <<optionVars, inputVars, frontVars, ccVars, vmVars, heapVars>>

Next == \/ SixParse \/ EndEarly \/ ReadInput
        \/ Understand \/ FailFrontEnd
        \/ StartCompiler \/ Compile \/ FailCompiler \/ MapHeap \/ NoHeap
        \/ Run \/ HeapExhausted \/ Return

-----------------------------------------------------------------------------
(* What the command line says, and that it is obeyed: see Options. *)
LastOneWins == Six!LastOneWins

(* The process comes to an end, whatever the command line and the text.    *)
Terminates == <>(exit # "running")
=============================================================================
