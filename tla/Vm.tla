--------------------------------- MODULE Vm ---------------------------------
(***************************************************************************)
(* The virtual machine (vm.c): registers, call frames and the loop that    *)
(* executes bytecode, one action per instruction.                          *)
(*                                                                         *)
(* Frames are heap objects linked by prev.  The active ones hang off       *)
(* frame, the free ones off head (FrameFreeList); a frame's prev link      *)
(* serves both lists.  Frames are numbered in the order they are           *)
(* allocated, 0 is NULL.  A frame fresh from the allocator is zeroed, as   *)
(* the pages of mmap are, and a zeroed Value is None.                      *)
(***************************************************************************)
EXTENDS Values, Config

CONSTANT builtins      \* Vm.builtins: the name registered at a hash

VARIABLES
    bytecode, globals,     \* the compiler's output
    pc,                    \* in instructions
    r,                     \* vm->registers
    frames,                \* every Frame ever requested from the allocator
    frame,                 \* the current scope
    head,                  \* the free list
    arg_count,
    out,                   \* what the print builtins wrote
    vm_status

vmVars == <<pc, r, frames, frame, head, arg_count, out, vm_status>>
codeVars == <<bytecode, globals>>

NULL == 0
Hashes == 0..VARIABLE_TABLE_SIZE - 1
Registers == 0..REGISTERS

Zeroed == [prev |-> NULL, return_to_bytecode |-> 0,
           variable_table |-> [h \in Hashes |-> None]]

(* freelist_preallocate: every new frame is put in front of the others *)
Preallocated ==
    [f \in 1..PREALLOCATE_FREELIST_SIZE |-> [Zeroed EXCEPT !.prev = f - 1]]

(* freelist_pop, on frames fs and free list h *)
PopKeepingHead(fs, h) ==    \* mutant: the frame stays on the free list
    IF h = NULL
    THEN [frame |-> Len(fs) + 1, frames |-> Append(fs, Zeroed), head |-> NULL]
    ELSE [frame |-> h, frames |-> [fs EXCEPT ![h].prev = NULL], head |-> h]
Pop(fs, h) ==
    IF h = NULL
    THEN [frame |-> Len(fs) + 1, frames |-> Append(fs, Zeroed), head |-> NULL]
    ELSE [frame |-> h, frames |-> [fs EXCEPT ![h].prev = NULL], head |-> fs[h].prev]

(* freelist_push: the variables of the frame stay (the memset is commented *)
(* out)                                                                    *)
Push(fs, h, f) ==
    [fs EXCEPT ![f].prev = h, ![f].return_to_bytecode = 0]

-----------------------------------------------------------------------------
(* Vm_new, and main before Vm_run *)
Init ==
    /\ pc = 0
    /\ r = [i \in Registers |-> None]
    /\ frames = <<>> /\ frame = NULL /\ head = NULL
    /\ arg_count = 0
    /\ out = <<>>
    /\ vm_status = "idle"

(* Vm_run up to its loop *)
Boot ==
    /\ vm_status = "idle"
    /\ LET p == Pop(Preallocated, PREALLOCATE_FREELIST_SIZE)
       IN  frames' = p.frames /\ frame' = p.frame /\ head' = p.head
    /\ arg_count' = 1
    /\ vm_status' = "running"
    /\ UNCHANGED <<pc, r, out>>

Running == vm_status = "running" /\ pc < Len(bytecode)
Fetch(op) == Running /\ bytecode[pc + 1].op = op
Arg == bytecode[pc + 1].arg

Advance == pc' = pc + 1
Result(v) == r' = [r EXCEPT ![0] = v]
Stop(why) == vm_status' = why /\ UNCHANGED <<pc, r, frames, frame, head, arg_count, out>>

frameVars == <<frames, frame, head>>

LoadG ==
    /\ Fetch("LOADG")
    /\ Result(globals[Arg + 1])
    /\ Advance
    /\ UNCHANGED <<frameVars, arg_count, out, vm_status>>

Load ==
    /\ Fetch("LOAD")
    /\ Result(r[Arg])
    /\ Advance
    /\ UNCHANGED <<frameVars, arg_count, out, vm_status>>

(* a variable whose value is None counts as undefined *)
LoadV ==
    /\ Fetch("LOADV")
    /\ LET v == frames[frame].variable_table[Arg]
       IN  IF v.type = "None" THEN Stop("error")
           ELSE Result(v) /\ Advance /\ UNCHANGED <<frameVars, arg_count, out, vm_status>>

Store ==
    /\ Fetch("STORE")
    /\ r' = [r EXCEPT ![Arg] = r[0]]
    /\ Advance
    /\ UNCHANGED <<frameVars, arg_count, out, vm_status>>

Var ==
    /\ Fetch("VAR")
    /\ frames' = [frames EXCEPT ![frame].variable_table[Arg] = r[0]]
    /\ Advance
    /\ UNCHANGED <<r, frame, head, arg_count, out, vm_status>>

Arithmetic ==
    \E op \in {"ADD", "SUB", "MUL", "DIV"} :
        /\ Fetch(op)
        /\ LET o == Arith(op, r[0], r[Arg])
           IN  IF o.status = "ok"
               THEN Result(o.value) /\ Advance
                    /\ UNCHANGED <<frameVars, arg_count, out, vm_status>>
               ELSE Stop(o.status)

Eq ==
    /\ Fetch("EQ")
    /\ Result(IF Arg = 0 \/ Value_cmp(r[0], r[Arg]) THEN globals[2] ELSE globals[1])
    /\ Advance
    /\ UNCHANGED <<frameVars, arg_count, out, vm_status>>

Args ==
    /\ Fetch("ARGS")
    /\ arg_count' = Arg
    /\ Advance
    /\ UNCHANGED <<r, frameVars, out, vm_status>>

Assert ==
    /\ Fetch("ASSERT")
    /\ IF r[0].type = "True" THEN Advance /\ UNCHANGED <<r, frameVars, arg_count, out, vm_status>>
       ELSE Stop("error")

JmpAndAdvance ==    \* mutant: break instead of continue
    /\ Fetch("JMP")
    /\ pc' = Arg + 1
    /\ UNCHANGED <<r, frameVars, arg_count, out, vm_status>>
Jmp ==
    /\ Fetch("JMP")
    /\ pc' = Arg
    /\ UNCHANGED <<r, frameVars, arg_count, out, vm_status>>

JmpF ==
    /\ Fetch("JMPF")
    /\ IF r[0].type = "False" THEN pc' = Arg ELSE Advance
    /\ UNCHANGED <<r, frameVars, arg_count, out, vm_status>>

WriteKeepingCount ==    \* mutant: arg_count is not reset
    /\ Fetch("BUILTIN") /\ builtins[Arg] \in {"print", "println"}
    /\ out' = Append(out, [call |-> builtins[Arg],
                           values |-> [k \in 1..arg_count |-> r[k]]])
    /\ Advance
    /\ UNCHANGED <<r, frameVars, arg_count, vm_status>>

(* builtin_print and builtin_println write registers 1 to arg_count *)
WriteArguments ==
    /\ Fetch("BUILTIN") /\ builtins[Arg] \in {"print", "println"}
    /\ out' = Append(out, [call |-> builtins[Arg],
                           values |-> [k \in 1..arg_count |-> r[k]]])
    /\ arg_count' = 1
    /\ Advance
    /\ UNCHANGED <<r, frameVars, vm_status>>

(* the others assert that they have one argument and leave a result in r0 *)
BuiltinOutcome(name) ==
    IF arg_count # 1 THEN Outcome("abort", None)
    ELSE CASE name = "len"  -> builtin_len(r[1])
           [] name = "type" -> builtin_type(r[1])
           [] name = "Some" -> builtin_Some(r[1])

CallBuiltin ==
    /\ Fetch("BUILTIN") /\ builtins[Arg] \notin {"print", "println"}
    /\ LET o == BuiltinOutcome(builtins[Arg])
       IN  IF o.status = "ok"
           THEN Result(o.value) /\ arg_count' = 1 /\ Advance
                /\ UNCHANGED <<frameVars, out, vm_status>>
           ELSE Stop(o.status)

CallToJump ==    \* mutant: execution goes on at the function's JMP
    /\ Fetch("CALL")
    /\ LET p == Pop(frames, head)
       IN  /\ frames' = [p.frames EXCEPT ![p.frame].prev = frame,
                                         ![p.frame].return_to_bytecode = pc]
           /\ frame' = p.frame
           /\ head' = p.head
    /\ pc' = Arg
    /\ arg_count' = 1
    /\ UNCHANGED <<r, out, vm_status>>

(* OP_CALL: the loop's pc += 2 steps over the JMP the function starts with *)
Call ==
    /\ Fetch("CALL")
    /\ LET p == Pop(frames, head)
       IN  /\ frames' = [p.frames EXCEPT ![p.frame].prev = frame,
                                         ![p.frame].return_to_bytecode = pc]
           /\ frame' = p.frame
           /\ head' = p.head
    /\ pc' = Arg + 1
    /\ arg_count' = 1
    /\ UNCHANGED <<r, out, vm_status>>

LeavePushFirst ==    \* mutant: the frame is pushed before prev is read
    /\ Fetch("LEAVE")
    /\ IF head # NULL
       THEN pc' = frames[frame].return_to_bytecode + 1 /\ frame' = head
       ELSE pc' = pc + 1 /\ frame' = frame
    /\ frames' = Push(frames, head, frame)
    /\ head' = frame
    /\ UNCHANGED <<r, arg_count, out, vm_status>>

(* OP_LEAVE: back to the instruction behind the call.  At the root frame   *)
(* it would only free the frame it goes on using.                          *)
Leave ==
    /\ Fetch("LEAVE")
    /\ IF frames[frame].prev # NULL
       THEN pc' = frames[frame].return_to_bytecode + 1 /\ frame' = frames[frame].prev
       ELSE pc' = pc + 1 /\ frame' = frame
    /\ frames' = Push(frames, head, frame)
    /\ head' = frame
    /\ UNCHANGED <<r, arg_count, out, vm_status>>

Halt ==
    /\ vm_status = "running" /\ pc >= Len(bytecode)
    /\ Stop("halted")

Next ==
    /\ \/ Boot \/ LoadG \/ Load \/ LoadV \/ Store \/ Var
       \/ Arithmetic \/ Eq \/ Args \/ Assert \/ Jmp \/ JmpF
       \/ WriteArguments \/ CallBuiltin \/ Call \/ Leave \/ Halt
    /\ UNCHANGED codeVars

vars == <<vmVars, codeVars>>
Spec == Init /\ [][Next]_vars /\ WF_vars(Next)
-----------------------------------------------------------------------------
(* Properties                                                              *)

FrameType == [prev : Nat, return_to_bytecode : Nat,
              variable_table : [Hashes -> Value]]
StatusType == {"idle", "running", "halted", "error", "abort", "trap"}

(* Every variable of the machine has its type (vm.h Vm and Frame). *)
TypeOK ==
    /\ pc \in 0..Len(bytecode)
    /\ r \in [Registers -> Value]
    /\ frames \in Seq(FrameType)
    /\ \A f \in 1..Len(frames) : frames[f].prev \in 0..Len(frames)
    /\ frame \in 0..Len(frames) /\ head \in 0..Len(frames)
    /\ arg_count \in Nat
    /\ \A k \in 1..Len(out) : out[k].call \in {"print", "println"}
    /\ vm_status \in StatusType

(* Chain(f)[1] is f, and each next entry the prev of the one before until  *)
(* NULL: one entry more than there are frames, so a chain that does not    *)
(* end in NULL has a cycle.                                                *)
Chain(f) ==
    LET link[k \in 1..Len(frames) + 1] ==
            IF k = 1 THEN f
            ELSE IF link[k - 1] = NULL THEN NULL ELSE frames[link[k - 1]].prev
    IN  link
Members(f) == {Chain(f)[k] : k \in 1..Len(frames) + 1} \ {NULL}
Depth == Len(frames) + 1

(* A frame is active or free, never both and never neither, and neither    *)
(* list has a cycle: no frame is lost, used twice or freed twice (vm.c:    *)
(* 48-90, 236-253).                                                        *)
FramesPartitioned ==
    vm_status # "idle" =>
        /\ Chain(frame)[Depth] = NULL /\ Chain(head)[Depth] = NULL
        /\ Members(frame) \cap Members(head) = {}
        /\ Members(frame) \cup Members(head) = 1..Len(frames)

(* The function a frame was entered through, and the body it spans: from   *)
(* behind the function's JMP to its LEAVE.                                 *)
CalledFrom(f) == frames[f].return_to_bytecode
BodyOf(f) == LET entry == bytecode[CalledFrom(f) + 1].arg
             IN  entry + 1..bytecode[entry + 1].arg - 1

(* Every active frame but the root was entered by a CALL; that CALL lies   *)
(* in the body the next outer frame executes, and pc in the body of the    *)
(* innermost: whatever the jumps did, each LEAVE returns behind the call   *)
(* that is really outstanding.                                             *)
CallsNested ==
    Running =>
        LET inner(f) == f # NULL /\ frames[f].prev # NULL
        IN  /\ inner(frame) => pc \in BodyOf(frame)
            /\ \A f \in Members(frame) : inner(f) =>
                  /\ bytecode[CalledFrom(f) + 1].op = "CALL"
                  /\ inner(frames[f].prev) => CalledFrom(f) \in BodyOf(frames[f].prev)

(* LEAVE is only executed inside a call: at the root it would put the      *)
(* frame in use onto the free list.                                        *)
LeavesInsideCalls == Fetch("LEAVE") => frames[frame].prev # NULL

(* An argument count other than the default is for the call that comes     *)
(* next, so no call sees the count of another.                             *)
ArgCountFresh ==
    Running /\ arg_count # 1 => bytecode[pc + 1].op \in {"BUILTIN", "CALL"}
=============================================================================
