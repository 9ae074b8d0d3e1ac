---------------------------- MODULE PurpleGarden ----------------------------
(***************************************************************************)
(* The part of main() that turns a syntax tree into an exit code: cc()     *)
(* fills the bytecode and the global pool, then Vm_run executes them.  An  *)
(* ASSERT of the compiler ends the process before the machine starts.      *)
(***************************************************************************)
EXTENDS Cc, FiniteSets

VARIABLES
    pc, r, frames, frame, head, arg_count, out, vm_status

(* Vm_new registers the runtime builtins by the hash of their names *)
Vm_builtins ==
    [h \in 0..MAX_BUILTIN_SIZE - 1 |->
        IF \E b \in Runtime : FnHash[b] = h
        THEN CHOOSE b \in Runtime : FnHash[b] = h ELSE ""]

VM == INSTANCE Vm WITH builtins <- Vm_builtins

machineVars == <<pc, r, frames, frame, head, arg_count, out, vm_status>>
vars == <<ccVars, machineVars>>

MainInit == Init /\ VM!Init

cc == Next /\ UNCHANGED machineVars

Vm_run ==
    /\ status = "done"
    /\ VM!Next
    /\ UNCHANGED ccVars

MainNext == cc \/ Vm_run

MainSpec == MainInit /\ [][MainNext]_vars /\ WF_vars(MainNext)

-----------------------------------------------------------------------------
(* The machine's invariants, on the code the compiler generates: see Vm.    *)
MachineTypeOK == VM!TypeOK
FramesPartitioned == VM!FramesPartitioned
CallsNested == VM!CallsNested
LeavesInsideCalls == VM!LeavesInsideCalls
ArgCountFresh == VM!ArgCountFresh

(* The stack of scopes the active frames stand for, outermost first: the   *)
(* root frame is the one that has no prev.                                 *)
Outward == VM!Chain(frame)
Scope(f) == [return_to |-> frames[f].return_to_bytecode,
             variables |-> frames[f].variable_table]
scopes ==
    LET chain == Outward
        depth == Cardinality({k \in DOMAIN chain : chain[k] # 0})
    IN  [k \in 1..depth |-> Scope(chain[depth + 1 - k])]

ScopeStack == INSTANCE Scopes

(* The pointer structure of frames and free list implements the stack of   *)
(* scopes that vm.h:10-15 describes: a call never touches the scopes of    *)
(* its callers, and LEAVE gives back the caller's scope unchanged.         *)
ImplementsScopes == ScopeStack!Spec

(* The process comes to an end: the compiler refuses the program, or the   *)
(* machine executes it and stops.  Without a completed function no call is *)
(* emitted, so every compiled program terminates.                          *)
Finished == status \notin {"compiling", "done"} \/ vm_status \notin {"idle", "running"}
Terminates == <>Finished
=============================================================================
