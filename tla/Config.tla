------------------------------- MODULE Config -------------------------------
(***************************************************************************)
(* The sizes the build fixes (common.h:17-25, vm.h:8), and the names of   *)
(* the language builtins.                                                  *)
(***************************************************************************)
EXTENDS Integers

CONSTANTS
    BYTECODE_SIZE,              \* in instructions: half the words
    GLOBAL_SIZE,
    MAX_BUILTIN_SIZE,
    REGISTERS,                  \* highest register
    VARIABLE_TABLE_SIZE,
    PREALLOCATE_FREELIST_SIZE

(* the pool holds false, true and None from the start, r0 is the temporary *)
ASSUME SizeAssumption ==
    /\ BYTECODE_SIZE \in Nat
    /\ GLOBAL_SIZE \in Nat /\ GLOBAL_SIZE > 3
    /\ MAX_BUILTIN_SIZE \in Nat
    /\ REGISTERS \in Nat \ {0}
    /\ VARIABLE_TABLE_SIZE \in Nat \ {0}
    /\ PREALLOCATE_FREELIST_SIZE \in Nat

(* the constructs the compiler knows by name and the builtins the machine  *)
(* registers                                                               *)
CompileTime == {"let", "function", "assert", "None", "match"}
Runtime == {"print", "println", "len", "type", "Some"}
=============================================================================
