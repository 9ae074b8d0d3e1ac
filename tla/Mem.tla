-------------------------------- MODULE Mem ---------------------------------
(***************************************************************************)
(* What both allocators behind mem.h share: positions are byte offsets     *)
(* into one region, and every block starts at a multiple of the size of a  *)
(* pointer.                                                                *)
(***************************************************************************)
EXTENDS Integers

CONSTANTS
    Sizes,        \* the sizes callers request
    Capacities    \* the sizes allocators are created with

ASSUME MemAssumption == Sizes \subseteq Nat /\ Capacities \subseteq Nat

ALIGN == 8        \* sizeof(void *)

AlignDown(p) == 8 * (p \div 8)    \* mutant: the mask without the addition
(* (pos + align - 1) & ~(align - 1) *)
Align(p) == 8 * ((p + 7) \div 8)

Block(start, size) == [start |-> start, size |-> size]
Blocks == [start : Nat, size : Nat]

Disjoint(b, c) == b.start + b.size <= c.start \/ c.start + c.size <= b.start
=============================================================================
