-------------------------------- MODULE Bump --------------------------------
(***************************************************************************)
(* The bump allocator (bump.c).  blocks is a history variable: the blocks  *)
(* handed out since bump_init.                                             *)
(*                                                                         *)
(* Sizes are far below 2^63, so size_t does not wrap.                      *)
(***************************************************************************)
EXTENDS Mem

CONSTANT PageSize

ASSUME PageAssumption == PageSize \in Nat \ {0} /\ PageSize % ALIGN = 0

VARIABLES pos, len, blocks, state

vars == <<pos, len, blocks, state>>

(* bump_init rounds the size up to whole pages; mmap refuses a length of 0 *)
Pages(size) == ((size + PageSize - 1) \div PageSize) * PageSize

Init ==
    /\ \E size \in Capacities : size > 0 /\ len = Pages(size)
    /\ pos = 0
    /\ blocks = {}
    /\ state = "live"

bump_request_unaligned(size) ==    \* mutant: the check sees the old pos
    /\ state = "live"
    /\ IF pos + size <= len
       THEN /\ pos' = Align(pos) + size
            /\ blocks' = blocks \cup {Block(Align(pos), size)}
            /\ UNCHANGED state
       ELSE state' = "aborted" /\ UNCHANGED <<pos, blocks>>
    /\ UNCHANGED len

(* bump_request: pos is aligned before the check, so an abort leaves it so *)
bump_request(size) ==
    /\ state = "live"
    /\ LET start == Align(pos)
       IN  IF start + size <= len
           THEN /\ pos' = start + size
                /\ blocks' = blocks \cup {Block(start, size)}
                /\ UNCHANGED state
           ELSE pos' = start /\ state' = "aborted" /\ UNCHANGED blocks
    /\ UNCHANGED len

(* bump_destroy unmaps the region: every block is gone *)
bump_destroy ==
    /\ state = "live"
    /\ state' = "destroyed"
    /\ blocks' = {}
    /\ UNCHANGED <<pos, len>>

Next == (\E size \in Sizes : bump_request(size)) \/ bump_destroy

Spec == Init /\ [][Next]_vars

-----------------------------------------------------------------------------
(* Every variable has its type; pos never runs past the region, not even   *)
(* when a request that does not fit has aligned it.                        *)
TypeOK ==
    /\ len \in Nat
    /\ pos \in 0..len
    /\ blocks \subseteq Blocks
    /\ state \in {"live", "destroyed", "aborted"}

A == INSTANCE Arena WITH region <- len

(* The allocator keeps the promise of Allocator::request: aligned, disjoint *)
(* blocks inside the mapped region, or the end of the process (bump.c:      *)
(* 18-26).                                                                  *)
ImplementsArena == A!Spec
=============================================================================
