-------------------------------- MODULE Xcgc --------------------------------
(***************************************************************************)
(* The allocator of the virtual machine (xcgc.c): a garbage collector      *)
(* whose collection is not written yet, so a request that would need one   *)
(* ends the process.  blocks is a history variable.                        *)
(***************************************************************************)
EXTENDS Mem

VARIABLES pos, size, blocks, state

vars == <<pos, size, blocks, state>>

Init ==
    /\ size \in Capacities
    /\ pos = 0
    /\ blocks = {}
    /\ state = "live"

gc_request_behind(request) ==    \* mutant: the size is not part of the check
    /\ state = "live"
    /\ IF pos >= size
       THEN state' = "aborted" /\ UNCHANGED <<pos, blocks>>
       ELSE /\ pos' = Align(pos) + request
            /\ blocks' = blocks \cup {Block(Align(pos), request)}
            /\ UNCHANGED state
    /\ UNCHANGED size
gc_request_forgetful(request) ==    \* mutant: the aligned pos is not stored
    /\ state = "live"
    /\ IF pos + request >= size
       THEN state' = "aborted" /\ UNCHANGED <<pos, blocks>>
       ELSE /\ pos' = pos + request
            /\ blocks' = blocks \cup {Block(Align(pos), request)}
            /\ UNCHANGED state
    /\ UNCHANGED size

(* gc_request: the check sees pos before it is aligned.  xcgc_run aborts. *)
gc_request(request) ==
    /\ state = "live"
    /\ IF pos + request >= size
       THEN state' = "aborted" /\ UNCHANGED <<pos, blocks>>
       ELSE /\ pos' = Align(pos) + request
            /\ blocks' = blocks \cup {Block(Align(pos), request)}
            /\ UNCHANGED state
    /\ UNCHANGED size

gc_destroy ==
    /\ state = "live"
    /\ state' = "destroyed"
    /\ blocks' = {}
    /\ UNCHANGED <<pos, size>>

Next == (\E request \in Sizes : gc_request(request)) \/ gc_destroy

Spec == Init /\ [][Next]_vars

-----------------------------------------------------------------------------
(* Every variable has its type; though the check of gc_request sees pos    *)
(* before it is aligned, pos runs past the heap by less than ALIGN.        *)
TypeOK ==
    /\ size \in Nat
    /\ pos \in 0..size + ALIGN - 2
    /\ blocks \subseteq Blocks
    /\ state \in {"live", "destroyed", "aborted"}

(* The blocks handed out are aligned and do not overlap (xcgc.c:39-42). *)
BlocksDisjoint ==
    /\ \A b \in blocks : b.start % ALIGN = 0
    /\ \A b, c \in blocks : b # c => Disjoint(b, c)

(* Every block lies in the heap: the check before the allocation "is       *)
(* necessary to guard buffer overflows" (xcgc.c:28-37).                    *)
BlocksInHeap == \A b \in blocks : b.start + b.size <= size
=============================================================================
