------------------------------- MODULE Arena --------------------------------
(***************************************************************************)
(* What a caller of Allocator::request (mem.h) relies on: until the        *)
(* allocator is destroyed it hands out aligned blocks of its region that   *)
(* do not overlap any block handed out before, or it ends the process.     *)
(***************************************************************************)
EXTENDS Mem

VARIABLES
    blocks,     \* handed out so far
    region,     \* bytes in the region
    state       \* "live", "destroyed", "aborted"

arenaVars == <<blocks, region, state>>

Init == blocks = {} /\ region \in Nat /\ state = "live"

Allowed(b) ==
    /\ b \in Blocks
    /\ b.start % ALIGN = 0
    /\ b.start + b.size <= region
    /\ \A c \in blocks : Disjoint(b, c)

Request == /\ state = "live"
           /\ \E b \in blocks' : Allowed(b) /\ blocks' = blocks \cup {b}
           /\ UNCHANGED <<region, state>>

Abort == state = "live" /\ state' = "aborted" /\ UNCHANGED <<blocks, region>>

Destroy == /\ state = "live"
           /\ state' = "destroyed" /\ blocks' = {}
           /\ UNCHANGED region

Next == Request \/ Abort \/ Destroy

Spec == Init /\ [][Next]_arenaVars
=============================================================================
