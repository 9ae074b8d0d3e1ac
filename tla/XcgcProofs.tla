----------------------------- MODULE XcgcProofs -----------------------------
(***************************************************************************)
(* The heap of the virtual machine never hands out overlapping blocks, and *)
(* what it hands out beyond its end is less than the alignment.  That the  *)
(* blocks stay inside the heap is false: see the run of MCXcgcBound.cfg.   *)
(***************************************************************************)
EXTENDS Xcgc, TLAPS

(* A new block meets no old one because every old one ends at or before    *)
(* pos.                                                                    *)
Below == \A b \in blocks : b.start + b.size <= pos

XInv == TypeOK /\ BlocksDisjoint /\ Below

(* Align rounds up, by less than the alignment. *)
LEMMA AlignUp ==
    ASSUME NEW p \in Nat
    PROVE  /\ Align(p) \in Nat
           /\ Align(p) % ALIGN = 0
           /\ p <= Align(p) /\ Align(p) < p + 8
  BY DEF Align, ALIGN

(* What a request does while the invariant holds. *)
LEMMA RequestStep ==
    ASSUME XInv, NEW request \in Sizes, gc_request(request)
    PROVE  XInv'
PROOF
<1> DEFINE start == Align(pos)
           b == Block(start, request)
<1>1. /\ request \in Nat /\ pos \in Nat /\ size \in Nat
      /\ pos <= size + 6 /\ blocks \subseteq Blocks
  BY MemAssumption DEF XInv, TypeOK, ALIGN
<1>2. start \in Nat /\ start % ALIGN = 0 /\ pos <= start /\ start <= pos + 7
  BY <1>1, AlignUp
<1>3. state = "live" /\ size' = size
  BY DEF gc_request
<1>4. \A c \in blocks : /\ c \in Blocks /\ c.start \in Nat /\ c.size \in Nat
                        /\ c.start + c.size <= pos
  BY <1>1 DEF Blocks, XInv, Below
<1>5. CASE pos + request >= size
  <2>1. pos' = pos /\ blocks' = blocks /\ state' = "aborted"
    BY <1>5 DEF gc_request
  <2> QED BY <1>3, <2>1 DEF XInv, TypeOK, BlocksDisjoint, Below
<1>6. CASE ~(pos + request >= size)
  <2>1. pos' = start + request /\ blocks' = blocks \cup {b} /\ state' = state
    BY <1>6 DEF gc_request
  <2> HIDE DEF start
  <2>2. b \in Blocks /\ b.start = start /\ b.size = request
    BY <1>1, <1>2 DEF Block, Blocks
  <2> HIDE DEF b
  <2>3. TypeOK'
    BY <1>1, <1>2, <1>3, <1>6, <2>1, <2>2 DEF TypeOK, ALIGN
  <2>4. Below'
    BY <1>1, <1>2, <1>4, <2>1, <2>2 DEF Below
  <2>5. \A c \in blocks : Disjoint(b, c) /\ Disjoint(c, b)
    BY <1>1, <1>2, <1>4, <2>2 DEF Disjoint
  <2>6. BlocksDisjoint'
    BY <1>2, <2>1, <2>2, <2>5 DEF XInv, BlocksDisjoint
  <2> QED BY <2>3, <2>4, <2>6 DEF XInv
<1> QED BY <1>5, <1>6

(* The invariant holds at the start and is preserved by every step. *)
LEMMA Invariance == Spec => []XInv
PROOF
<1>1. Init => XInv
  BY MemAssumption DEF Init, XInv, TypeOK, BlocksDisjoint, Below, ALIGN
<1>2. XInv /\ [Next]_vars => XInv'
  <2> SUFFICES ASSUME XInv, [Next]_vars PROVE XInv'
    OBVIOUS
  <2>1. CASE \E request \in Sizes : gc_request(request)
    BY <2>1, RequestStep
  <2>2. CASE gc_destroy
    BY <2>2 DEF gc_destroy, XInv, TypeOK, BlocksDisjoint, Below
  <2>3. CASE UNCHANGED vars
    BY <2>3 DEF vars, XInv, TypeOK, BlocksDisjoint, Below
  <2> QED BY <2>1, <2>2, <2>3 DEF Next
<1> QED BY <1>1, <1>2, PTL DEF Spec

(* The heap is overrun by less than the alignment, whatever is requested   *)
(* (xcgc.c:28-42).                                                         *)
THEOREM XcgcTypeCorrect == Spec => []TypeOK
PROOF
<1>1. XInv => TypeOK
  BY DEF XInv
<1> QED BY <1>1, Invariance, PTL

(* No two blocks of the heap overlap and every block is aligned            *)
(* (xcgc.c:39-42).                                                         *)
THEOREM XcgcDisjoint == Spec => []BlocksDisjoint
PROOF
<1>1. XInv => BlocksDisjoint
  BY DEF XInv
<1> QED BY <1>1, Invariance, PTL
=============================================================================
