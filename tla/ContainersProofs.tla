-------------------------- MODULE ContainersProofs --------------------------
(***************************************************************************)
(* The bump allocator implements the abstract one for every page size that *)
(* is a multiple of the alignment and every sequence of requests.  What is *)
(* appended to a builder or a list in its memory stays there, whatever the *)
(* sizes.                                                                  *)
(*                                                                         *)
(* TypeOK is not inductive: that aligning pos cannot leave the region      *)
(* takes that the region ends at an aligned offset, and that a new block   *)
(* meets no old one takes that every old one ends at or before pos.        *)
(* ContentsKept is not inductive: that one container does not write into   *)
(* another takes that their buffers do not overlap, and that the next      *)
(* block overlaps none of them takes that they all end at or before pos.   *)
(***************************************************************************)
EXTENDS Containers, SequenceTheorems, TLAPS

-----------------------------------------------------------------------------
(* The allocator. *)

Below == \A b \in blocks : b.start + b.size <= pos

BInv == TypeOK /\ len % ALIGN = 0 /\ Below

(* Align rounds up to the next multiple of the alignment. *)
LEMMA AlignUp ==
    ASSUME NEW p \in Nat
    PROVE  /\ Align(p) \in Nat
           /\ Align(p) % ALIGN = 0
           /\ p <= Align(p) /\ Align(p) < p + 8
  BY DEF Align, ALIGN

(* Nothing aligned lies strictly between p and Align(p). *)
LEMMA AlignLeast ==
    ASSUME NEW p \in Nat, NEW q \in Nat, p <= q, q % ALIGN = 0
    PROVE  Align(p) <= q
  BY DEF Align, ALIGN

(* The region is a whole number of pages, so it ends aligned. *)
LEMMA PagesAligned ==
    ASSUME NEW size \in Nat
    PROVE  Pages(size) \in Nat /\ Pages(size) % ALIGN = 0
PROOF
<1> DEFINE k == (size + PageSize - 1) \div PageSize
           m == PageSize \div 8
<1>1. PageSize = 8 * m /\ m \in Nat /\ PageSize \in Nat \ {0}
  BY PageAssumption DEF ALIGN
<1>2. k \in Nat
  <2>1. size + PageSize - 1 \in Nat
    BY <1>1
  <2> QED BY <1>1, <2>1
<1>3. Pages(size) = k * PageSize
  BY DEF Pages
<1> HIDE DEF k, m
<1>4. k * m \in Nat
  BY <1>1, <1>2
<1>5. k * (8 * m) = 8 * (k * m)
  BY <1>1, <1>2
<1>6. (8 * (k * m)) % 8 = 0 /\ 8 * (k * m) \in Nat
  <2> DEFINE j == k * m
  <2>1. j \in Nat
    BY <1>4
  <2> HIDE DEF j
  <2>2. (8 * j) % 8 = 0 /\ 8 * j \in Nat
    BY <2>1
  <2> QED BY <2>2 DEF j
<1>7. Pages(size) = 8 * (k * m)
  BY <1>1, <1>3, <1>5
<1> QED BY <1>6, <1>7 DEF ALIGN

(* The invariant holds of a fresh allocator. *)
LEMMA InitBInv == Init => BInv
PROOF
<1> SUFFICES ASSUME Init PROVE BInv
  OBVIOUS
<1>1. PICK size \in Capacities : len = Pages(size)
  BY DEF Init
<1>2. len \in Nat /\ len % ALIGN = 0
  BY <1>1, MemAssumption, PagesAligned
<1> QED BY <1>2 DEF Init, BInv, TypeOK, Below

(* What a request does while the invariant holds: it ends the process, or  *)
(* hands out an aligned block behind all the others and inside the region. *)
LEMMA RequestStep ==
    ASSUME BInv, NEW size \in Nat, bump_request(size)
    PROVE  /\ BInv'
           /\ \/ A!Request
              \/ A!Abort
PROOF
<1> DEFINE start == Align(pos)
           b == Block(start, size)
<1>1. /\ pos \in Nat /\ len \in Nat /\ pos <= len
      /\ blocks \subseteq Blocks
  BY DEF BInv, TypeOK
<1>2. start \in Nat /\ start % ALIGN = 0 /\ pos <= start /\ start <= len
  BY <1>1, AlignUp, AlignLeast DEF BInv
<1>3. state = "live" /\ len' = len
  BY DEF bump_request
<1> HIDE DEF start
<1>4. \A c \in blocks : c \in Blocks /\ c.start \in Nat /\ c.size \in Nat /\ c.start + c.size <= pos
  BY <1>1 DEF Blocks, BInv, Below
<1>5. CASE start + size <= len
  <2>1. pos' = start + size /\ blocks' = blocks \cup {b} /\ state' = state
    BY <1>5 DEF bump_request, start
  <2>2. b \in Blocks /\ b.start = start /\ b.size = size
    BY <1>1, <1>2 DEF Block, Blocks
  <2> HIDE DEF b
  <2>3. BInv'
    <3>1. TypeOK'
      BY <1>1, <1>2, <1>3, <1>5, <2>1, <2>2 DEF TypeOK
    <3>2. Below'
      BY <1>1, <1>2, <1>4, <2>1, <2>2 DEF Below
    <3> QED BY <1>3, <3>1, <3>2 DEF BInv
  <2>4. A!Allowed(b)
    BY <1>1, <1>2, <1>4, <1>5, <2>2 DEF A!Allowed, A!Disjoint, A!Blocks, A!ALIGN, Blocks, ALIGN
  <2>5. A!Request
    BY <1>3, <2>1, <2>4 DEF A!Request
  <2> QED BY <2>3, <2>5
<1>6. CASE ~(start + size <= len)
  <2>1. pos' = start /\ state' = "aborted" /\ blocks' = blocks
    BY <1>6 DEF bump_request, start
  <2>2. BInv'
    <3>1. TypeOK'
      BY <1>1, <1>2, <1>3, <2>1 DEF TypeOK
    <3>2. Below'
      BY <1>1, <1>2, <1>4, <2>1 DEF Below
    <3> QED BY <1>3, <3>1, <3>2 DEF BInv
  <2>3. A!Abort
    BY <1>3, <2>1 DEF A!Abort
  <2> QED BY <2>2, <2>3
<1> QED BY <1>5, <1>6

(* Destroying the allocator takes every block back. *)
LEMMA DestroyStep == BInv /\ bump_destroy => BInv' /\ A!Destroy
  BY DEF BInv, TypeOK, Below, bump_destroy, A!Destroy

(* Every step preserves the invariant and is one of the abstract allocator. *)
LEMMA StepBInv == BInv /\ [Next]_vars => BInv' /\ [A!Next]_(A!arenaVars)
PROOF
<1> SUFFICES ASSUME BInv, [Next]_vars PROVE BInv' /\ [A!Next]_(A!arenaVars)
  OBVIOUS
<1>1. CASE \E size \in Sizes : bump_request(size)
  BY <1>1, RequestStep, MemAssumption DEF A!Next
<1>2. CASE bump_destroy
  BY <1>2, DestroyStep DEF A!Next
<1>3. CASE UNCHANGED vars
  BY <1>3 DEF vars, BInv, TypeOK, Below, A!arenaVars
<1> QED BY <1>1, <1>2, <1>3 DEF Next

(* pos never runs past the mapped region, however the requests fall (bump.c: *)
(* 18-26).                                                                   *)
THEOREM BumpTypeCorrect == Spec => []TypeOK
PROOF
<1>1. Spec => []BInv
  BY InitBInv, StepBInv, PTL DEF Spec
<1>2. BInv => TypeOK
  BY DEF BInv
<1> QED BY <1>1, <1>2, PTL

(* The bump allocator implements the abstract allocator: every request     *)
(* yields an aligned block of the region that overlaps no other.           *)
THEOREM BumpImplementsArena == Spec => ImplementsArena
PROOF
<1>1. Init => A!Init
  BY InitBInv DEF Init, BInv, TypeOK, A!Init
<1>2. BInv /\ [Next]_vars => BInv' /\ [A!Next]_(A!arenaVars)
  BY StepBInv
<1> QED BY InitBInv, <1>1, <1>2, PTL DEF Spec, ImplementsArena, A!Spec

-----------------------------------------------------------------------------
(* The containers. *)

(* what texts are made of: the provers do better without knowing that it   *)
(* is STRING                                                               *)
Bytes == STRING

LEMMA PiecesAreTexts == Pieces \subseteq Seq(Bytes)
  BY ContainersAssumption DEF Bytes

BuilderType == [cap : Nat, buffer : Nat, len : Nat, appended : Seq(Bytes)]
CstrType == [cap : Nat, buffer : Nat, text : Seq(Bytes)]
ListType == [cap : Nat, elements : Nat, len : Nat, appended : Seq(Elements)]

(* where the k-th value of a list is *)
Offset(k) == k * VALUE_SIZE

(* Each container in memory m, below p. *)
BuilderOK(b, m, p) ==
    /\ b \in BuilderType
    /\ b.len <= b.cap /\ Len(b.appended) = b.len /\ b.buffer + b.cap <= p
    /\ \A k \in 1..b.len : m[b.buffer + k - 1] = b.appended[k]
CstrOK(c, m, p) ==
    /\ c \in CstrType
    /\ c.cap = Len(c.text) + 1 /\ c.buffer + c.cap <= p
    /\ \A k \in 1..c.cap : m[c.buffer + k - 1] = Append(c.text, "NUL")[k]
ListOK(l, m, p) ==
    /\ l \in ListType
    /\ l.len <= l.cap /\ Len(l.appended) = l.len /\ l.elements + Offset(l.cap) <= p
    /\ \A k \in 0..l.len - 1 : m[l.elements + Offset(k)] = l.appended[k + 1]

Apart(start1, size1, start2, size2) == start1 + size1 <= start2 \/ start2 + size2 <= start1

Separate ==
    /\ builder # NotYet /\ cstr # NotYet =>
          Apart(builder.buffer, builder.cap, cstr.buffer, cstr.cap)
    /\ builder # NotYet /\ list # NotYet =>
          Apart(builder.buffer, builder.cap, list.elements, Offset(list.cap))
    /\ cstr # NotYet /\ list # NotYet =>
          Apart(cstr.buffer, cstr.cap, list.elements, Offset(list.cap))

(* the memory is that of the region *)
Memory == \E X : memory \in [0..len - 1 -> X]

Holding ==
    /\ builder # NotYet => BuilderOK(builder, memory, pos)
    /\ cstr # NotYet => CstrOK(cstr, memory, pos)
    /\ list # NotYet => ListOK(list, memory, pos)
    /\ Separate

ContInv == BInv /\ Memory /\ (Working => Holding)

(* Values of a list do not overlap. *)
LEMMA Offsets ==
    /\ \A k \in Nat : Offset(k) \in Nat
    /\ \A j, k \in Nat : j < k => Offset(j) + 1 <= Offset(k)
PROOF
<1>1. VALUE_SIZE \in Nat \ {0}
  BY ContainersAssumption
<1>2. \A k \in Nat : Offset(k) \in Nat
  BY <1>1 DEF Offset
<1>3. ASSUME NEW j \in Nat, NEW k \in Nat, j < k PROVE Offset(j) + 1 <= Offset(k)
  <2>1. PICK d \in Nat : k = j + 1 + d
    <3>1. k - j - 1 \in Nat /\ k = j + 1 + (k - j - 1)
      BY <1>3
    <3> QED BY <3>1
  <2>2. (j + 1 + d) * VALUE_SIZE = j * VALUE_SIZE + VALUE_SIZE + d * VALUE_SIZE
    BY <1>1
  <2>3. d * VALUE_SIZE \in Nat /\ j * VALUE_SIZE \in Nat
    BY <1>1
  <2> QED BY <1>1, <2>1, <2>2, <2>3 DEF Offset
<1> QED BY <1>2, <1>3

(* A text is written, and the rest of the memory is not.                   *)
Fits(X, N, m, S, text, start) ==
    /\ N \in Nat /\ m \in [0..N - 1 -> X] /\ text \in Seq(S)
    /\ start \in Nat /\ start + Len(text) <= N

LEMMA WrittenText ==
    ASSUME NEW X, NEW N, NEW m, NEW S, NEW text, NEW start, Fits(X, N, m, S, text, start)
    PROVE  /\ Written(m, start, text) \in [0..N - 1 -> X \cup S]
           /\ \A k \in 1..Len(text) : Written(m, start, text)[start + k - 1] = text[k]
           /\ \A a \in 0..N - 1 : a < start \/ start + Len(text) <= a =>
                Written(m, start, text)[a] = m[a]
PROOF
<1>0. /\ N \in Nat /\ m \in [0..N - 1 -> X] /\ text \in Seq(S)
      /\ start \in Nat /\ start + Len(text) <= N
  BY DEF Fits
<1>1. PICK n \in Nat : n = Len(text)
  BY <1>0
<1>2. PICK w : w = Written(m, start, text)
  OBVIOUS
<1>3. w = [a \in 0..N - 1 |-> IF a \in start..start + n - 1 THEN text[a - start + 1] ELSE m[a]]
  BY <1>0, <1>1, <1>2 DEF Written
<1>4. \A k \in 1..n : text[k] \in S
  BY <1>0, <1>1
<1>5. \A a \in start..start + n - 1 : a - start + 1 \in 1..n
  BY <1>0, <1>1
<1>6. w \in [0..N - 1 -> X \cup S]
  BY <1>0, <1>3, <1>4, <1>5
<1>7. ASSUME NEW k \in 1..n PROVE w[start + k - 1] = text[k]
  <2>1. PICK a : a = start + k - 1
    OBVIOUS
  <2>2. a \in 0..N - 1 /\ a \in start..start + n - 1 /\ a - start + 1 = k
    BY <1>0, <1>1, <2>1
  <2> QED BY <1>3, <2>1, <2>2
<1>8. ASSUME NEW a \in 0..N - 1, a < start \/ start + n <= a PROVE w[a] = m[a]
  BY <1>0, <1>1, <1>3, <1>8
<1> QED BY <1>1, <1>2, <1>6, <1>7, <1>8

(* What a container holds stays when nothing is written to its buffer. *)
LEMMA BuilderStays ==
    ASSUME NEW b, NEW m, NEW p \in Nat, BuilderOK(b, m, p), NEW q \in Nat, p <= q,
           NEW w, \A a \in 0..p - 1 : b.buffer <= a /\ a < b.buffer + b.cap => w[a] = m[a]
    PROVE  BuilderOK(b, w, q)
PROOF
<1>1. /\ b.buffer \in Nat /\ b.cap \in Nat /\ b.len \in Nat /\ b.len <= b.cap
      /\ b.buffer + b.cap <= p
  BY DEF BuilderOK, BuilderType
<1>2. ASSUME NEW k \in 1..b.len PROVE w[b.buffer + k - 1] = b.appended[k]
  <2>1. PICK a : a = b.buffer + k - 1
    OBVIOUS
  <2>2. a \in 0..p - 1 /\ b.buffer <= a /\ a < b.buffer + b.cap
    BY <1>1, <2>1
  <2>3. m[a] = b.appended[k]
    BY <2>1 DEF BuilderOK
  <2> QED BY <2>1, <2>2, <2>3
<1>3. b.buffer + b.cap <= q
  BY <1>1
<1> QED BY <1>2, <1>3 DEF BuilderOK

LEMMA CstrStays ==
    ASSUME NEW c, NEW m, NEW p \in Nat, CstrOK(c, m, p), NEW q \in Nat, p <= q,
           NEW w, \A a \in 0..p - 1 : c.buffer <= a /\ a < c.buffer + c.cap => w[a] = m[a]
    PROVE  CstrOK(c, w, q)
PROOF
<1>1. c.buffer \in Nat /\ c.cap \in Nat /\ c.buffer + c.cap <= p
  BY DEF CstrOK, CstrType
<1>2. ASSUME NEW k \in 1..c.cap PROVE w[c.buffer + k - 1] = Append(c.text, "NUL")[k]
  <2>1. PICK a : a = c.buffer + k - 1
    OBVIOUS
  <2>2. a \in 0..p - 1 /\ c.buffer <= a /\ a < c.buffer + c.cap
    BY <1>1, <2>1
  <2>3. m[a] = Append(c.text, "NUL")[k]
    BY <2>1 DEF CstrOK
  <2> QED BY <2>1, <2>2, <2>3
<1>3. c.buffer + c.cap <= q
  BY <1>1
<1> QED BY <1>2, <1>3 DEF CstrOK

LEMMA ListStays ==
    ASSUME NEW l, NEW m, NEW p \in Nat, ListOK(l, m, p), NEW q \in Nat, p <= q,
           NEW w,
           \A a \in 0..p - 1 : l.elements <= a /\ a < l.elements + Offset(l.cap) => w[a] = m[a]
    PROVE  ListOK(l, w, q)
PROOF
<1>1. /\ l.elements \in Nat /\ l.cap \in Nat /\ l.len \in Nat /\ l.len <= l.cap
      /\ l.elements + Offset(l.cap) <= p /\ Offset(l.cap) \in Nat
  BY Offsets DEF ListOK, ListType
<1>2. ASSUME NEW k \in 0..l.len - 1 PROVE w[l.elements + Offset(k)] = l.appended[k + 1]
  <2>1. PICK a : a = l.elements + Offset(k)
    OBVIOUS
  <2>2. Offset(k) \in Nat /\ Offset(k) + 1 <= Offset(l.cap)
    BY <1>1, Offsets
  <2>3. a \in 0..p - 1 /\ l.elements <= a /\ a < l.elements + Offset(l.cap)
    BY <1>1, <2>1, <2>2
  <2>4. m[a] = l.appended[k + 1]
    BY <2>1 DEF ListOK
  <2> QED BY <2>1, <2>3, <2>4
<1>3. l.elements + Offset(l.cap) <= q
  BY <1>1
<1> QED BY <1>2, <1>3 DEF ListOK

-----------------------------------------------------------------------------
(* The steps                                                               *)

(* A request is refused, which ends the process, or its block is behind    *)
(* all the others.                                                         *)
LEMMA Requested ==
    ASSUME BInv, NEW size \in Nat, bump_request(size)
    PROVE  /\ BInv' /\ len' = len /\ len \in Nat /\ pos \in Nat
           /\ Granted \/ state' # "live"
           /\ Granted => /\ Align(pos) \in Nat /\ pos <= Align(pos)
                         /\ pos' = Align(pos) + size /\ pos' \in Nat /\ pos' <= len
PROOF
<1>1. BInv' /\ pos \in Nat /\ len \in Nat
  BY RequestStep DEF BInv, TypeOK
<1>2. Align(pos) \in Nat /\ pos <= Align(pos)
  BY <1>1, AlignUp
<1>3. PICK start \in Nat : start = Align(pos)
  BY <1>2
<1>4. CASE start + size <= len
  BY <1>1, <1>2, <1>3, <1>4 DEF bump_request, Granted
<1>5. CASE ~(start + size <= len)
  BY <1>1, <1>2, <1>3, <1>5 DEF bump_request, Granted
<1> QED BY <1>4, <1>5

(* A container whose buffer is below the old pos keeps what it holds when  *)
(* all that is written is behind it.                                       *)
LEMMA HeldBelow ==
    ASSUME NEW p \in Nat, NEW q \in Nat, p <= q, NEW m, NEW w,
           \A a \in 0..p - 1 : w[a] = m[a]
    PROVE  /\ \A b : BuilderOK(b, m, p) => BuilderOK(b, w, q)
           /\ \A c : CstrOK(c, m, p) => CstrOK(c, w, q)
           /\ \A l : ListOK(l, m, p) => ListOK(l, w, q)
  BY BuilderStays, CstrStays, ListStays

(* A block behind pos is apart from every container. *)
LEMMA Behind ==
    ASSUME Holding, pos \in Nat, NEW start \in Nat, pos <= start, NEW size \in Nat
    PROVE  /\ builder # NotYet => /\ Apart(builder.buffer, builder.cap, start, size)
                                  /\ Apart(start, size, builder.buffer, builder.cap)
           /\ cstr # NotYet => /\ Apart(cstr.buffer, cstr.cap, start, size)
                               /\ Apart(start, size, cstr.buffer, cstr.cap)
           /\ list # NotYet => /\ Apart(list.elements, Offset(list.cap), start, size)
                               /\ Apart(start, size, list.elements, Offset(list.cap))
PROOF
<1>1. builder # NotYet => /\ builder.buffer \in Nat /\ builder.cap \in Nat
                          /\ builder.buffer + builder.cap <= pos
  BY DEF Holding, BuilderOK, BuilderType
<1>2. cstr # NotYet => /\ cstr.buffer \in Nat /\ cstr.cap \in Nat
                       /\ cstr.buffer + cstr.cap <= pos
  BY DEF Holding, CstrOK, CstrType
<1>3. list # NotYet => /\ list.elements \in Nat /\ Offset(list.cap) \in Nat
                       /\ list.elements + Offset(list.cap) <= pos
  BY Offsets DEF Holding, ListOK, ListType
<1> QED BY <1>1, <1>2, <1>3 DEF Apart

LEMMA BuilderNewStep ==
    ASSUME ContInv, NEW size \in Caps, Builder_new(size)
    PROVE  ContInv'
PROOF
<1>1. PICK cap : cap = IF size = 0 THEN BUILDER_DEFAULT_SIZE ELSE size
  OBVIOUS
<1>2. cap \in Nat
  BY <1>1, ContainersAssumption
<1>3. /\ Working /\ bump_request(cap) /\ UNCHANGED <<memory, cstr, list, fault>>
      /\ builder' = IF Granted THEN [cap |-> cap, buffer |-> Align(pos), len |-> 0, appended |-> <<>>]
                    ELSE builder
  BY <1>1 DEF Builder_new
<1>4. BInv /\ Holding
  BY <1>3 DEF ContInv
<1>5. /\ BInv' /\ len' = len /\ len \in Nat /\ pos \in Nat
      /\ Granted \/ state' # "live"
      /\ Granted => /\ Align(pos) \in Nat /\ pos <= Align(pos)
                    /\ pos' = Align(pos) + cap /\ pos' \in Nat /\ pos' <= len
  BY <1>2, <1>3, <1>4, Requested
<1>6. Memory'
  BY <1>3, <1>5 DEF ContInv, Memory
<1>7. CASE ~Granted
  BY <1>5, <1>6, <1>7 DEF ContInv, Working
<1>8. CASE Granted
  <2>1. PICK start \in Nat : start = Align(pos) /\ pos <= start /\ pos' = start + cap /\ pos <= pos'
    BY <1>2, <1>5, <1>8
  <2>2. /\ builder'.cap = cap /\ builder'.buffer = start /\ builder'.len = 0
        /\ builder'.appended = <<>> /\ builder' \in BuilderType
    BY <1>2, <1>3, <1>8, <2>1 DEF BuilderType
  <2>3. BuilderOK(builder', memory', pos')
    BY <1>2, <2>1, <2>2 DEF BuilderOK
  <2>4. /\ cstr' # NotYet => CstrOK(cstr', memory', pos')
        /\ list' # NotYet => ListOK(list', memory', pos')
    BY <1>3, <1>4, <1>5, <1>8, <2>1, HeldBelow DEF Holding
  <2>5. Separate'
    <3>1. /\ cstr # NotYet => Apart(start, cap, cstr.buffer, cstr.cap)
          /\ list # NotYet => Apart(start, cap, list.elements, Offset(list.cap))
      BY <1>2, <1>4, <1>5, <2>1, Behind
    <3>2. Separate /\ UNCHANGED <<cstr, list>>
      BY <1>3, <1>4 DEF Holding
    <3> QED BY <2>2, <3>1, <3>2 DEF Separate
  <2> QED BY <1>5, <1>6, <2>3, <2>4, <2>5 DEF ContInv, Holding
<1> QED BY <1>7, <1>8

LEMMA ListNewStep ==
    ASSUME ContInv, NEW n \in Caps, List_new(n)
    PROVE  ContInv'
PROOF
<1>1. PICK cap : cap = IF n < LIST_DEFAULT_CAP THEN LIST_DEFAULT_CAP ELSE n
  OBVIOUS
<1>2. cap \in Nat /\ Offset(cap) \in Nat
  BY <1>1, ContainersAssumption, Offsets
<1>3. /\ Working /\ bump_request(Offset(cap)) /\ UNCHANGED <<memory, builder, cstr, fault>>
      /\ list' = IF Granted THEN [cap |-> cap, elements |-> Align(pos), len |-> 0, appended |-> <<>>]
                 ELSE list
  BY <1>1 DEF List_new, Offset
<1>4. BInv /\ Holding
  BY <1>3 DEF ContInv
<1>5. /\ BInv' /\ len' = len /\ len \in Nat /\ pos \in Nat
      /\ Granted \/ state' # "live"
      /\ Granted => /\ Align(pos) \in Nat /\ pos <= Align(pos)
                    /\ pos' = Align(pos) + Offset(cap) /\ pos' \in Nat /\ pos' <= len
  BY <1>2, <1>3, <1>4, Requested
<1>6. Memory'
  BY <1>3, <1>5 DEF ContInv, Memory
<1>7. CASE ~Granted
  BY <1>5, <1>6, <1>7 DEF ContInv, Working
<1>8. CASE Granted
  <2>1. PICK start \in Nat : /\ start = Align(pos) /\ pos <= start
                             /\ pos' = start + Offset(cap) /\ pos <= pos'
    BY <1>2, <1>5, <1>8
  <2>2. /\ list'.cap = cap /\ list'.elements = start /\ list'.len = 0
        /\ list'.appended = <<>> /\ list' \in ListType
    BY <1>2, <1>3, <1>8, <2>1 DEF ListType
  <2>3. ListOK(list', memory', pos')
    BY <1>2, <2>1, <2>2 DEF ListOK
  <2>4. /\ cstr' # NotYet => CstrOK(cstr', memory', pos')
        /\ builder' # NotYet => BuilderOK(builder', memory', pos')
    BY <1>3, <1>4, <1>5, <1>8, <2>1, HeldBelow DEF Holding
  <2>5. Separate'
    <3>1. /\ cstr # NotYet => Apart(cstr.buffer, cstr.cap, start, Offset(cap))
          /\ builder # NotYet => Apart(builder.buffer, builder.cap, start, Offset(cap))
      BY <1>2, <1>4, <1>5, <2>1, Behind
    <3>2. Separate /\ UNCHANGED <<cstr, builder>>
      BY <1>3, <1>4 DEF Holding
    <3> QED BY <2>2, <3>1, <3>2 DEF Separate
  <2> QED BY <1>5, <1>6, <2>3, <2>4, <2>5 DEF ContInv, Holding
<1> QED BY <1>7, <1>8

(* Requests of others, and the end of the allocator. *)
LEMMA OthersStep ==
    ASSUME ContInv, Others
    PROVE  ContInv'
PROOF
<1>1. UNCHANGED containerVars /\ fault = "none" /\ BInv
  BY DEF Others, ContInv
<1>2. UNCHANGED <<memory, builder, cstr, list, fault>>
  BY <1>1 DEF containerVars
<1>3. ASSUME NEW size \in Sizes, bump_request(size) PROVE ContInv'
  <2>1. size \in Nat /\ state = "live"
    BY <1>3, MemAssumption DEF bump_request
  <2>2. /\ BInv' /\ len' = len /\ len \in Nat /\ pos \in Nat
        /\ Granted \/ state' # "live"
        /\ Granted => /\ Align(pos) \in Nat /\ pos <= Align(pos)
                      /\ pos' = Align(pos) + size /\ pos' \in Nat /\ pos' <= len
    BY <1>1, <1>3, <2>1, Requested
  <2>3. Memory'
    BY <1>2, <2>2 DEF ContInv, Memory
  <2>4. CASE ~Granted
    BY <2>2, <2>3, <2>4 DEF ContInv, Working
  <2>5. CASE Granted
    <3>1. Holding
      BY <1>1, <2>1 DEF ContInv, Working
    <3>2. pos <= pos' /\ pos' \in Nat
      BY <2>1, <2>2, <2>5
    <3>3. /\ builder' # NotYet => BuilderOK(builder', memory', pos')
          /\ cstr' # NotYet => CstrOK(cstr', memory', pos')
          /\ list' # NotYet => ListOK(list', memory', pos')
      BY <1>2, <2>2, <3>1, <3>2, HeldBelow DEF Holding
    <3> QED BY <1>2, <2>2, <2>3, <3>1, <3>3 DEF ContInv, Holding, Separate
  <2> QED BY <2>4, <2>5
<1>4. ASSUME bump_destroy PROVE ContInv'
  <2>1. BInv' /\ state' = "destroyed" /\ len' = len
    BY <1>1, <1>4, DestroyStep DEF bump_destroy
  <2> QED BY <1>2, <2>1 DEF ContInv, Memory, Working
<1> QED BY <1>3, <1>4 DEF Others

(* What a builder's bytes are copied to is what was appended to it. *)
LEMMA ReadingBack ==
    ASSUME BuilderOK(builder, memory, pos)
    PROVE  Reading(builder.buffer, builder.len) = builder.appended
PROOF
<1>1. PICK n, start, text : n = builder.len /\ start = builder.buffer /\ text = builder.appended
  OBVIOUS
<1>2. /\ text \in Seq(Bytes) /\ Len(text) = n
      /\ \A k \in 1..n : memory[start + k - 1] = text[k]
  BY <1>1 DEF BuilderOK, BuilderType
<1>3. text = [k \in 1..n |-> text[k]]
  BY <1>2
<1>4. [k \in 1..n |-> memory[start + k - 1]] = [k \in 1..n |-> text[k]]
  BY <1>2
<1> QED BY <1>1, <1>3, <1>4 DEF Reading

(* A text that fits is put behind what a builder holds, in its buffer. *)
Longer(b, text) == [cap |-> b.cap, buffer |-> b.buffer, len |-> b.len + Len(text),
                    appended |-> b.appended \o text]
Put(m, b, text) == Written(m, b.buffer + b.len, text)
Filling(X, N, m, p, b, text) ==
    /\ p \in Nat /\ p <= N /\ N \in Nat /\ m \in [0..N - 1 -> X]
    /\ BuilderOK(b, m, p) /\ text \in Seq(Bytes) /\ b.len + Len(text) <= b.cap

LEMMA Extended ==
    ASSUME NEW X, NEW N, NEW m, NEW p, NEW b, NEW text, Filling(X, N, m, p, b, text),
           NEW w, w = Put(m, b, text)
    PROVE  /\ w \in [0..N - 1 -> X \cup Bytes]
           /\ BuilderOK(Longer(b, text), w, p)
           /\ \A a \in 0..N - 1 : a < b.buffer \/ b.buffer + b.cap <= a => w[a] = m[a]
PROOF
<1>0. PICK buffer, cap, n, held, size :
        /\ buffer = b.buffer /\ cap = b.cap /\ n = b.len /\ held = b.appended
        /\ size = Len(text)
  OBVIOUS
<1>a. \A k \in 1..n : m[buffer + k - 1] = held[k]
  BY <1>0 DEF Filling, BuilderOK
<1>b. /\ held \in Seq(Bytes) /\ Len(held) = n /\ text \in Seq(Bytes)
      /\ m \in [0..N - 1 -> X]
  BY <1>0 DEF Filling, BuilderOK, BuilderType
<1>1. /\ buffer \in Nat /\ cap \in Nat /\ n \in Nat /\ n <= cap /\ buffer + cap <= p
      /\ size \in Nat /\ n + size <= cap /\ p \in Nat /\ N \in Nat /\ p <= N
  BY <1>0 DEF Filling, BuilderOK, BuilderType
<1>c. PICK start : start = buffer + n
  OBVIOUS
<1>d. /\ start \in Nat /\ start + size <= N /\ start + size <= buffer + cap
      /\ buffer <= start
  BY <1>1, <1>c
<1>2. Fits(X, N, m, Bytes, text, start) /\ w = Written(m, start, text)
  BY <1>0, <1>1, <1>b, <1>c, <1>d DEF Fits, Put
<1>3. /\ w \in [0..N - 1 -> X \cup Bytes]
      /\ \A k \in 1..size : w[start + k - 1] = text[k]
      /\ \A a \in 0..N - 1 : a < start \/ start + size <= a => w[a] = m[a]
  BY <1>0, <1>2, WrittenText
<1>4. ASSUME NEW a \in 0..N - 1, a < buffer \/ buffer + cap <= a PROVE w[a] = m[a]
  <2>1. a < start \/ start + size <= a
    BY <1>1, <1>4, <1>d
  <2> QED BY <1>3, <2>1
<1>5. PICK all : all = held \o text
  OBVIOUS
<1>6. /\ all \in Seq(Bytes) /\ Len(all) = n + size
      /\ \A k \in 1..n : all[k] = held[k]
      /\ \A k \in 1..size : all[n + k] = text[k]
  <2>1. /\ all \in Seq(Bytes) /\ Len(all) = n + size
        /\ \A i \in 1..n + size : all[i] = IF i <= n THEN held[i] ELSE text[i - n]
    BY <1>0, <1>5, <1>b, ConcatProperties
  <2>2. \A k \in 1..n : k \in 1..n + size
    BY <1>1
  <2>3. ASSUME NEW k \in 1..size PROVE all[n + k] = text[k]
    <3>1. PICK i : i = n + k
      OBVIOUS
    <3>2. i \in 1..n + size /\ ~(i <= n) /\ i - n = k
      BY <1>1, <3>1
    <3> QED BY <2>1, <3>1, <3>2
  <2> QED BY <2>1, <2>2, <2>3
<1>7. ASSUME NEW k \in 1..n + size PROVE w[buffer + k - 1] = all[k]
  <2>1. CASE k <= n
    <3>1. PICK a : a = buffer + k - 1
      OBVIOUS
    <3>2. k \in 1..n /\ a \in 0..N - 1 /\ a < start
      BY <1>1, <1>c, <1>d, <2>1, <3>1
    <3> QED BY <1>3, <1>6, <1>a, <3>1, <3>2
  <2>2. CASE k > n
    <3>1. PICK j : j = k - n
      OBVIOUS
    <3>2. j \in 1..size /\ k = n + j /\ buffer + k - 1 = start + j - 1
      BY <1>1, <1>c, <2>2, <3>1
    <3> QED BY <1>3, <1>6, <3>2
  <2> QED BY <1>1, <2>1, <2>2
<1>8. PICK c : c = [cap |-> cap, buffer |-> buffer, len |-> n + size, appended |-> all]
  OBVIOUS
<1>9. c = Longer(b, text)
  BY <1>0, <1>5, <1>8 DEF Longer
<1>10. BuilderOK(c, w, p)
  <2>1. c \in BuilderType
    BY <1>1, <1>6, <1>8 DEF BuilderType
  <2> QED BY <1>1, <1>6, <1>7, <1>8, <2>1 DEF BuilderOK
<1> QED BY <1>0, <1>3, <1>4, <1>9, <1>10

(* An append into the buffer of a builder leaves the others alone. *)
LEMMA AppendInPlaceStep ==
    ASSUME ContInv, NEW text \in Pieces, AppendInPlace(text)
    PROVE  ContInv'
PROOF
<1>1. text \in Seq(Bytes)
  BY PiecesAreTexts
<1>2. /\ Working /\ builder # NotYet /\ UNCHANGED <<vars, cstr, list, fault>>
      /\ builder.len + Len(text) <= builder.cap
      /\ memory' = Written(memory, builder.buffer + builder.len, text)
      /\ builder' = [cap |-> builder.cap, buffer |-> builder.buffer,
                     len |-> builder.len + Len(text), appended |-> builder.appended \o text]
  BY DEF AppendInPlace, AppendTo
<1>3. UNCHANGED <<pos, len, blocks, state>>
  BY <1>2 DEF vars
<1>4. BInv /\ Holding /\ len \in Nat /\ pos \in Nat /\ pos <= len
  BY <1>2 DEF ContInv, BInv, TypeOK
<1>5. PICK X : memory \in [0..len - 1 -> X]
  BY DEF ContInv, Memory
<1>6. /\ memory' \in [0..len - 1 -> X \cup Bytes]
      /\ BuilderOK(builder', memory', pos)
      /\ \A a \in 0..len - 1 :
            a < builder.buffer \/ builder.buffer + builder.cap <= a => memory'[a] = memory[a]
  <2>1. BuilderOK(builder, memory, pos)
    BY <1>2, <1>4 DEF Holding
  <2>2. /\ Filling(X, len, memory, pos, builder, text)
        /\ builder' = Longer(builder, text) /\ memory' = Put(memory, builder, text)
    BY <1>1, <1>2, <1>4, <1>5, <2>1 DEF Filling, Longer, Put
  <2>3. /\ memory' \in [0..len - 1 -> X \cup Bytes]
        /\ BuilderOK(Longer(builder, text), memory', pos)
        /\ \A a \in 0..len - 1 :
              a < builder.buffer \/ builder.buffer + builder.cap <= a => memory'[a] = memory[a]
    BY <2>2, Extended
  <2> QED BY <2>2, <2>3
<1>7. builder'.buffer = builder.buffer /\ builder'.cap = builder.cap
  BY <1>2
<1>8. builder.buffer \in Nat /\ builder.cap \in Nat
  BY <1>2, <1>4 DEF Holding, BuilderOK, BuilderType
<1>9. ASSUME cstr # NotYet PROVE CstrOK(cstr, memory', pos)
  <2>1. CstrOK(cstr, memory, pos) /\ Apart(builder.buffer, builder.cap, cstr.buffer, cstr.cap)
    BY <1>2, <1>4, <1>9 DEF Holding, Separate
  <2>2. cstr.buffer \in Nat /\ cstr.cap \in Nat
    BY <2>1 DEF CstrOK, CstrType
  <2>3. \A a \in 0..pos - 1 : cstr.buffer <= a /\ a < cstr.buffer + cstr.cap => memory'[a] = memory[a]
    BY <1>4, <1>6, <1>8, <2>1, <2>2 DEF Apart
  <2> QED BY <1>4, <2>1, <2>3, CstrStays
<1>10. ASSUME list # NotYet PROVE ListOK(list, memory', pos)
  <2>1. /\ ListOK(list, memory, pos)
        /\ Apart(builder.buffer, builder.cap, list.elements, Offset(list.cap))
    BY <1>2, <1>4, <1>10 DEF Holding, Separate
  <2>2. list.elements \in Nat /\ Offset(list.cap) \in Nat
    BY <2>1, Offsets DEF ListOK, ListType
  <2>3. \A a \in 0..pos - 1 : list.elements <= a /\ a < list.elements + Offset(list.cap)
            => memory'[a] = memory[a]
    BY <1>4, <1>6, <1>8, <2>1, <2>2 DEF Apart
  <2> QED BY <1>4, <2>1, <2>3, ListStays
<1>11. BInv'
  BY <1>3, <1>4 DEF BInv, TypeOK, Below
<1>12. Separate'
  BY <1>2, <1>4, <1>7 DEF Holding, Separate
<1>13. UNCHANGED <<cstr, list>> /\ Memory'
  BY <1>2, <1>3, <1>6 DEF Memory
<1> QED BY <1>3, <1>6, <1>9, <1>10, <1>11, <1>12, <1>13 DEF ContInv, Holding

(* A text copied to the block behind all the others: the text is there, and *)
(* nothing is written below it.                                             *)
Copying(X, N, m, p, S, text, start) ==
    /\ Fits(X, N, m, S, text, start) /\ p \in Nat /\ p <= start

LEMMA Copied ==
    ASSUME NEW X, NEW N, NEW m, NEW p, NEW S, NEW text, NEW start,
           Copying(X, N, m, p, S, text, start),
           NEW w, w = Written(m, start, text)
    PROVE  /\ w \in [0..N - 1 -> X \cup S]
           /\ \A k \in 1..Len(text) : w[start + k - 1] = text[k]
           /\ \A a \in 0..p - 1 : w[a] = m[a]
PROOF
<1>1. Fits(X, N, m, S, text, start) /\ p \in Nat /\ p <= start
  BY DEF Copying
<1>2. /\ w \in [0..N - 1 -> X \cup S]
      /\ \A k \in 1..Len(text) : w[start + k - 1] = text[k]
      /\ \A a \in 0..N - 1 : a < start \/ start + Len(text) <= a => w[a] = m[a]
  BY <1>1, WrittenText
<1>3. PICK size \in Nat : size = Len(text)
  BY <1>1 DEF Fits
<1>4. start \in Nat /\ N \in Nat /\ start + size <= N
  BY <1>1, <1>3 DEF Fits
<1>5. \A a \in 0..p - 1 : a \in 0..N - 1 /\ a < start
  BY <1>1, <1>3, <1>4
<1> QED BY <1>2, <1>5

(* Growing moves what a builder holds to a block behind all the others, and *)
(* then either writes the text behind it or is an overrun.                  *)
LEMMA AppendGrowingStep ==
    ASSUME ContInv, NEW text \in Pieces, AppendGrowing(text)
    PROVE  ContInv'
PROOF
<1>1. text \in Seq(Bytes)
  BY PiecesAreTexts
<1>2. PICK start, held, cap, m :
        /\ start = Align(pos) /\ held = builder.appended /\ cap = Grown
        /\ m = Written(memory, start, held)
  OBVIOUS
<1>3. /\ Working /\ builder # NotYet /\ bump_request(cap) /\ UNCHANGED <<cstr, list>>
      /\ IF Granted
         THEN AppendTo(start, cap, Written(memory, start, Reading(builder.buffer, builder.len)), text)
         ELSE UNCHANGED <<memory, builder, fault>>
  BY <1>2 DEF AppendGrowing
<1>4. BInv /\ Holding /\ BuilderOK(builder, memory, pos) /\ pos <= len
  BY <1>3 DEF ContInv, Holding, BInv, TypeOK
<1>5. /\ builder.cap \in Nat /\ builder.len \in Nat /\ builder.len <= builder.cap
      /\ held \in Seq(Bytes) /\ Len(held) = builder.len
  BY <1>2, <1>4 DEF BuilderOK, BuilderType
<1>6. cap \in Nat /\ builder.len <= cap
  BY <1>2, <1>5 DEF Grown
<1>7. /\ BInv' /\ len' = len /\ len \in Nat /\ pos \in Nat
      /\ Granted \/ state' # "live"
      /\ Granted => /\ start \in Nat /\ pos <= start
                    /\ pos' = start + cap /\ pos' \in Nat /\ pos' <= len
  BY <1>2, <1>3, <1>4, <1>6, Requested
<1>8. CASE ~Granted
  BY <1>3, <1>7, <1>8 DEF ContInv, Memory, Working
<1>9. CASE Granted
  <2>1. /\ start \in Nat /\ pos <= start
        /\ pos' = start + cap /\ pos' \in Nat /\ pos' <= len
    BY <1>7, <1>9
  <2>2. AppendTo(start, cap, m, text)
    BY <1>2, <1>3, <1>4, <1>9, ReadingBack
  <2>3. CASE ~(builder.len + Len(text) <= cap)
    <3>1. fault' = "overrun" /\ memory' = memory
      BY <2>2, <2>3 DEF AppendTo
    <3> QED BY <1>7, <3>1 DEF ContInv, Memory, Working
  <2>4. CASE builder.len + Len(text) <= cap
    <3>1. PICK b : b = [cap |-> cap, buffer |-> start, len |-> builder.len, appended |-> held]
      OBVIOUS
    <3>2. b.cap = cap /\ b.buffer = start /\ b.len = builder.len /\ b.appended = held
      BY <3>1
    <3>3. PICK X : memory \in [0..len - 1 -> X]
      BY DEF ContInv, Memory
    <3>4. /\ m \in [0..len - 1 -> X \cup Bytes]
          /\ \A k \in 1..Len(held) : m[start + k - 1] = held[k]
          /\ \A a \in 0..pos - 1 : m[a] = memory[a]
      <4>1. start + Len(held) <= len
        BY <1>5, <1>6, <1>7, <2>1
      <4>2. Copying(X, len, memory, pos, Bytes, held, start)
        BY <1>5, <1>7, <2>1, <3>3, <4>1 DEF Copying, Fits
      <4> QED BY <1>2, <4>2, Copied
    <3>5. BuilderOK(b, m, pos')
      <4>1. b \in BuilderType
        BY <1>5, <1>6, <2>1, <3>1 DEF BuilderType
      <4>2. start + cap <= pos'
        BY <1>6, <2>1
      <4>3. b.len <= b.cap /\ Len(b.appended) = b.len
        BY <1>5, <1>6, <3>2
      <4> QED BY <1>5, <3>2, <3>4, <4>1, <4>2, <4>3 DEF BuilderOK
    <3>6. builder' = Longer(b, text) /\ memory' = Put(m, b, text) /\ UNCHANGED fault
      BY <1>2, <2>2, <2>4, <3>2 DEF AppendTo, Longer, Put
    <3>7. Filling(X \cup Bytes, len, m, pos', b, text)
      BY <1>1, <1>7, <2>1, <2>4, <3>2, <3>4, <3>5 DEF Filling
    <3>8. /\ memory' \in [0..len - 1 -> (X \cup Bytes) \cup Bytes]
          /\ BuilderOK(Longer(b, text), memory', pos')
          /\ \A a \in 0..len - 1 : a < b.buffer \/ b.buffer + b.cap <= a => memory'[a] = m[a]
      BY <3>6, <3>7, Extended
    <3>9. \A a \in 0..pos - 1 : memory'[a] = memory[a]
      <4>1. \A a \in 0..pos - 1 : a \in 0..len - 1 /\ a < start
        BY <1>6, <1>7, <2>1
      <4> QED BY <3>2, <3>4, <3>8, <4>1
    <3>10. pos <= pos'
      BY <1>6, <1>7, <2>1
    <3>11. /\ cstr' # NotYet => CstrOK(cstr', memory', pos')
           /\ list' # NotYet => ListOK(list', memory', pos')
      BY <1>3, <1>4, <1>7, <2>1, <3>9, <3>10, HeldBelow DEF Holding
    <3>12. builder'.buffer = start /\ builder'.cap = cap
      BY <3>2, <3>6 DEF Longer
    <3>13. Separate'
      <4>1. /\ cstr # NotYet => Apart(start, cap, cstr.buffer, cstr.cap)
            /\ list # NotYet => Apart(start, cap, list.elements, Offset(list.cap))
        BY <1>4, <1>6, <1>7, <2>1, Behind
      <4>2. Separate
        BY <1>4 DEF Holding
      <4> QED BY <1>3, <3>12, <4>1, <4>2 DEF Separate
    <3>14. Memory'
      BY <1>7, <3>8 DEF Memory
    <3> QED BY <1>7, <3>6, <3>8, <3>11, <3>13, <3>14 DEF ContInv, Holding
  <2> QED BY <2>3, <2>4
<1> QED BY <1>8, <1>9

(* The copy a builder makes of itself, with a NUL behind it, is a block     *)
(* behind all the others.                                                   *)
LEMMA AsCstrStep ==
    ASSUME ContInv, Builder_as_cstr
    PROVE  ContInv'
PROOF
<1>1. PICK start, held, size :
        /\ start = Align(pos) /\ held = builder.appended /\ size = builder.len + 1
  OBVIOUS
<1>2. PICK S : S = Bytes \cup {"NUL"}
  OBVIOUS
<1>3. PICK text : text = Append(held, "NUL")
  OBVIOUS
<1>4. /\ Working /\ builder # NotYet /\ bump_request(size) /\ UNCHANGED <<builder, list, fault>>
      /\ IF Granted
         THEN /\ memory' = Written(memory, start,
                                   Append(Reading(builder.buffer, builder.len), "NUL"))
              /\ cstr' = [cap |-> size, buffer |-> start, text |-> held]
         ELSE UNCHANGED <<memory, cstr>>
  BY <1>1 DEF Builder_as_cstr
<1>5. BInv /\ Holding /\ BuilderOK(builder, memory, pos)
  BY <1>4 DEF ContInv, Holding
<1>6. builder.len \in Nat /\ held \in Seq(Bytes) /\ Len(held) = builder.len
  BY <1>1, <1>5 DEF BuilderOK, BuilderType
<1>7. size \in Nat /\ text \in Seq(S) /\ Len(text) = size
  <2>1. Len(text) = Len(held) + 1 /\ text \in Seq(S)
    BY <1>2, <1>3, <1>6
  <2> QED BY <1>1, <1>6, <2>1
<1>8. /\ BInv' /\ len' = len /\ len \in Nat /\ pos \in Nat
      /\ Granted \/ state' # "live"
      /\ Granted => /\ start \in Nat /\ pos <= start
                    /\ pos' = start + size /\ pos' \in Nat /\ pos' <= len
  BY <1>1, <1>4, <1>5, <1>7, Requested
<1>9. CASE ~Granted
  BY <1>4, <1>8, <1>9 DEF ContInv, Memory, Working
<1>10. CASE Granted
  <2>1. /\ start \in Nat /\ pos <= start
        /\ pos' = start + size /\ pos' \in Nat /\ pos' <= len
    BY <1>8, <1>10
  <2>2. memory' = Written(memory, start, text)
    BY <1>1, <1>3, <1>4, <1>5, <1>10, ReadingBack
  <2>3. PICK X : memory \in [0..len - 1 -> X]
    BY DEF ContInv, Memory
  <2>4. /\ memory' \in [0..len - 1 -> X \cup S]
        /\ \A k \in 1..size : memory'[start + k - 1] = text[k]
        /\ \A a \in 0..pos - 1 : memory'[a] = memory[a]
    <3>1. start + Len(text) <= len
      BY <1>7, <2>1
    <3>2. Copying(X, len, memory, pos, S, text, start)
      BY <1>7, <1>8, <2>1, <2>3, <3>1 DEF Copying, Fits
    <3> QED BY <1>7, <2>2, <3>2, Copied
  <2>5. cstr'.cap = size /\ cstr'.buffer = start /\ cstr'.text = held
    BY <1>4, <1>10
  <2>6. CstrOK(cstr', memory', pos')
    <3>1. cstr' \in CstrType
      BY <1>4, <1>6, <1>7, <1>10, <2>1 DEF CstrType
    <3>2. cstr'.cap = Len(cstr'.text) + 1 /\ start + size <= pos'
      BY <1>1, <1>6, <1>7, <2>1, <2>5
    <3> QED BY <1>3, <2>4, <2>5, <3>1, <3>2 DEF CstrOK
  <2>7. pos <= pos'
    BY <1>7, <1>8, <2>1
  <2>8. /\ builder' # NotYet => BuilderOK(builder', memory', pos')
        /\ list' # NotYet => ListOK(list', memory', pos')
    BY <1>4, <1>5, <1>8, <2>1, <2>4, <2>7, HeldBelow DEF Holding
  <2>9. Separate'
    <3>1. /\ builder # NotYet => Apart(builder.buffer, builder.cap, start, size)
          /\ list # NotYet => Apart(start, size, list.elements, Offset(list.cap))
      BY <1>5, <1>7, <1>8, <2>1, Behind
    <3>2. Separate
      BY <1>5 DEF Holding
    <3> QED BY <1>4, <2>5, <3>1, <3>2 DEF Separate
  <2>10. Memory'
    BY <1>8, <2>4 DEF Memory
  <2> QED BY <1>8, <2>6, <2>8, <2>9, <2>10 DEF ContInv, Holding
<1> QED BY <1>9, <1>10

(* A value is written behind the values of the list, inside its array. *)
LEMMA ListAppendStep ==
    ASSUME ContInv, NEW v \in Elements, List_append(v)
    PROVE  ContInv'
PROOF
<1>1. PICK array, cap, n, held, at :
        /\ array = list.elements /\ cap = list.cap /\ n = list.len /\ held = list.appended
        /\ at = array + Offset(n)
  OBVIOUS
<1>2. /\ Working /\ list # NotYet /\ UNCHANGED <<vars, builder, cstr>>
      /\ IF n + 1 >= cap
         THEN fault' = "null" /\ UNCHANGED <<memory, list>>
         ELSE /\ memory' = Written(memory, at, <<v>>)
              /\ list' = [list EXCEPT !.len = @ + 1, !.appended = Append(@, v)]
              /\ UNCHANGED fault
  BY <1>1 DEF List_append, Offset
<1>3. UNCHANGED <<pos, len, blocks, state>>
  BY <1>2 DEF vars
<1>4. BInv /\ Holding /\ ListOK(list, memory, pos) /\ len \in Nat /\ pos \in Nat /\ pos <= len
  BY <1>2 DEF ContInv, Holding, BInv, TypeOK
<1>5. BInv'
  BY <1>3, <1>4 DEF BInv, TypeOK, Below
<1>6. CASE n + 1 >= cap
  BY <1>2, <1>3, <1>5, <1>6 DEF ContInv, Memory, Working
<1>7. CASE ~(n + 1 >= cap)
  <2>1. /\ memory' = Written(memory, at, <<v>>) /\ UNCHANGED <<fault, builder, cstr>>
        /\ list' = [list EXCEPT !.len = @ + 1, !.appended = Append(@, v)]
    BY <1>2, <1>7
  <2>2. /\ list \in ListType /\ Len(held) = n
        /\ \A k \in 0..n - 1 : memory[array + Offset(k)] = held[k + 1]
    BY <1>1, <1>4 DEF ListOK
  <2>3. /\ array \in Nat /\ cap \in Nat /\ n \in Nat /\ held \in Seq(Elements)
        /\ array + Offset(cap) <= pos
    BY <1>1, <1>4 DEF ListOK, ListType
  <2>4. /\ Offset(n) \in Nat /\ Offset(cap) \in Nat /\ n < cap /\ Offset(n) + 1 <= Offset(cap)
    <3>1. n < cap
      BY <1>7, <2>3
    <3> QED BY <2>3, <3>1, Offsets
  <2>5. at \in Nat /\ array <= at /\ at + 1 <= array + Offset(cap) /\ at + 1 <= len
    BY <1>1, <1>4, <2>3, <2>4
  <2>6. PICK X : memory \in [0..len - 1 -> X]
    BY DEF ContInv, Memory
  <2>7. /\ memory' \in [0..len - 1 -> X \cup {v}]
        /\ memory'[at] = v
        /\ \A a \in 0..len - 1 : a # at => memory'[a] = memory[a]
    <3>1. PICK text : text = <<v>>
      OBVIOUS
    <3>2. text \in Seq({v}) /\ Len(text) = 1 /\ text[1] = v
      BY <3>1
    <3>3. Fits(X, len, memory, {v}, text, at)
      BY <1>4, <2>5, <2>6, <3>2 DEF Fits
    <3>4. /\ memory' \in [0..len - 1 -> X \cup {v}]
          /\ \A k \in 1..Len(text) : memory'[at + k - 1] = text[k]
          /\ \A a \in 0..len - 1 : a < at \/ at + Len(text) <= a => memory'[a] = memory[a]
      <4>1. PICK m, w : m = memory /\ w = Written(m, at, text)
        OBVIOUS
      <4>2. Fits(X, len, m, {v}, text, at)
        BY <3>3, <4>1
      <4>3. /\ w \in [0..len - 1 -> X \cup {v}]
            /\ \A k \in 1..Len(text) : w[at + k - 1] = text[k]
            /\ \A a \in 0..len - 1 : a < at \/ at + Len(text) <= a => w[a] = m[a]
        BY <4>1, <4>2, WrittenText
      <4> QED BY <2>1, <3>1, <4>1, <4>3
    <3>5. 1 \in 1..1 /\ at + 1 - 1 = at
      BY <2>5
    <3>6. \A a \in 0..len - 1 : a # at => a < at \/ at + 1 <= a
      BY <1>4, <2>5
    <3> QED BY <3>2, <3>4, <3>5, <3>6
  <2>8. /\ list'.cap = cap /\ list'.elements = array /\ list'.len = n + 1
        /\ list'.appended = Append(held, v)
    BY <1>1, <2>1, <2>2 DEF ListType
  <2>9. ListOK(list', memory', pos')
    <3>1. /\ Append(held, v) \in Seq(Elements) /\ Len(Append(held, v)) = n + 1
          /\ Append(held, v)[n + 1] = v
          /\ \A k \in 1..n : Append(held, v)[k] = held[k]
      BY <2>2, <2>3
    <3>2. list' \in ListType
      <4>1. list' = [cap |-> cap, elements |-> array, len |-> n + 1, appended |-> Append(held, v)]
        BY <1>1, <2>1, <2>2 DEF ListType
      <4> QED BY <2>3, <3>1, <4>1 DEF ListType
    <3>3. ASSUME NEW k \in 0..n + 1 - 1 PROVE memory'[array + Offset(k)] = Append(held, v)[k + 1]
      <4>1. CASE k = n
        BY <1>1, <2>7, <3>1, <4>1
      <4>2. CASE k # n
        <5>1. PICK a : a = array + Offset(k)
          OBVIOUS
        <5>2. k \in 0..n - 1 /\ k \in Nat /\ k < n /\ k + 1 \in 1..n
          BY <2>3, <4>2
        <5>3. Offset(k) \in Nat /\ Offset(k) + 1 <= Offset(n)
          BY <2>3, <5>2, Offsets
        <5>4. a \in Nat /\ a < at
          BY <1>1, <2>3, <2>4, <5>1, <5>3
        <5>5. a \in 0..len - 1 /\ a # at
          BY <1>4, <2>5, <5>4
        <5>6. memory[a] = held[k + 1]
          BY <2>2, <5>1, <5>2
        <5> QED BY <2>7, <3>1, <5>1, <5>2, <5>5, <5>6
      <4> QED BY <4>1, <4>2
    <3>4. n + 1 <= cap
      BY <1>7, <2>3
    <3> QED BY <1>3, <2>3, <2>8, <3>1, <3>2, <3>3, <3>4 DEF ListOK
  <2>10. ASSUME builder # NotYet PROVE BuilderOK(builder, memory', pos)
    <3>1. BuilderOK(builder, memory, pos) /\ Apart(builder.buffer, builder.cap, array, Offset(cap))
      BY <1>1, <1>2, <1>4, <2>10 DEF Holding, Separate
    <3>2. builder.buffer \in Nat /\ builder.cap \in Nat
      BY <3>1 DEF BuilderOK, BuilderType
    <3>3. \A a \in 0..pos - 1 : builder.buffer <= a /\ a < builder.buffer + builder.cap
            => a \in 0..len - 1 /\ a # at
      BY <1>4, <2>3, <2>4, <2>5, <3>1, <3>2 DEF Apart
    <3> QED BY <1>4, <2>7, <3>1, <3>3, BuilderStays
  <2>11. ASSUME cstr # NotYet PROVE CstrOK(cstr, memory', pos)
    <3>1. CstrOK(cstr, memory, pos) /\ Apart(cstr.buffer, cstr.cap, array, Offset(cap))
      BY <1>1, <1>2, <1>4, <2>11 DEF Holding, Separate
    <3>2. cstr.buffer \in Nat /\ cstr.cap \in Nat
      BY <3>1 DEF CstrOK, CstrType
    <3>3. \A a \in 0..pos - 1 : cstr.buffer <= a /\ a < cstr.buffer + cstr.cap
            => a \in 0..len - 1 /\ a # at
      BY <1>4, <2>3, <2>4, <2>5, <3>1, <3>2 DEF Apart
    <3> QED BY <1>4, <2>7, <3>1, <3>3, CstrStays
  <2>12. Separate'
    BY <1>1, <1>2, <1>4, <2>1, <2>8 DEF Holding, Separate
  <2>13. Memory'
    BY <1>3, <2>7 DEF Memory
  <2> QED BY <1>3, <1>5, <2>1, <2>9, <2>10, <2>11, <2>12, <2>13 DEF ContInv, Holding
<1> QED BY <1>6, <1>7

-----------------------------------------------------------------------------
LEMMA InitContInv == CInit => ContInv
PROOF
<1> SUFFICES ASSUME CInit PROVE ContInv
  OBVIOUS
<1>1. BInv
  BY InitBInv DEF CInit
<1>2. Memory
  <2>1. memory \in [0..len - 1 -> {"zero"}]
    BY DEF CInit
  <2> QED BY <2>1 DEF Memory
<1> QED BY <1>1, <1>2 DEF CInit, ContInv, Holding, Separate

LEMMA StepContInv == ContInv /\ [CNext]_<<vars, containerVars>> => ContInv'
PROOF
<1> SUFFICES ASSUME ContInv, [CNext]_<<vars, containerVars>> PROVE ContInv'
  OBVIOUS
<1>1. CASE Others
  BY <1>1, OthersStep
<1>2. ASSUME NEW n \in Caps, Builder_new(n) PROVE ContInv'
  BY <1>2, BuilderNewStep
<1>3. ASSUME NEW n \in Caps, List_new(n) PROVE ContInv'
  BY <1>3, ListNewStep
<1>4. ASSUME NEW text \in Pieces, AppendInPlace(text) PROVE ContInv'
  BY <1>4, AppendInPlaceStep
<1>5. ASSUME NEW text \in Pieces, AppendGrowing(text) PROVE ContInv'
  BY <1>5, AppendGrowingStep
<1>6. CASE Builder_as_cstr
  BY <1>6, AsCstrStep
<1>7. ASSUME NEW v \in Elements, List_append(v) PROVE ContInv'
  BY <1>7, ListAppendStep
<1>8. CASE UNCHANGED <<vars, containerVars>>
  <2>1. UNCHANGED <<pos, len, blocks, state, memory, builder, cstr, list, fault>>
    BY <1>8 DEF vars, containerVars
  <2>2. BInv'
    BY <2>1 DEF ContInv, BInv, TypeOK, Below
  <2> QED BY <2>1, <2>2 DEF ContInv, Memory, Working, Holding, Separate
<1> QED BY <1>1, <1>2, <1>3, <1>4, <1>5, <1>6, <1>7, <1>8 DEF CNext

(* What the buffers hold is what is read from them. *)
LEMMA HoldingKeeps == ContInv => ContentsKept
PROOF
<1> SUFFICES ASSUME Holding PROVE ContentsKept
  BY DEF ContInv, ContentsKept
<1>1. ASSUME builder # NotYet PROVE Reading(builder.buffer, builder.len) = builder.appended
  BY <1>1, ReadingBack DEF Holding
<1>2. ASSUME cstr # NotYet PROVE Reading(cstr.buffer, cstr.cap) = Append(cstr.text, "NUL")
  <2>1. PICK n, start, text, all :
          /\ n = cstr.cap /\ start = cstr.buffer /\ text = cstr.text /\ all = Append(text, "NUL")
    OBVIOUS
  <2>2. /\ text \in Seq(Bytes) /\ n = Len(text) + 1
        /\ \A k \in 1..n : memory[start + k - 1] = all[k]
    BY <1>2, <2>1 DEF Holding, CstrOK, CstrType
  <2>3. PICK S : S = Bytes \cup {"NUL"}
    OBVIOUS
  <2>4. all \in Seq(S) /\ Len(all) = n
    BY <2>1, <2>2, <2>3
  <2>5. all = [k \in 1..n |-> all[k]]
    BY <2>4
  <2>6. [k \in 1..n |-> memory[start + k - 1]] = [k \in 1..n |-> all[k]]
    BY <2>2
  <2> QED BY <2>1, <2>5, <2>6 DEF Reading
<1>3. ASSUME list # NotYet, NEW idx \in 0..list.cap
      PROVE  List_get(idx) = IF idx < Len(list.appended) THEN list.appended[idx + 1] ELSE "None"
  <2>1. ListOK(list, memory, pos)
    BY <1>3 DEF Holding
  <2>2. list.cap \in Nat /\ list.len \in Nat /\ Len(list.appended) = list.len
    BY <2>1 DEF ListOK, ListType
  <2>3. CASE idx >= list.len
    BY <2>2, <2>3 DEF List_get
  <2>4. CASE ~(idx >= list.len)
    <3>1. idx \in 0..list.len - 1 /\ idx < list.len
      BY <2>2, <2>4
    <3>2. memory[list.elements + Offset(idx)] = list.appended[idx + 1]
      BY <2>1, <3>1 DEF ListOK
    <3>3. List_get(idx) = memory[list.elements + Offset(idx)]
      BY <2>4 DEF List_get, Offset
    <3> QED BY <2>2, <3>1, <3>2, <3>3
  <2> QED BY <2>3, <2>4
<1> QED BY <1>1, <1>2, <1>3 DEF ContentsKept

(* Whatever else is requested and appended in between, a builder, a copy    *)
(* made of it and a list hold what was appended to them, through every      *)
(* growth, until an append overruns a builder or grows a list (builder.c:   *)
(* 16-31, adts.c:17-41).                                                    *)
THEOREM ContainersKeepContents == CSpec => []ContentsKept
PROOF
<1>1. CSpec => []ContInv
  BY InitContInv, StepContInv, PTL DEF CSpec
<1> QED BY <1>1, HoldingKeeps, PTL

(* The containers use the allocator only through its requests. *)
LEMMA ContainersRequest == ContInv /\ [CNext]_<<vars, containerVars>> => [A!Next]_(A!arenaVars)
PROOF
<1> SUFFICES ASSUME ContInv, [CNext]_<<vars, containerVars>> PROVE [A!Next]_(A!arenaVars)
  OBVIOUS
<1>0. BInv /\ (Working => Holding)
  BY DEF ContInv
<1>1. ASSUME NEW size \in Nat, bump_request(size) PROVE [A!Next]_(A!arenaVars)
  BY <1>0, <1>1, RequestStep DEF A!Next
<1>2. CASE Others
  BY <1>0, <1>1, <1>2, DestroyStep, MemAssumption DEF Others, A!Next
<1>3. ASSUME NEW n \in Caps, Builder_new(n) PROVE [A!Next]_(A!arenaVars)
  <2>1. PICK cap \in Nat : bump_request(cap)
    BY <1>3, ContainersAssumption DEF Builder_new
  <2> QED BY <1>1, <2>1
<1>4. ASSUME NEW n \in Caps, List_new(n) PROVE [A!Next]_(A!arenaVars)
  <2>1. PICK cap \in Nat : bump_request(Offset(cap))
    BY <1>4, ContainersAssumption DEF List_new, Offset
  <2> QED BY <1>1, <2>1, Offsets
<1>5. ASSUME UNCHANGED vars PROVE [A!Next]_(A!arenaVars)
  BY <1>5 DEF vars, A!arenaVars
<1>6. ASSUME NEW text \in Pieces, AppendInPlace(text) PROVE [A!Next]_(A!arenaVars)
  BY <1>5, <1>6 DEF AppendInPlace
<1>7. ASSUME NEW v \in Elements, List_append(v) PROVE [A!Next]_(A!arenaVars)
  BY <1>5, <1>7 DEF List_append
<1>8. ASSUME Working, builder # NotYet PROVE builder.len + 1 \in Nat /\ Grown \in Nat
  BY <1>0, <1>8 DEF Holding, BuilderOK, BuilderType, Grown
<1>9. ASSUME NEW text \in Pieces, AppendGrowing(text) PROVE [A!Next]_(A!arenaVars)
  BY <1>1, <1>8, <1>9 DEF AppendGrowing
<1>10. CASE Builder_as_cstr
  BY <1>1, <1>8, <1>10 DEF Builder_as_cstr
<1>11. CASE UNCHANGED <<vars, containerVars>>
  BY <1>5, <1>11
<1> QED BY <1>2, <1>3, <1>4, <1>6, <1>7, <1>9, <1>10, <1>11 DEF CNext

(* In a process that keeps its containers in it, the bump allocator still   *)
(* hands out aligned blocks that overlap no other (bump.c:18-26).           *)
THEOREM ContainersImplementArena == CSpec => ImplementsArena
PROOF
<1>1. CInit => A!Init
  <2> SUFFICES ASSUME CInit PROVE A!Init
    OBVIOUS
  <2>1. Init /\ BInv
    BY InitBInv DEF CInit
  <2> QED BY <2>1 DEF Init, BInv, TypeOK, A!Init
<1> QED BY InitContInv, StepContInv, ContainersRequest, <1>1, PTL DEF CSpec, ImplementsArena, A!Spec

(* The position never runs past the region, whatever the containers grow to *)
(* (bump.c:18-26, builder.c:10-29).                                         *)
THEOREM ContainersTypeCorrect == CSpec => []TypeOK
PROOF
<1>1. CSpec => []ContInv
  BY InitContInv, StepContInv, PTL DEF CSpec
<1>2. ContInv => TypeOK
  BY DEF ContInv, BInv
<1> QED BY <1>1, <1>2, PTL
=============================================================================
