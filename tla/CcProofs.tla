------------------------------ MODULE CcProofs ------------------------------
(***************************************************************************)
(* The register discipline of the compiler, proved for every program and   *)
(* every size of the register file, the pool and the bytecode.             *)
(*                                                                         *)
(* The invariants of Cc are not inductive: nothing in them says which      *)
(* registers an activation holds.  The strengthening does: the registers   *)
(* of an activation are consecutive from the count it was entered with,    *)
(* and each activation starts where its caller's registers end.            *)
(***************************************************************************)
EXTENDS Cc, SequenceTheorems, TLAPS

End(a) == a.base + Len(a.regs)

(* the registers of one activation are the ones from its base on *)
Span(a) == \A k \in 1..Len(a.regs) : a.regs[k] = a.base + k - 1

(* The activations s share out the registers 1..count - 1 in their order.  *)
(* Separate and Covered follow from Chained by induction on the depth;     *)
(* kept with it, no induction is needed.                                   *)
Chained(s) ==
    \A d \in 1..Len(s) : /\ s[d].base >= 1
                         /\ Span(s[d])
                         /\ s[d].base = IF d = 1 THEN 1 ELSE End(s[d - 1])
Separate(s) == \A d, e \in 1..Len(s) : d < e => End(s[d]) <= s[e].base
Covered(s) ==
    \A d \in 1..Len(s) : \A r \in 1..s[d].base - 1 :
        \E e \in 1..d - 1 : r \in s[e].base..End(s[e]) - 1
Reaching(s, count) == count = IF s = <<>> THEN 1 ELSE End(s[Len(s)])

Ordered(s, count) == Chained(s) /\ Separate(s) /\ Covered(s) /\ Reaching(s, count)

(* exactly the registers below the count are marked *)
Marked ==
    registers = [r \in 0..REGISTERS |-> r \in 1..register_allocated_count - 1]

(* which activations hold registers, and how many operands are stored *)
Shape(a) ==
    /\ Len(a.regs) <= a.i
    /\ a.regs # <<>> =>
          \/ a.n.kind = "N_BIN" /\ Len(a.n.ch) = 2
          \/ a.n.kind = "N_CALL"
          \/ a.n.kind = "N_BUILTIN" /\ Construct(a.n.tok) = "UNKNOWN"
    /\ a.n.kind = "N_BIN" /\ a.i = 2 => Len(a.regs) = 1

(* in a case of a match: past its condition the case has a body *)
Matching(a) ==
    /\ a.phase # "start" =>
          a.n.kind = "N_BUILTIN" /\ Construct(a.n.tok) = "match"
    /\ a.phase = "condition" => Len(a.n.ch[a.i + 1].ch) > 1

(* an activation's own facts; its recorded address is one that exists *)
Sound(a, size) == Shape(a) /\ Matching(a) /\ a.mark <= size

Stacked ==
    /\ stack \in Seq(ActivationType)
    /\ \A d \in 1..Len(stack) : Sound(stack[d], Len(bytecode))
    /\ Ordered(stack, register_allocated_count)
    /\ register_allocated_count \in 1..REGISTERS
    /\ Marked

(* until it gives up the compiler stays within the bytecode *)
Within == status = "compiling" => Len(bytecode) <= BYTECODE_SIZE
Code == bytecode \in Seq(InstrType) /\ status \in StatusType /\ Within

(* the rest is what TypeOK says of the other variables *)
Input == program \in Programs /\ next \in 0..Len(program)
Pool == /\ globals \in Seq(Value)
        /\ global_hash_buckets \in [0..GLOBAL_SIZE - 1 -> Nat]
Functions == hash_to_function \in [0..MAX_BUILTIN_SIZE - 1 -> CtxFunction]

IInv == Input /\ Code /\ Pool /\ Functions /\ Stacked

-----------------------------------------------------------------------------
(* What the innermost activation looks like. *)
LEMMA TopType ==
    ASSUME stack \in Seq(ActivationType), stack # <<>>
    PROVE  /\ Len(stack) \in Nat \ {0}
           /\ Top \in ActivationType
           /\ \A d \in 1..Len(stack) : stack[d] \in ActivationType
  BY DEF Top

(* What a node's children are. *)
LEMMA NodeType ==
    ASSUME NEW n \in Nodes
    PROVE  /\ n.kind \in Kinds
           /\ n.tok \in Tokens
           /\ n.ch \in Seq(Nodes)
           /\ Len(n.ch) \in Nat
           /\ \A k \in 1..Len(n.ch) : n.ch[k] \in Nodes
           /\ n.kind = "N_BIN" => n.tok \in BinOps
  BY NodesAssumption

(* The fields of an activation. *)
LEMMA ActivationFields ==
    ASSUME NEW a \in ActivationType
    PROVE  /\ a.n \in Nodes /\ a.i \in Nat /\ a.regs \in Seq(Nat)
           /\ a.mark \in Nat /\ a.slots \in Seq(Nat \cup {NoSlot})
           /\ a.default \in BOOLEAN /\ a.phase \in Phases /\ a.base \in Nat
           /\ Len(a.regs) \in Nat
           /\ End(a) \in Nat
  BY DEF ActivationType, End

(* A fresh activation is one. *)
LEMMA ActivationTyped ==
    ASSUME NEW n \in Nodes, register_allocated_count \in Nat
    PROVE  /\ Activation(n) \in ActivationType
           /\ Activation(n).base = register_allocated_count
           /\ Activation(n).regs = <<>>
           /\ Activation(n).i = 0
           /\ Activation(n).mark = 0
           /\ Activation(n).n = n
  BY DEF Activation, ActivationType, Phases

-----------------------------------------------------------------------------
(* The share-out under the three things compile() does to its stack        *)

(* Every activation ends at or before the count. *)
LEMMA BelowCount ==
    ASSUME NEW s \in Seq(ActivationType), NEW count, Ordered(s, count)
    PROVE  /\ count \in Nat \ {0}
           /\ \A d \in 1..Len(s) : End(s[d]) <= count
           /\ \A r \in 1..count - 1 :
                 \E e \in 1..Len(s) : r \in s[e].base..End(s[e]) - 1
PROOF
<1> USE DEF Ordered
<1>1. CASE s = <<>>
  BY <1>1 DEF Reaching
<1>2. CASE s # <<>>
  <2> DEFINE n == Len(s)
  <2>1. n \in Nat \ {0} /\ \A d \in 1..n : s[d] \in ActivationType
    BY <1>2
  <2>2. \A d \in 1..n : End(s[d]) \in Nat /\ s[d].base \in Nat /\ Len(s[d].regs) \in Nat
    BY <2>1, ActivationFields
  <2>3. count = End(s[n]) /\ s[n].base >= 1 /\ s[n].base <= count
    BY <1>2, <2>1, <2>2 DEF Chained, Reaching, End
  <2>4. \A d \in 1..n : d < n => End(s[d]) <= s[n].base
    BY <2>1 DEF Separate
  <2>5. \A r \in 1..s[n].base - 1 : \E e \in 1..n - 1 : r \in s[e].base..End(s[e]) - 1
    BY <2>1 DEF Covered
  <2>6. ASSUME NEW r \in 1..count - 1
        PROVE \E e \in 1..n : r \in s[e].base..End(s[e]) - 1
    <3>1. CASE r < s[n].base
      <4>1. r \in 1..s[n].base - 1
        BY <3>1, <2>1, <2>2
      <4>2. PICK e \in 1..n - 1 : r \in s[e].base..End(s[e]) - 1
        BY <4>1, <2>5
      <4> QED BY <4>2, <2>1
    <3>2. CASE r >= s[n].base
      BY <3>2, <2>1, <2>2, <2>3
    <3> QED BY <3>1, <3>2, <2>1, <2>2
  <2>7. count \in Nat \ {0}
    BY <2>1, <2>2, <2>3
  <2>8. \A d \in 1..n : End(s[d]) <= count
    <3> SUFFICES ASSUME NEW d \in 1..n PROVE End(s[d]) <= count
      OBVIOUS
    <3>1. CASE d = n
      BY <3>1, <2>2, <2>3
    <3>2. CASE d < n
      BY <3>2, <2>1, <2>2, <2>3, <2>4
    <3> QED BY <3>1, <3>2, <2>1
  <2> QED BY <2>6, <2>7, <2>8
<1> QED BY <1>1, <1>2

(* Entering compile(): the new activation starts at the count. *)
LEMMA EnterOrdered ==
    ASSUME NEW s \in Seq(ActivationType), NEW count, Ordered(s, count),
           NEW a \in ActivationType, a.base = count, a.regs = <<>>
    PROVE  Ordered(Append(s, a), count)
PROOF
<1> DEFINE n == Len(s)
           t == Append(s, a)
<1>1. /\ n \in Nat /\ Len(t) = n + 1 /\ t # <<>> /\ t[n + 1] = a
      /\ \A d \in 1..n : t[d] = s[d]
      /\ \A d \in 1..n : s[d] \in ActivationType
  OBVIOUS
<1>2. End(a) = count /\ count \in Nat \ {0} /\ Span(a)
  BY BelowCount DEF End, Span
<1> HIDE DEF t
<1>3. Chained(t)
  <2> SUFFICES ASSUME NEW d \in 1..n + 1
               PROVE /\ t[d].base >= 1 /\ Span(t[d])
                     /\ t[d].base = IF d = 1 THEN 1 ELSE End(t[d - 1])
    BY <1>1 DEF Chained
  <2>1. CASE d = n + 1
    <3>1. n = 0 => count = 1
      BY DEF Ordered, Reaching
    <3>2. n # 0 => t[d - 1] = s[n] /\ count = End(s[n])
      BY <2>1, <1>1 DEF Ordered, Reaching
    <3> QED BY <2>1, <3>1, <3>2, <1>1, <1>2
  <2>2. CASE d \in 1..n
    <3>1. t[d] = s[d] /\ (d # 1 => t[d - 1] = s[d - 1])
      BY <2>2, <1>1
    <3> QED BY <2>2, <3>1 DEF Ordered, Chained
  <2> QED BY <2>1, <2>2, <1>1
<1>4. Separate(t)
  <2> SUFFICES ASSUME NEW d \in 1..n + 1, NEW e \in 1..n + 1, d < e
               PROVE End(t[d]) <= t[e].base
    BY <1>1 DEF Separate
  <2>1. CASE e = n + 1
    BY <2>1, <1>1, BelowCount
  <2>2. CASE e \in 1..n
    <3>1. d \in 1..n
      BY <2>2, <1>1
    <3> QED BY <3>1, <2>2, <1>1 DEF Ordered, Separate
  <2> QED BY <2>1, <2>2, <1>1
<1>5. Covered(t)
  <2> SUFFICES ASSUME NEW d \in 1..n + 1, NEW r \in 1..t[d].base - 1
               PROVE \E e \in 1..d - 1 : r \in t[e].base..End(t[e]) - 1
    BY <1>1 DEF Covered
  <2>1. CASE d = n + 1
    <3>1. PICK e \in 1..n : r \in s[e].base..End(s[e]) - 1
      BY <2>1, <1>1, BelowCount
    <3> QED BY <3>1, <2>1, <1>1
  <2>2. CASE d \in 1..n
    <3>1. PICK e \in 1..d - 1 : r \in s[e].base..End(s[e]) - 1
      BY <2>2, <1>1 DEF Ordered, Covered
    <3>2. e \in 1..n
      BY <3>1, <2>2, <1>1
    <3> QED BY <3>1, <3>2, <1>1
  <2> QED BY <2>1, <2>2, <1>1
<1>6. Reaching(t, count)
  BY <1>1, <1>2 DEF Reaching
<1> QED BY <1>3, <1>4, <1>5, <1>6 DEF Ordered, t

(* Going on with the innermost activation: it keeps its base and holds     *)
(* consecutive registers, which the count follows.                         *)
LEMMA ContinueOrdered ==
    ASSUME NEW s \in Seq(ActivationType), s # <<>>, NEW count, Ordered(s, count),
           NEW a \in ActivationType, a.base = s[Len(s)].base, Span(a)
    PROVE  Ordered([s EXCEPT ![Len(s)] = a], End(a))
PROOF
<1> DEFINE n == Len(s)
           t == [s EXCEPT ![n] = a]
<1>1. /\ n \in Nat \ {0} /\ Len(t) = n /\ t # <<>> /\ t[n] = a
      /\ \A d \in 1..n : d # n => t[d] = s[d]
      /\ \A d \in 1..n : t[d].base = s[d].base
  OBVIOUS
<1> HIDE DEF t
<1>2. Chained(t)
  <2> SUFFICES ASSUME NEW d \in 1..n
               PROVE /\ t[d].base >= 1 /\ Span(t[d])
                     /\ t[d].base = IF d = 1 THEN 1 ELSE End(t[d - 1])
    BY <1>1 DEF Chained
  <2>1. d # 1 => t[d - 1] = s[d - 1]
    BY <1>1
  <2>2. Span(t[d])
    BY <1>1 DEF Ordered, Chained
  <2> QED BY <2>1, <2>2, <1>1 DEF Ordered, Chained
<1>3. Separate(t)
  <2> SUFFICES ASSUME NEW d \in 1..n, NEW e \in 1..n, d < e
               PROVE End(t[d]) <= t[e].base
    BY <1>1 DEF Separate
  <2>1. t[d] = s[d] /\ t[e].base = s[e].base
    BY <1>1
  <2> QED BY <2>1 DEF Ordered, Separate
<1>4. Covered(t)
  <2> SUFFICES ASSUME NEW d \in 1..n, NEW r \in 1..t[d].base - 1
               PROVE \E e \in 1..d - 1 : r \in t[e].base..End(t[e]) - 1
    BY <1>1 DEF Covered
  <2>1. PICK e \in 1..d - 1 : r \in s[e].base..End(s[e]) - 1
    BY <1>1 DEF Ordered, Covered
  <2>2. e \in 1..n /\ e # n
    BY <2>1, <1>1
  <2> QED BY <2>1, <2>2, <1>1
<1>5. Reaching(t, End(a))
  BY <1>1 DEF Reaching
<1> QED BY <1>2, <1>3, <1>4, <1>5 DEF Ordered, t

(* Returning: the count is again what the activation was entered with. *)
LEMMA ReturnOrdered ==
    ASSUME NEW s \in Seq(ActivationType), s # <<>>, NEW count, Ordered(s, count)
    PROVE  /\ Ordered(SubSeq(s, 1, Len(s) - 1), s[Len(s)].base)
           /\ SubSeq(s, 1, Len(s) - 1) \in Seq(ActivationType)
           /\ Len(SubSeq(s, 1, Len(s) - 1)) = Len(s) - 1
           /\ \A d \in 1..Len(s) - 1 : SubSeq(s, 1, Len(s) - 1)[d] = s[d]
PROOF
<1> DEFINE n == Len(s)
           t == SubSeq(s, 1, n - 1)
<1>1. n \in Nat \ {0} /\ \A d \in 1..n - 1 : s[d] \in ActivationType
  OBVIOUS
<1>2. t \in Seq(ActivationType) /\ Len(t) = n - 1 /\ \A d \in 1..n - 1 : t[d] = s[d]
  <2>1. /\ t \in Seq(ActivationType)
        /\ Len(t) = IF 1 <= n - 1 THEN n - 1 - 1 + 1 ELSE 0
        /\ \A d \in 1..n - 1 - 1 + 1 : t[d] = s[1 + d - 1]
    <3>1. 1 \in Int /\ n - 1 \in Int /\ \A d \in 1..n - 1 : s[d] \in ActivationType
      BY <1>1
    <3> HIDE DEF n
    <3> QED BY <3>1, SubSeqProperties
  <2> HIDE DEF t
  <2> HIDE DEF n
  <2>2. Len(t) = n - 1
    BY <1>1, <2>1
  <2>3. ASSUME NEW d \in 1..n - 1 PROVE t[d] = s[d]
    <3>1. d \in 1..n - 1 - 1 + 1 /\ 1 + d - 1 = d
      BY <1>1
    <3>2. t[d] = s[1 + d - 1]
      BY <2>1, <3>1
    <3> QED BY <3>1, <3>2
  <2> QED BY <2>1, <2>2, <2>3
<1> HIDE DEF t
<1>3. t = <<>> <=> n = 1
  BY <1>1, <1>2
<1>4. Chained(t)
  <2> SUFFICES ASSUME NEW d \in 1..n - 1
               PROVE /\ t[d].base >= 1 /\ Span(t[d])
                     /\ t[d].base = IF d = 1 THEN 1 ELSE End(t[d - 1])
    BY <1>2 DEF Chained
  <2>1. t[d] = s[d] /\ (d # 1 => t[d - 1] = s[d - 1]) /\ d \in 1..n
    BY <1>1, <1>2
  <2> QED BY <2>1 DEF Ordered, Chained
<1>5. Separate(t)
  BY <1>1, <1>2 DEF Ordered, Separate
<1>6. Covered(t)
  <2> SUFFICES ASSUME NEW d \in 1..n - 1, NEW r \in 1..t[d].base - 1
               PROVE \E e \in 1..d - 1 : r \in t[e].base..End(t[e]) - 1
    BY <1>2 DEF Covered
  <2>1. PICK e \in 1..d - 1 : r \in s[e].base..End(s[e]) - 1
    BY <1>1, <1>2 DEF Ordered, Covered
  <2>2. e \in 1..n - 1
    BY <2>1, <1>1
  <2> QED BY <2>1, <2>2, <1>2
<1>7. Reaching(t, s[n].base)
  BY <1>1, <1>2, <1>3 DEF Ordered, Chained, Reaching
<1> QED BY <1>2, <1>4, <1>5, <1>6, <1>7 DEF Ordered, t
-----------------------------------------------------------------------------
(* The same for the compiler's variables, one lemma for each way in which  *)
(* an action of Cc changes the stack and the registers                     *)

(* the bytecode is never shortened *)
Grown == /\ Len(bytecode) \in Nat /\ Len(bytecode') \in Nat
         /\ Len(bytecode) <= Len(bytecode')

(* when compile() returns, the registers are as it found them *)
Returning == Len(stack') < Len(stack) => register_allocated_count' = Top.base

(* What an activation says of itself stays true of longer bytecode. *)
LEMMA SoundStays ==
    ASSUME NEW a \in ActivationType, Sound(a, Len(bytecode)), Grown
    PROVE  Sound(a, Len(bytecode'))
  BY ActivationFields DEF Sound, Grown

(* compile() goes on with its innermost activation and no register moves. *)
LEMMA ContinueStacked ==
    ASSUME Stacked, stack # <<>>, Grown,
           NEW self \in ActivationType,
           self.regs = Top.regs, self.base = Top.base,
           Sound(self, Len(bytecode')), Continue(self), UNCHANGED registerVars
    PROVE  Stacked' /\ Returning
PROOF
<1> DEFINE n == Len(stack)
           t == [stack EXCEPT ![n] = self]
<1>1. n \in Nat \ {0} /\ Top \in ActivationType
      /\ \A d \in 1..n : stack[d] \in ActivationType
  BY TopType DEF Stacked
<1>2. t \in Seq(ActivationType) /\ Len(t) = n /\ t[n] = self
      /\ \A d \in 1..n : d # n => t[d] = stack[d]
  BY <1>1 DEF Stacked
<1>3. Span(self)
  BY <1>1 DEF Stacked, Ordered, Chained, Span, Top
<1>4. End(self) = register_allocated_count
  BY <1>1 DEF Stacked, Ordered, Reaching, End, Top
<1>5. Ordered(t, register_allocated_count)
  BY <1>3, <1>4, ContinueOrdered DEF Stacked, Top
<1> HIDE DEF t
<1>6. \A d \in 1..n : Sound(t[d], Len(bytecode'))
  BY <1>1, <1>2, SoundStays DEF Stacked
<1>7. stack' = t /\ register_allocated_count' = register_allocated_count /\ registers' = registers
  BY DEF Continue, registerVars, t
<1>8. Stacked'
  BY <1>2, <1>5, <1>6, <1>7 DEF Stacked, Marked
<1> QED BY <1>1, <1>2, <1>7, <1>8 DEF Returning

(* compile() calls itself: the child starts where its caller ends. *)
LEMMA EnterStacked ==
    ASSUME Stacked, stack # <<>>, Grown,
           NEW child \in Nodes, NEW self \in ActivationType,
           self.regs = Top.regs, self.base = Top.base,
           Sound(self, Len(bytecode')), Compile(child, self), UNCHANGED registerVars
    PROVE  Stacked' /\ Returning
PROOF
<1> DEFINE n == Len(stack)
           t == [stack EXCEPT ![n] = self]
           new == Activation(child)
<1>1. n \in Nat \ {0} /\ Top \in ActivationType
      /\ \A d \in 1..n : stack[d] \in ActivationType
  BY TopType DEF Stacked
<1>2. t \in Seq(ActivationType) /\ Len(t) = n /\ t[n] = self
      /\ \A d \in 1..n : d # n => t[d] = stack[d]
  BY <1>1 DEF Stacked
<1>3. Span(self)
  BY <1>1 DEF Stacked, Ordered, Chained, Span, Top
<1>4. End(self) = register_allocated_count
  BY <1>1 DEF Stacked, Ordered, Reaching, End, Top
<1>5. Ordered(t, register_allocated_count)
  BY <1>3, <1>4, ContinueOrdered DEF Stacked, Top
<1>6. stack' = Append(t, new)
  BY DEF Compile
<1> HIDE DEF t
<1>7. new \in ActivationType /\ new.base = register_allocated_count
      /\ new.regs = <<>> /\ new.i = 0 /\ new.mark = 0
  BY ActivationTyped DEF Stacked
<1>8. Sound(new, Len(bytecode'))
  BY <1>7 DEF Sound, Shape, Matching, Activation, Grown
<1>9. Ordered(stack', register_allocated_count)
  BY <1>2, <1>5, <1>6, <1>7, EnterOrdered
<1> HIDE DEF new
<1>10. stack' \in Seq(ActivationType) /\ Len(stack') = n + 1 /\ stack'[n + 1] = new
       /\ \A d \in 1..n : stack'[d] = t[d]
  BY <1>2, <1>6, <1>7
<1>11. \A d \in 1..n : Sound(t[d], Len(bytecode'))
  BY <1>1, <1>2, SoundStays DEF Stacked
<1>12. \A d \in 1..n + 1 : Sound(stack'[d], Len(bytecode'))
  BY <1>1, <1>8, <1>10, <1>11
<1>13. register_allocated_count' = register_allocated_count /\ registers' = registers
  BY DEF registerVars
<1>14. Stacked'
  BY <1>9, <1>10, <1>12, <1>13 DEF Stacked, Marked
<1> QED BY <1>1, <1>10, <1>14 DEF Returning

(* An operand or argument is stored in the next register. *)
LEMMA StoreStacked ==
    ASSUME Stacked, stack # <<>>, Grown, Storing,
           register_allocated_count < REGISTERS, Allocate,
           Continue([Top EXCEPT !.regs = Append(@, register_allocated_count)])
    PROVE  Stacked' /\ Returning
PROOF
<1> DEFINE n == Len(stack)
           count == register_allocated_count
           self == [Top EXCEPT !.regs = Append(@, count)]
           t == [stack EXCEPT ![n] = self]
<1>1. n \in Nat \ {0} /\ Top \in ActivationType /\ count \in 1..REGISTERS
      /\ \A d \in 1..n : stack[d] \in ActivationType
  BY TopType DEF Stacked
<1>2. Top.regs \in Seq(Nat) /\ Len(Top.regs) \in Nat /\ Top.base \in Nat /\ Top.i \in Nat
  BY <1>1, ActivationFields
<1>3. /\ self \in ActivationType /\ self.base = Top.base /\ self.n = Top.n
      /\ self.i = Top.i /\ self.mark = Top.mark /\ self.phase = Top.phase
      /\ self.regs = Append(Top.regs, count)
  <2>1. Append(Top.regs, count) \in Seq(Nat)
    BY <1>1, <1>2, SizeAssumption
  <2>2. self = [Top EXCEPT !.regs = Append(Top.regs, count)]
    OBVIOUS
  <2> HIDE DEF self, count
  <2> QED BY <2>1, <2>2, <1>1 DEF ActivationType
<1>4. /\ Len(self.regs) = Len(Top.regs) + 1
      /\ self.regs[Len(Top.regs) + 1] = count
      /\ \A k \in 1..Len(Top.regs) : self.regs[k] = Top.regs[k]
  BY <1>1, <1>2, <1>3, SizeAssumption
<1> HIDE DEF self
<1>5. count = Top.base + Len(Top.regs)
  BY <1>1 DEF Stacked, Ordered, Reaching, End, Top
<1>6. Span(Top)
  BY <1>1 DEF Stacked, Ordered, Chained, Top
<1>7. Span(self) /\ End(self) = count + 1
  <2>1. ASSUME NEW k \in 1..Len(self.regs) PROVE self.regs[k] = self.base + k - 1
    <3>1. CASE k = Len(Top.regs) + 1
      BY <3>1, <1>2, <1>3, <1>4, <1>5
    <3>2. CASE k \in 1..Len(Top.regs)
      BY <3>2, <1>2, <1>3, <1>4, <1>6 DEF Span
    <3> QED BY <3>1, <3>2, <1>2, <1>4
  <2>2. Span(self)
    BY <2>1 DEF Span
  <2>3. End(self) = count + 1
    BY <1>2, <1>3, <1>4, <1>5, SizeAssumption DEF End
  <2> QED BY <2>2, <2>3
<1>8. Sound(self, Len(bytecode'))
  <2>1. Sound(Top, Len(bytecode')) /\ Shape(Top)
    BY <1>1, SoundStays DEF Stacked, Sound, Top
  <2>2. Len(Top.regs) < Top.i /\ (Top.n.kind = "N_BIN" => Top.i = 1)
    BY <1>3, <2>1 DEF Storing, AtArguments, IsRuntimeCall, AtConstruct, At, Callable
  <2>3. \/ Top.n.kind = "N_BIN" /\ Len(Top.n.ch) = 2
        \/ Top.n.kind = "N_CALL"
        \/ Top.n.kind = "N_BUILTIN" /\ Construct(Top.n.tok) = "UNKNOWN"
    BY DEF Storing, AtArguments, IsRuntimeCall, AtConstruct, At, Callable
  <2>4. Shape(self)
    BY <1>2, <1>3, <1>4, <2>2, <2>3 DEF Shape
  <2> QED BY <1>3, <2>1, <2>4 DEF Sound, Matching
<1>9. Ordered(t, count + 1)
  BY <1>3, <1>7, ContinueOrdered DEF Stacked, Top
<1>10. t \in Seq(ActivationType) /\ Len(t) = n /\ t[n] = self
       /\ \A d \in 1..n : d # n => t[d] = stack[d]
  BY <1>1, <1>3 DEF Stacked
<1> HIDE DEF t
<1>11. \A d \in 1..n : Sound(t[d], Len(bytecode'))
  BY <1>1, <1>8, <1>10, SoundStays DEF Stacked
<1>12. stack' = t /\ count' = count + 1 /\ count' \in 1..REGISTERS
  BY <1>1, SizeAssumption DEF Continue, Allocate, t, self
<1>13. Marked'
  <2>1. registers' = [registers EXCEPT ![count] = TRUE]
    BY DEF Allocate
  <2>2. registers = [r \in 0..REGISTERS |-> r \in 1..count - 1]
    BY DEF Stacked, Marked
  <2>3. ASSUME NEW r \in 0..REGISTERS
        PROVE [registers EXCEPT ![count] = TRUE][r] = (r \in 1..count)
    <3>1. CASE r = count
      <4>1. (r \in 1..count) = TRUE
        BY <3>1, <1>1, SizeAssumption
      <4>2. [registers EXCEPT ![count] = TRUE][r] = TRUE
        BY <3>1, <2>2
      <4> QED BY <4>1, <4>2
    <3>2. CASE r # count
      <4>1. (r \in 1..count - 1) = (r \in 1..count)
        BY <3>2, <1>1
      <4> QED BY <4>1, <3>2, <2>2
    <3> QED BY <3>1, <3>2
  <2>4. registers' = [r \in 0..REGISTERS |-> r \in 1..count]
    BY <2>1, <2>2, <2>3
  <2>5. count' - 1 = count
    BY <1>1, <1>12
  <2> QED BY <2>4, <2>5 DEF Marked
<1>14. Stacked'
  BY <1>9, <1>10, <1>11, <1>12, <1>13 DEF Stacked
<1> QED BY <1>1, <1>10, <1>12, <1>14 DEF Returning

(* compile() returns and frees the registers its activation holds.  With   *)
(* none held, freeing them changes nothing.                                *)
LEMMA ReturnStacked ==
    ASSUME Stacked, stack # <<>>, Grown, Return,
           \/ Free(Top.regs)
           \/ Top.regs = <<>> /\ UNCHANGED registerVars
    PROVE  Stacked' /\ Returning
PROOF
<1> DEFINE n == Len(stack)
           count == register_allocated_count
<1>1. n \in Nat \ {0} /\ Top \in ActivationType /\ count \in 1..REGISTERS
      /\ \A d \in 1..n : stack[d] \in ActivationType
  BY TopType DEF Stacked
<1>2. Top.regs \in Seq(Nat) /\ Len(Top.regs) \in Nat /\ Top.base \in Nat /\ Top.base >= 1
  BY <1>1, ActivationFields DEF Stacked, Ordered, Chained, Top
<1>3. count = Top.base + Len(Top.regs)
  BY <1>1 DEF Stacked, Ordered, Reaching, End, Top
<1>4. Span(Top)
  BY <1>1 DEF Stacked, Ordered, Chained, Top
<1>5. count' = Top.base
  BY <1>2, <1>3 DEF Free, registerVars
<1>6. Marked'
  <2>1. CASE Free(Top.regs)
    <3>1. ASSUME NEW r \in 0..REGISTERS
          PROVE (registers[r] /\ \A k \in 1..Len(Top.regs) : Top.regs[k] # r)
                    <=> r \in 1..Top.base - 1
      <4>1. registers[r] <=> r \in 1..count - 1
        BY DEF Stacked, Marked
      <4>2. CASE r < Top.base
        BY <4>1, <4>2, <1>1, <1>2, <1>3, <1>4 DEF Span
      <4>3. CASE r >= Top.base
        <5>1. CASE r >= count
          BY <5>1, <4>1, <4>3, <1>1, <1>2
        <5>2. CASE r < count
          <6>1. r - Top.base + 1 \in 1..Len(Top.regs)
            BY <5>2, <4>3, <1>1, <1>2, <1>3
          <6>2. Top.regs[r - Top.base + 1] = r
            BY <6>1, <1>2, <1>4 DEF Span
          <6> QED BY <6>1, <6>2, <4>3, <1>2
        <5> QED BY <5>1, <5>2, <1>1
      <4> QED BY <4>2, <4>3, <1>2
    <3>2. registers' = [r \in 0..REGISTERS |->
                          registers[r] /\ \A k \in 1..Len(Top.regs) : Top.regs[k] # r]
      BY <2>1 DEF Free
    <3>3. \A r \in 0..REGISTERS :
            (registers[r] /\ \A k \in 1..Len(Top.regs) : Top.regs[k] # r)
                = (r \in 1..Top.base - 1)
      BY <3>1
    <3>4. registers' = [r \in 0..REGISTERS |-> r \in 1..Top.base - 1]
      BY <3>2, <3>3
    <3> QED BY <3>4, <1>5 DEF Marked
  <2>2. CASE Top.regs = <<>> /\ UNCHANGED registerVars
    <3>1. count' = count /\ registers' = registers
      BY <2>2 DEF registerVars
    <3> QED BY <3>1 DEF Stacked, Marked
  <2> QED BY <2>1, <2>2
<1>7. /\ Ordered(stack', Top.base)
      /\ stack' \in Seq(ActivationType)
      /\ Len(stack') = n - 1
      /\ \A d \in 1..n - 1 : stack'[d] = stack[d]
  BY ReturnOrdered DEF Stacked, Return, Caller, Top
<1>8. \A d \in 1..n - 1 : Sound(stack'[d], Len(bytecode'))
  BY <1>1, <1>7, SoundStays DEF Stacked
<1>9. count' \in 1..REGISTERS
  BY <1>1, <1>2, <1>3, <1>5, SizeAssumption
<1> QED BY <1>5, <1>6, <1>7, <1>8, <1>9 DEF Stacked, Returning
-----------------------------------------------------------------------------
(* The bytecode                                                            *)

(* An instruction, and the code that consists of it alone. *)
LEMMA Instruction ==
    ASSUME NEW op \in Ops, NEW arg \in Nat \cup {Placeholder}
    PROVE  /\ Instr(op, arg) \in InstrType
           /\ <<Instr(op, arg)>> \in Seq(InstrType)
           /\ Len(<<Instr(op, arg)>>) = 1
           /\ <<Instr(op, arg)>>[1] = Instr(op, arg)
           /\ Instr(op, arg).op = op
  BY DEF Instr, InstrType

(* The same for an instruction that stores nothing. *)
LEMMA QuietInstruction ==
    ASSUME NEW op \in Ops, op # "STORE", NEW arg \in Nat \cup {Placeholder}
    PROVE  /\ <<Instr(op, arg)>> \in Seq(InstrType)
           /\ Len(<<Instr(op, arg)>>) \in Nat
           /\ \A k \in 1..Len(<<Instr(op, arg)>>) : <<Instr(op, arg)>>[k].op # "STORE"
  BY Instruction

(* Whatever is written behind the present bytecode is bytecode, and an     *)
(* overflow ends the compilation.                                          *)
LEMMA Written ==
    ASSUME Code, NEW code \in Seq(InstrType), Len(bytecode) <= Len(code),
           status = "compiling", Write(code)
    PROVE  /\ Code' /\ Grown
           /\ \A a \in 1..Len(bytecode') : a \in 1..Len(code) /\ bytecode'[a] = code[a]
PROOF
<1>1. /\ Len(bytecode) \in Nat /\ Len(code) \in Nat /\ BYTECODE_SIZE \in Nat
      /\ Len(bytecode) <= BYTECODE_SIZE
  BY SizeAssumption DEF Code, Within
<1>2. CASE Len(code) <= BYTECODE_SIZE
  <2>1. bytecode' = code /\ status' = "compiling"
    BY <1>2 DEF Write
  <2> QED BY <2>1, <1>1, <1>2 DEF Code, Within, Grown, StatusType
<1>3. CASE ~(Len(code) <= BYTECODE_SIZE)
  <2>1. /\ bytecode' = SubSeq(code, 1, BYTECODE_SIZE + 1)
        /\ status' = "out_of_bytecode"
    BY <1>3 DEF Write
  <2>2. \A i \in 1..BYTECODE_SIZE + 1 : code[i] \in InstrType
    BY <1>1, <1>3
  <2>3. /\ SubSeq(code, 1, BYTECODE_SIZE + 1) \in Seq(InstrType)
        /\ Len(SubSeq(code, 1, BYTECODE_SIZE + 1)) = BYTECODE_SIZE + 1
        /\ \A a \in 1..BYTECODE_SIZE + 1 :
              SubSeq(code, 1, BYTECODE_SIZE + 1)[a] = code[1 + a - 1]
    <3>1. BYTECODE_SIZE + 1 \in Int /\ 1 <= BYTECODE_SIZE + 1
          /\ BYTECODE_SIZE + 1 - 1 + 1 = BYTECODE_SIZE + 1
      BY <1>1
    <3> QED BY <3>1, <2>2, SubSeqProperties
  <2>4. bytecode' \in Seq(InstrType) /\ Len(bytecode') = BYTECODE_SIZE + 1
    BY <2>1, <2>3
  <2>5. \A a \in 1..Len(bytecode') : a \in 1..Len(code) /\ bytecode'[a] = code[a]
    <3> SUFFICES ASSUME NEW a \in 1..BYTECODE_SIZE + 1
                 PROVE a \in 1..Len(code) /\ bytecode'[a] = code[a]
      BY <2>4
    <3>1. a \in 1..Len(code) /\ 1 + a - 1 = a
      BY <1>1, <1>3
    <3> QED BY <3>1, <2>1, <2>3
  <2> QED BY <2>1, <2>4, <2>5, <1>1 DEF Code, Within, Grown, StatusType
<1> QED BY <1>2, <1>3

(* no step but StoreOperand stores into a register *)
Quiet == \A a \in Len(bytecode) + 1..Len(bytecode') : bytecode'[a].op # "STORE"

(* What Emit adds is exactly the given code, as far as it fits. *)
LEMMA Emitted ==
    ASSUME Code, NEW code \in Seq(InstrType), status = "compiling", Emit(code)
    PROVE  /\ Code' /\ Grown
           /\ \A a \in Len(bytecode) + 1..Len(bytecode') :
                 /\ a - Len(bytecode) \in 1..Len(code)
                 /\ bytecode'[a] = code[a - Len(bytecode)]
PROOF
<1>1. bytecode \in Seq(InstrType) /\ Len(bytecode) \in Nat /\ Len(code) \in Nat
  BY DEF Code
<1> DEFINE all == bytecode \o code
<1>2. /\ all \in Seq(InstrType) /\ Len(all) = Len(bytecode) + Len(code)
      /\ \A a \in 1..Len(bytecode) + Len(code) :
            all[a] = IF a <= Len(bytecode) THEN bytecode[a] ELSE code[a - Len(bytecode)]
  BY <1>1, ConcatProperties
<1>3. Write(all)
  BY DEF Emit
<1> HIDE DEF all
<1>4. /\ Code' /\ Grown
      /\ \A a \in 1..Len(bytecode') : a \in 1..Len(all) /\ bytecode'[a] = all[a]
  BY <1>1, <1>2, <1>3, Written
<1>5. ASSUME NEW a \in Len(bytecode) + 1..Len(bytecode')
      PROVE /\ a - Len(bytecode) \in 1..Len(code)
            /\ bytecode'[a] = code[a - Len(bytecode)]
  <2>1. a \in 1..Len(bytecode')
    BY <1>1, <1>4 DEF Grown
  <2> QED BY <2>1, <1>1, <1>2, <1>4
<1> QED BY <1>4, <1>5

(* Code without a STORE adds none. *)
LEMMA EmittedQuiet ==
    ASSUME Code, NEW code \in Seq(InstrType), status = "compiling", Emit(code),
           \A k \in 1..Len(code) : code[k].op # "STORE"
    PROVE  Code' /\ Grown /\ Quiet
  BY Emitted DEF Quiet

(* A patched instruction is still one. *)
LEMMA Patched ==
    ASSUME NEW code \in Seq(InstrType), NEW slot \in Nat, NEW target \in Nat
    PROVE  /\ Patch(code, slot, target) \in Seq(InstrType)
           /\ Len(Patch(code, slot, target)) = Len(code)
           /\ \A a \in 1..Len(code) : Patch(code, slot, target)[a].op = code[a].op
PROOF
<1>1. \A a \in 1..Len(code) : /\ code[a] \in InstrType
                              /\ [code[a] EXCEPT !.arg = target] \in InstrType
                              /\ [code[a] EXCEPT !.arg = target].op = code[a].op
  <2> SUFFICES ASSUME NEW a \in 1..Len(code)
               PROVE  /\ code[a] \in InstrType
                      /\ [code[a] EXCEPT !.arg = target] \in InstrType
                      /\ [code[a] EXCEPT !.arg = target].op = code[a].op
    OBVIOUS
  <2>1. code[a] \in InstrType
    OBVIOUS
  <2> QED BY <2>1 DEF InstrType
<1>2. Patch(code, slot, target)
        = [code EXCEPT ![slot + 1] = [code[slot + 1] EXCEPT !.arg = target]]
  BY DEF Patch
<1>3. CASE slot + 1 \in 1..Len(code)
  BY <1>1, <1>2, <1>3, ExceptSeq
<1>4. CASE slot + 1 \notin 1..Len(code)
  <2>1. Patch(code, slot, target) = code
    BY <1>2, <1>4
  <2> QED BY <2>1
<1> QED BY <1>3, <1>4

(* The innermost activation is typed and says the truth about itself. *)
LEMMA TopSound ==
    ASSUME Stacked, stack # <<>>
    PROVE  /\ Top \in ActivationType
           /\ Sound(Top, Len(bytecode))
           /\ Top.n \in Nodes
           /\ Len(stack) \in Nat \ {0}
  BY TopType, ActivationFields DEF Stacked, Top

(* The registers a node's activation holds: none, if the node is of a kind *)
(* that stores no operands.                                                *)
LEMMA HoldsNone ==
    ASSUME Stacked, stack # <<>>,
           \/ Top.n.kind \in {"N_ATOM", "N_IDENT", "N_OBJECT", "N_LIST", "N_ARRAY"}
           \/ Top.n.kind = "N_BUILTIN" /\ Construct(Top.n.tok) \in CompileTime
           \/ Top.n.kind = "N_BIN" /\ Len(Top.n.ch) = 1
           \/ Top.i = 0
    PROVE  Top.regs = <<>>
PROOF
<1>1. Shape(Top) /\ Top.regs \in Seq(Nat)
  BY TopSound, ActivationFields DEF Sound
<1>2. CASE Top.i = 0
  BY <1>1, <1>2 DEF Shape
<1>3. CASE Top.i # 0
  <2>1. Construct(Top.n.tok) \in CompileTime => Construct(Top.n.tok) # "UNKNOWN"
    BY DEF CompileTime
  <2> QED BY <1>1, <1>3, <2>1 DEF Shape
<1> QED BY <1>2, <1>3

-----------------------------------------------------------------------------
(* Every action preserves the invariant                                    *)

(* The compiler starts in the invariant. *)
LEMMA InitInvariant == Init => IInv
PROOF
<1> SUFFICES ASSUME Init PROVE IInv
  OBVIOUS
<1> USE DEF Init
<1>1. Input
  BY NodesAssumption DEF Input
<1>2. Code
  BY SizeAssumption DEF Code, Within, StatusType
<1>3. Pool
  BY SizeAssumption DEF Pool, Value, Types, True, False, None, Plain
<1>4. Functions
  BY DEF Functions, CtxFunction, NoFunction, Null
<1>5. Stacked
  <2>1. Ordered(<<>>, 1)
    BY DEF Ordered, Chained, Separate, Covered, Reaching
  <2>2. Marked
    <3>1. \A r \in 0..REGISTERS : (r \in 1..1 - 1) = FALSE
      OBVIOUS
    <3> QED BY <3>1 DEF Marked
  <2> QED BY <2>1, <2>2, SizeAssumption DEF Stacked
<1> QED BY <1>1, <1>2, <1>3, <1>4, <1>5 DEF IInv
-----------------------------------------------------------------------------
(* Every step keeps the invariant, returns with the registers compile()    *)
(* was entered with, and stores into no register that is held              *)

Storeless ==
    \A a \in Len(bytecode) + 1..Len(bytecode') :
        bytecode'[a].op = "STORE" =>
            \A d \in 1..Len(stack) : ~Holds(d, bytecode'[a].arg)

Step == IInv' /\ Returning /\ Storeless

(* A step that stores nothing clobbers nothing. *)
LEMMA QuietStep ==
    ASSUME Quiet
    PROVE  Storeless
  BY DEF Quiet, Storeless

(* The process gives up: only status changes. *)
LEMMA FailStep ==
    ASSUME IInv, NEW reason \in StatusType, reason # "compiling", Fail(reason)
    PROVE  Step
PROOF
<1> USE DEF Fail
<1>1. Input' /\ Pool' /\ Functions'
  BY DEF IInv, Input, Pool, Functions
<1>2. Code'
  BY DEF IInv, Code, Within
<1>3. Stacked'
  BY DEF IInv, Stacked, Marked
<1>4. Quiet /\ Returning
  BY DEF Quiet, Returning, IInv, Code, Stacked
<1> QED BY <1>1, <1>2, <1>3, <1>4, QuietStep DEF Step, IInv

(* One instruction is emitted by a node that holds no register, and        *)
(* compile() returns.                                                      *)
LEMMA EmitStep ==
    ASSUME IInv, status = "compiling", stack # <<>>, Top.regs = <<>>,
           NEW op \in Ops, op # "STORE", NEW arg \in Nat \cup {Placeholder},
           Emit(<<Instr(op, arg)>>), Return,
           UNCHANGED <<program, next, hash_to_function, registerVars>>, Pool'
    PROVE  Step
PROOF
<1>1. Code' /\ Grown /\ Quiet
  <2>1. \A k \in 1..Len(<<Instr(op, arg)>>) : <<Instr(op, arg)>>[k].op # "STORE"
    BY Instruction
  <2> QED BY <2>1, Instruction, EmittedQuiet DEF IInv
<1>2. Stacked' /\ Returning
  BY <1>1, ReturnStacked DEF IInv
<1>3. Input' /\ Functions'
  BY DEF IInv, Input, Functions
<1> QED BY <1>1, <1>2, <1>3, QuietStep DEF Step, IInv

(* compile() calls itself and nothing else happens. *)
LEMMA EnterStep ==
    ASSUME IInv, status = "compiling", stack # <<>>,
           NEW child \in Nodes, NEW self \in ActivationType,
           self.regs = Top.regs, self.base = Top.base, Sound(self, Len(bytecode)),
           Compile(child, self),
           UNCHANGED <<program, next, bytecode, hash_to_function, status>>,
           UNCHANGED <<poolVars, registerVars>>
    PROVE  Step
PROOF
<1>1. Code' /\ Grown /\ Quiet
  BY DEF IInv, Code, Within, Grown, Quiet
<1>2. Sound(self, Len(bytecode'))
  OBVIOUS
<1>3. Stacked' /\ Returning
  BY <1>1, <1>2, EnterStacked DEF IInv
<1>4. Input' /\ Pool' /\ Functions'
  BY DEF IInv, Input, Pool, Functions, poolVars
<1> QED BY <1>1, <1>3, <1>4, QuietStep DEF Step, IInv

(* compile() returns without emitting anything. *)
LEMMA SilentReturnStep ==
    ASSUME IInv, status = "compiling", stack # <<>>, Top.regs = <<>>, Return,
           UNCHANGED <<program, next, bytecode, status>>,
           UNCHANGED <<poolVars, registerVars>>, Functions'
    PROVE  Step
PROOF
<1>1. Code' /\ Grown /\ Quiet
  BY DEF IInv, Code, Within, Grown, Quiet
<1>2. Stacked' /\ Returning
  BY <1>1, ReturnStacked DEF IInv
<1>3. Input' /\ Pool'
  BY DEF IInv, Input, Pool, poolVars
<1> QED BY <1>1, <1>2, <1>3, QuietStep DEF Step, IInv

(* A call is emitted: the argument count, if there is more than one, and   *)
(* the instruction.                                                        *)
LEMMA CallStep ==
    ASSUME IInv, status = "compiling", stack # <<>>,
           NEW op \in {"BUILTIN", "CALL"}, NEW arg \in Nat,
           Free(Top.regs), Emit(Args(Top.n) \o <<Instr(op, arg)>>), Return,
           UNCHANGED <<program, next, hash_to_function, poolVars>>
    PROVE  Step
PROOF
<1> DEFINE code == Args(Top.n) \o <<Instr(op, arg)>>
<1>1. /\ code \in Seq(InstrType)
      /\ \A k \in 1..Len(code) : code[k].op # "STORE"
  <2>1. Len(Top.n.ch) \in Nat
    BY TopSound, NodeType DEF IInv
  <2>2. /\ <<Instr(op, arg)>> \in Seq(InstrType)
        /\ \A k \in 1..1 : <<Instr(op, arg)>>[k].op # "STORE"
        /\ Len(<<Instr(op, arg)>>) = 1
    BY Instruction DEF Ops
  <2>3. /\ Args(Top.n) \in Seq(InstrType)
        /\ \A k \in 1..Len(Args(Top.n)) : Args(Top.n)[k].op # "STORE"
    <3>1. CASE Len(Top.n.ch) > 1
      <4>1. Args(Top.n) = <<Instr("ARGS", Len(Top.n.ch))>>
        BY <3>1 DEF Args
      <4>2. "ARGS" \in Ops
        BY DEF Ops
      <4> QED BY <4>1, <4>2, <2>1, Instruction
    <3>2. CASE ~(Len(Top.n.ch) > 1)
      BY <3>2 DEF Args
    <3> QED BY <3>1, <3>2
  <2> QED BY <2>2, <2>3, ConcatProperties
<1>2. Code' /\ Grown /\ Quiet
  BY <1>1, EmittedQuiet DEF IInv
<1>3. Stacked' /\ Returning
  BY <1>2, ReturnStacked DEF IInv
<1>4. Input' /\ Pool' /\ Functions'
  BY DEF IInv, Input, Pool, Functions, poolVars
<1> QED BY <1>2, <1>3, <1>4, QuietStep DEF Step, IInv
-----------------------------------------------------------------------------
(* The actions of Cc                                                       *)

(* The next child of a node: its activation goes on with i one higher. *)
LEMMA NextChild ==
    ASSUME Stacked, stack # <<>>, Top.phase = "start",
           Top.n.kind = "N_BIN" => Top.i = Len(Top.regs)
    PROVE  LET self == [Top EXCEPT !.i = @ + 1]
           IN  /\ self \in ActivationType
               /\ self.regs = Top.regs /\ self.base = Top.base
               /\ Sound(self, Len(bytecode))
PROOF
<1> DEFINE self == [Top EXCEPT !.i = @ + 1]
<1>1. Top \in ActivationType /\ Sound(Top, Len(bytecode)) /\ Top.i \in Nat
      /\ Len(Top.regs) \in Nat
  BY TopSound, ActivationFields
<1>2. /\ self \in ActivationType /\ self.regs = Top.regs /\ self.base = Top.base
      /\ self.n = Top.n /\ self.i = Top.i + 1 /\ self.mark = Top.mark
      /\ self.phase = Top.phase
  BY <1>1 DEF ActivationType
<1> HIDE DEF self
<1>3. Shape(Top) /\ Top.mark <= Len(bytecode)
  BY <1>1 DEF Sound
<1>4. Shape(self)
  <2>1. Len(self.regs) <= self.i
    BY <1>1, <1>2, <1>3 DEF Shape
  <2>2. self.n.kind = "N_BIN" /\ self.i = 2 => Len(self.regs) = 1
    <3> SUFFICES ASSUME self.n.kind = "N_BIN", self.i = 2 PROVE Len(self.regs) = 1
      OBVIOUS
    <3>1. Top.i = Len(Top.regs)
      BY <1>2
    <3>2. Top.i = 1
      BY <1>1, <1>2
    <3> QED BY <3>1, <3>2, <1>2
  <2> QED BY <1>2, <1>3, <2>1, <2>2 DEF Shape
<1>5. Matching(self)
  BY <1>2 DEF Matching
<1>6. Sound(self, Len(bytecode))
  BY <1>2, <1>3, <1>4, <1>5 DEF Sound
<1> QED BY <1>2, <1>6 DEF self

(* A node whose construct is not match is never in the middle of a case. *)
LEMMA NotMatching ==
    ASSUME Stacked, stack # <<>>,
           Top.n.kind # "N_BUILTIN" \/ Construct(Top.n.tok) # "match"
    PROVE  Top.phase = "start"
  BY TopSound DEF Sound, Matching

(* cc() takes the next top-level node. *)
LEMMA CompileTopStep == IInv /\ CompileTop => Step
PROOF
<1> SUFFICES ASSUME IInv, CompileTop PROVE Step
  OBVIOUS
<1> USE DEF CompileTop
<1> DEFINE new == Activation(program[next + 1])
<1>1. next + 1 \in 1..Len(program) /\ next + 1 \in 0..Len(program)
      /\ program \in Seq(Nodes) /\ program[next + 1] \in Nodes
  BY NodesAssumption DEF IInv, Input
<1>2. /\ new \in ActivationType /\ new.base = register_allocated_count
      /\ new.regs = <<>> /\ new.i = 0 /\ new.mark = 0 /\ new.phase = "start"
  BY <1>1, ActivationTyped DEF IInv, Stacked, Activation
<1>3. stack' = Append(stack, new)
  OBVIOUS
<1> HIDE DEF new
<1>4. Ordered(stack', register_allocated_count)
  BY <1>2, <1>3, EnterOrdered DEF IInv, Stacked
<1>5. stack' \in Seq(ActivationType) /\ Len(stack') = 1 /\ stack'[1] = new /\ Len(stack) = 0
  BY <1>2, <1>3 DEF IInv, Stacked
<1>6. Code' /\ Len(bytecode) \in Nat /\ Quiet
  BY DEF IInv, Code, Within, Quiet
<1>7. Sound(new, Len(bytecode'))
  BY <1>2, <1>6 DEF Sound, Shape, Matching
<1>8. Stacked'
  BY <1>4, <1>5, <1>7 DEF IInv, Stacked, Marked, registerVars
<1>9. Input' /\ Pool' /\ Functions'
  BY <1>1 DEF IInv, Input, Pool, Functions, poolVars
<1> QED BY <1>5, <1>6, <1>8, <1>9, QuietStep DEF Step, IInv, Returning

(* cc() is through. *)
LEMMA DoneStep == IInv /\ Done => Step
PROOF
<1> SUFFICES ASSUME IInv, Done PROVE Step
  OBVIOUS
<1> USE DEF Done
<1>1. Code' /\ Quiet
  BY DEF IInv, Code, Within, Quiet, StatusType
<1>2. Stacked' /\ Returning
  BY DEF IInv, Stacked, Marked, registerVars, Returning
<1>3. Input' /\ Pool' /\ Functions'
  BY DEF IInv, Input, Pool, Functions, poolVars
<1> QED BY <1>1, <1>2, <1>3, QuietStep DEF Step, IInv

(* atoms, aggregates and identifiers *)
LEMMA AtomSteps ==
    IInv /\ (\/ CompileBool \/ CompileCached \/ CompileLiteral
             \/ CompileAggregate \/ OutOfGlobals \/ CompileIdent) => Step
PROOF
<1> SUFFICES ASSUME IInv,
                    \/ CompileBool \/ CompileCached \/ CompileLiteral
                    \/ CompileAggregate \/ OutOfGlobals \/ CompileIdent
             PROVE Step
  OBVIOUS
<1>1. "LOADG" \in Ops /\ "LOADG" # "STORE" /\ "LOADV" \in Ops /\ "LOADV" # "STORE"
  BY DEF Ops
<1>2. stack # <<>> => Top.n \in Nodes /\ Top.n.tok \in Tokens
  BY TopSound, NodeType DEF IInv
<1>3. stack # <<>> /\ Top.n.kind \in {"N_ATOM", "N_IDENT", "N_OBJECT", "N_LIST", "N_ARRAY"}
        => Top.regs = <<>>
  BY HoldsNone DEF IInv
<1>4. Pool /\ Len(globals) \in Nat
  BY DEF IInv, Pool
<1>5. CASE CompileBool
  <2> DEFINE arg == IF LitValue[Top.n.tok].type = "True" THEN GLOBAL_TRUE ELSE GLOBAL_FALSE
  <2>1. arg \in Nat \cup {Placeholder}
    BY DEF GLOBAL_TRUE, GLOBAL_FALSE
  <2>2. Top.regs = <<>> /\ status = "compiling" /\ stack # <<>>
    BY <1>3, <1>5 DEF Leaf, CompileBool, At
  <2>3. Pool'
    BY <1>4, <1>5 DEF Leaf, CompileBool, poolVars, Pool
  <2>4. /\ Emit(<<Instr("LOADG", arg)>>) /\ Return
        /\ UNCHANGED <<program, next, hash_to_function, registerVars>>
    BY <1>5 DEF Leaf, CompileBool
  <2> HIDE DEF arg
  <2> QED BY <1>1, <2>1, <2>2, <2>3, <2>4, EmitStep
<1>6. CASE CompileCached
  <2>1. Top.regs = <<>> /\ status = "compiling" /\ stack # <<>>
    BY <1>3, <1>6 DEF Leaf, CompileCached, IsLiteral, At
  <2>2. Bucket[Top.n.tok] \in 0..GLOBAL_SIZE - 1
    BY <1>2, <2>1, HashAssumption
  <2>3. Cached \in Nat /\ Cached # 0
    BY <1>4, <1>6, <2>2 DEF Leaf, CompileCached, Cached, Pool
  <2>4. CachedIndex \in Nat \cup {Placeholder}
    BY <2>3 DEF CachedIndex
  <2>5. Pool'
    BY <1>4, <1>6 DEF Leaf, CompileCached, poolVars, Pool
  <2>6. /\ Emit(<<Instr("LOADG", CachedIndex)>>) /\ Return
        /\ UNCHANGED <<program, next, hash_to_function, registerVars>>
    BY <1>6 DEF Leaf, CompileCached
  <2> QED BY <1>1, <2>1, <2>4, <2>5, <2>6, EmitStep
<1>7. CASE CompileLiteral
  <2>1. Top.regs = <<>> /\ status = "compiling" /\ stack # <<>>
    BY <1>3, <1>7 DEF CompileLiteral, IsLiteral, At
  <2>2. Pool'
    <3>1. LitValue[Top.n.tok] \in Value
      BY <1>2, <2>1, HashAssumption
    <3>2. globals' \in Seq(Value)
      BY <3>1, <1>4, <1>7 DEF CompileLiteral, Pool
    <3>3. global_hash_buckets' \in [0..GLOBAL_SIZE - 1 -> Nat]
      <4>1. Len(globals) + 1 \in Nat
        BY <1>4
      <4>2. global_hash_buckets' =
              [global_hash_buckets EXCEPT ![Bucket[Top.n.tok]] = Len(globals) + 1]
        BY <1>7 DEF CompileLiteral
      <4>3. global_hash_buckets \in [0..GLOBAL_SIZE - 1 -> Nat]
        BY <1>4 DEF Pool
      <4> QED BY <4>1, <4>2, <4>3
    <3> QED BY <3>2, <3>3 DEF Pool
  <2>3. /\ Emit(<<Instr("LOADG", Len(globals))>>) /\ Return
        /\ UNCHANGED <<program, next, hash_to_function, registerVars>>
    BY <1>7 DEF CompileLiteral
  <2> QED BY <1>1, <1>4, <2>1, <2>2, <2>3, EmitStep
<1>8. CASE CompileAggregate
  <2>1. Top.regs = <<>> /\ status = "compiling" /\ stack # <<>>
    BY <1>3, <1>8 DEF CompileAggregate, IsEmptyAggregate, At
  <2>2. Pool'
    <3>1. Obj \in Value /\ Array \in Value
      BY DEF Obj, Array, Plain, Value, Types
    <3> QED BY <3>1, <1>4, <1>8 DEF CompileAggregate, Pool
  <2>3. /\ Emit(<<Instr("LOADG", Len(globals))>>) /\ Return
        /\ UNCHANGED <<program, next, hash_to_function, registerVars>>
    BY <1>8 DEF CompileAggregate
  <2> QED BY <1>1, <1>4, <2>1, <2>2, <2>3, EmitStep
<1>9. CASE OutOfGlobals
  BY <1>9, FailStep DEF OutOfGlobals, StatusType
<1>10. CASE CompileIdent
  <2>1. Top.regs = <<>> /\ status = "compiling" /\ stack # <<>>
    BY <1>3, <1>10 DEF Leaf, CompileIdent, At
  <2>2. VarHash[Top.n.tok] \in Nat
    BY <1>2, <2>1, HashAssumption, SizeAssumption
  <2>3. Pool'
    BY <1>4, <1>10 DEF Leaf, CompileIdent, poolVars, Pool
  <2>4. /\ Emit(<<Instr("LOADV", VarHash[Top.n.tok])>>) /\ Return
        /\ UNCHANGED <<program, next, hash_to_function, registerVars>>
    BY <1>10 DEF Leaf, CompileIdent
  <2> QED BY <1>1, <2>1, <2>2, <2>3, <2>4, EmitStep
<1> QED BY <1>5, <1>6, <1>7, <1>8, <1>9, <1>10

(* operations with operands in registers *)
LEMMA OperandSteps ==
    IInv /\ (\/ NextOperand \/ SingleOperand \/ CompileBin
             \/ StoreOperand \/ OutOfRegisters) => Step
PROOF
<1> SUFFICES ASSUME IInv,
                    \/ NextOperand \/ SingleOperand \/ CompileBin
                    \/ StoreOperand \/ OutOfRegisters
             PROVE Step
  OBVIOUS
<1>1. CASE NextOperand
  <2>1. /\ stack # <<>> /\ status = "compiling" /\ Top.n.kind = "N_BIN"
        /\ Top.i = Len(Top.regs) /\ Top.i < Len(Top.n.ch)
    BY <1>1 DEF Descend, NextOperand, At
  <2>2. Top.phase = "start"
    BY <2>1, NotMatching DEF IInv
  <2>3. Top.n.ch[Top.i + 1] \in Nodes
    <3>1. Top.i \in Nat /\ Top.n \in Nodes
      BY <2>1, TopSound, ActivationFields DEF IInv
    <3> QED BY <3>1, <2>1, NodeType
  <2> DEFINE self == [Top EXCEPT !.i = @ + 1]
  <2>4. /\ self \in ActivationType /\ self.regs = Top.regs /\ self.base = Top.base
        /\ Sound(self, Len(bytecode))
    BY <2>1, <2>2, NextChild DEF IInv
  <2>5. /\ Compile(Top.n.ch[Top.i + 1], self)
        /\ UNCHANGED <<program, next, bytecode, hash_to_function, status>>
        /\ UNCHANGED <<poolVars, registerVars>>
    BY <1>1 DEF Descend, NextOperand
  <2> HIDE DEF self
  <2> QED BY <2>1, <2>3, <2>4, <2>5, EnterStep
<1>2. CASE SingleOperand
  <2>1. /\ stack # <<>> /\ status = "compiling" /\ Top.regs = <<>>
    BY <1>2, HoldsNone DEF ReturnOnly, SingleOperand, At, IInv
  <2>2. Functions'
    BY <1>2 DEF ReturnOnly, SingleOperand, IInv, Functions
  <2> QED BY <1>2, <2>1, <2>2, SilentReturnStep DEF ReturnOnly, SingleOperand
<1>3. CASE CompileBin
  <2>1. /\ stack # <<>> /\ status = "compiling" /\ Top.n.kind = "N_BIN" /\ Top.i = 2
    BY <1>3 DEF CompileBin, At
  <2>2. Top.n.tok \in BinOps /\ Len(Top.regs) = 1 /\ Top.regs \in Seq(Nat)
    BY <2>1, TopSound, ActivationFields, NodeType DEF IInv, Sound, Shape
  <2>3. /\ Top.n.tok \in Ops /\ Top.n.tok # "STORE"
        /\ Top.regs[1] \in Nat \cup {Placeholder}
    BY <2>2 DEF Ops, BinOps
  <2>4. Code' /\ Grown /\ Quiet
    <3> DEFINE op == Top.n.tok
               arg == Top.regs[1]
    <3>1. Emit(<<Instr(op, arg)>>)
      BY <1>3 DEF CompileBin
    <3>2. op \in Ops /\ op # "STORE" /\ arg \in Nat \cup {Placeholder}
      BY <2>3
    <3> HIDE DEF op, arg
    <3>3. \A k \in 1..Len(<<Instr(op, arg)>>) : <<Instr(op, arg)>>[k].op # "STORE"
      BY <3>2, Instruction
    <3> QED BY <2>1, <3>1, <3>2, <3>3, Instruction, EmittedQuiet DEF IInv
  <2>5. Stacked' /\ Returning
    BY <1>3, <2>1, <2>4, ReturnStacked DEF IInv, CompileBin
  <2>6. Input' /\ Pool' /\ Functions'
    BY <1>3 DEF CompileBin, IInv, Input, Pool, Functions, poolVars
  <2> QED BY <2>4, <2>5, <2>6, QuietStep DEF Step, IInv
<1>4. CASE StoreOperand
  <2> DEFINE count == register_allocated_count
  <2>1. stack # <<>> /\ status = "compiling"
    BY <1>4 DEF StoreOperand, Storing, AtArguments, IsRuntimeCall, AtConstruct, At, Callable
  <2>2. count \in Nat /\ "STORE" \in Ops
    BY SizeAssumption DEF IInv, Stacked, Ops
  <2>3. /\ Code' /\ Grown
        /\ \A a \in Len(bytecode) + 1..Len(bytecode') :
              bytecode'[a] = Instr("STORE", count)
    <3>1. Emit(<<Instr("STORE", count)>>)
      BY <1>4 DEF StoreOperand
    <3>2. /\ <<Instr("STORE", count)>> \in Seq(InstrType)
          /\ \A k \in 1..Len(<<Instr("STORE", count)>>) :
                <<Instr("STORE", count)>>[k] = Instr("STORE", count)
      BY <2>2, Instruction
    <3> QED BY <2>1, <3>1, <3>2, Emitted DEF IInv
  <2>4. Stacked' /\ Returning
    BY <1>4, <2>1, <2>3, StoreStacked DEF IInv, StoreOperand
  <2>5. \A d \in 1..Len(stack) : ~Holds(d, count)
    <3> SUFFICES ASSUME NEW d \in 1..Len(stack), NEW k \in 1..Len(stack[d].regs)
                 PROVE stack[d].regs[k] # count
      BY DEF Holds
    <3>1. stack[d].base \in Nat /\ Len(stack[d].regs) \in Nat
      BY ActivationFields DEF IInv, Stacked
    <3>2. End(stack[d]) <= count
      BY BelowCount DEF IInv, Stacked
    <3>3. stack[d].regs[k] = stack[d].base + k - 1
      BY DEF IInv, Stacked, Ordered, Chained, Span
    <3> QED BY <2>2, <3>1, <3>2, <3>3 DEF End
  <2>6. Storeless
    BY <2>3, <2>5 DEF Storeless, Instr
  <2>7. Input' /\ Pool' /\ Functions'
    BY <1>4 DEF StoreOperand, IInv, Input, Pool, Functions, poolVars
  <2> QED BY <2>3, <2>4, <2>6, <2>7 DEF Step, IInv
<1>5. CASE OutOfRegisters
  BY <1>5, FailStep DEF OutOfRegisters, StatusType
<1> QED BY <1>1, <1>2, <1>3, <1>4, <1>5

(* calls of functions and of runtime builtins *)
LEMMA CallSteps ==
    IInv /\ (\/ CompileElidedCall \/ NextArgument \/ EmitBuiltin \/ EmitCall) => Step
PROOF
<1> SUFFICES ASSUME IInv,
                    \/ CompileElidedCall \/ NextArgument \/ EmitBuiltin \/ EmitCall
             PROVE Step
  OBVIOUS
<1>1. stack # <<>> /\ status = "compiling"
  BY DEF Descend, ReturnOnly, CompileElidedCall, ElidedCall, NextArgument, EmitBuiltin, EmitCall,
         AtArguments, IsRuntimeCall, AtConstruct, At, Callable
<1>2. /\ Top \in ActivationType /\ Top.i \in Nat /\ Top.n \in Nodes
      /\ Top.n.tok \in Tokens
  BY <1>1, TopSound, ActivationFields, NodeType DEF IInv
<1>3. FnHash[Top.n.tok] \in 0..MAX_BUILTIN_SIZE - 1 /\ FnHash[Top.n.tok] \in Nat
  BY <1>2, HashAssumption, SizeAssumption
<1>4. CASE CompileElidedCall
  <2>1. Top.regs = <<>>
    BY <1>1, <1>4, HoldsNone DEF ReturnOnly, CompileElidedCall, ElidedCall, IInv
  <2>2. Functions'
    BY <1>4 DEF ReturnOnly, CompileElidedCall, IInv, Functions
  <2> QED BY <1>1, <1>4, <2>1, <2>2, SilentReturnStep DEF ReturnOnly, CompileElidedCall
<1>5. CASE NextArgument
  <2>1. Top.n.kind # "N_BUILTIN" \/ Construct(Top.n.tok) # "match"
    BY <1>5 DEF Descend, NextArgument, AtArguments, IsRuntimeCall, AtConstruct, At, Callable
  <2>2. Top.phase = "start" /\ Top.i = Len(Top.regs)
    BY <1>1, <1>5, <2>1, NotMatching DEF Descend, NextArgument, IInv
  <2>3. Top.n.ch[Top.i + 1] \in Nodes
    BY <1>2, <1>5, NodeType DEF Descend, NextArgument
  <2> DEFINE self == [Top EXCEPT !.i = @ + 1]
  <2>4. /\ self \in ActivationType /\ self.regs = Top.regs /\ self.base = Top.base
        /\ Sound(self, Len(bytecode))
    BY <1>1, <2>2, NextChild DEF IInv
  <2>5. /\ Compile(Top.n.ch[Top.i + 1], self)
        /\ UNCHANGED <<program, next, bytecode, hash_to_function, status>>
        /\ UNCHANGED <<poolVars, registerVars>>
    BY <1>5 DEF Descend, NextArgument
  <2> HIDE DEF self
  <2> QED BY <1>1, <2>3, <2>4, <2>5, EnterStep
<1>6. CASE EmitBuiltin
  BY <1>1, <1>3, <1>6, CallStep DEF EmitBuiltin
<1>7. CASE EmitCall
  <2>1. Callee(Top.n.tok).bytecode_index \in Nat
    BY <1>3 DEF Callee, IInv, Functions, CtxFunction
  <2> QED BY <1>1, <1>7, <2>1, CallStep DEF EmitCall
<1> QED BY <1>4, <1>5, <1>6, <1>7

(* @None, @assert and @let *)
LEMMA BuiltinSteps ==
    IInv /\ (\/ CompileNone \/ AssertChild \/ CompileAssert \/ LetValue \/ LetBind) => Step
PROOF
<1> SUFFICES ASSUME IInv,
                    \/ CompileNone \/ AssertChild \/ CompileAssert \/ LetValue \/ LetBind
             PROVE Step
  OBVIOUS
<1>1. /\ stack # <<>> /\ status = "compiling" /\ Top.n.kind = "N_BUILTIN"
      /\ Construct(Top.n.tok) \in {"None", "assert", "let"}
  BY DEF Descend, Leaf, CompileNone, AssertChild, CompileAssert, LetValue, LetBind, AtConstruct, At
<1>2. Top.regs = <<>> /\ Top.phase = "start"
  BY <1>1, HoldsNone, NotMatching DEF IInv, CompileTime
<1>3. /\ Top \in ActivationType /\ Top.i \in Nat /\ Top.n \in Nodes
      /\ Sound(Top, Len(bytecode))
  BY <1>1, TopSound, ActivationFields DEF IInv
<1>4. Pool /\ {"LOADG", "ASSERT", "VAR"} \subseteq Ops
  BY DEF IInv, Ops
<1>5. CASE CompileNone
  <2>1. GLOBAL_NONE \in Nat \cup {Placeholder}
    BY DEF GLOBAL_NONE
  <2>2. Pool'
    BY <1>4, <1>5 DEF Leaf, CompileNone, Pool, poolVars
  <2> QED BY <1>1, <1>2, <1>4, <1>5, <2>1, <2>2, EmitStep DEF Leaf, CompileNone
<1>6. CASE AssertChild
  <2>1. Top.n.ch[Top.i + 1] \in Nodes
    BY <1>3, <1>6, NodeType DEF Descend, AssertChild
  <2> DEFINE self == [Top EXCEPT !.i = @ + 1]
  <2>2. /\ self \in ActivationType /\ self.regs = Top.regs /\ self.base = Top.base
        /\ Sound(self, Len(bytecode))
    BY <1>1, <1>2, NextChild DEF IInv
  <2>3. /\ Compile(Top.n.ch[Top.i + 1], self)
        /\ UNCHANGED <<program, next, bytecode, hash_to_function, status>>
        /\ UNCHANGED <<poolVars, registerVars>>
    BY <1>6 DEF Descend, AssertChild
  <2> HIDE DEF self
  <2> QED BY <1>1, <2>1, <2>2, <2>3, EnterStep
<1>7. CASE CompileAssert
  <2>1. Pool'
    BY <1>4, <1>7 DEF Leaf, CompileAssert, Pool, poolVars
  <2> QED BY <1>1, <1>2, <1>4, <1>7, <2>1, EmitStep DEF Leaf, CompileAssert
<1>8. CASE LetValue
  <2>1. Top.n.ch[2] \in Nodes
    BY <1>3, <1>8, NodeType DEF Descend, LetValue
  <2> DEFINE self == [Top EXCEPT !.i = 1]
  <2>2. /\ self \in ActivationType /\ self.regs = Top.regs /\ self.base = Top.base
        /\ self.n = Top.n /\ self.mark = Top.mark /\ self.phase = Top.phase /\ self.i = 1
    BY <1>3 DEF ActivationType
  <2>3. /\ Compile(Top.n.ch[2], self)
        /\ UNCHANGED <<program, next, bytecode, hash_to_function, status>>
        /\ UNCHANGED <<poolVars, registerVars>>
    BY <1>8 DEF Descend, LetValue
  <2> HIDE DEF self
  <2>4. Sound(self, Len(bytecode))
    BY <1>1, <1>2, <1>3, <2>2 DEF Sound, Shape, Matching
  <2> QED BY <1>1, <2>1, <2>2, <2>3, <2>4, EnterStep
<1>9. CASE LetBind
  <2>1. Top.n.ch[1] \in Nodes
    BY <1>3, <1>9, NodeType DEF Leaf, LetBind
  <2>2. VarHash[Top.n.ch[1].tok] \in Nat
    BY <2>1, NodeType, HashAssumption, SizeAssumption
  <2>3. Pool'
    BY <1>4, <1>9 DEF Leaf, LetBind, Pool, poolVars
  <2> QED BY <1>1, <1>2, <1>4, <1>9, <2>2, <2>3, EmitStep DEF Leaf, LetBind
<1> QED BY <1>5, <1>6, <1>7, <1>8, <1>9

(* The case a match is at is a node, and so are its children. *)
LEMMA CaseNode ==
    ASSUME Stacked, AtConstruct("match"), Top.i < Len(Top.n.ch)
    PROVE  /\ Case \in Nodes /\ Case.ch \in Seq(Nodes) /\ Len(Case.ch) \in Nat
           /\ \A k \in 1..Len(Case.ch) : Case.ch[k] \in Nodes
PROOF
<1>1. stack # <<>>
  BY DEF AtConstruct, At
<1>2. Top.i \in Nat /\ Top.n \in Nodes
  BY <1>1, TopSound, ActivationFields
<1>3. Top.i + 1 \in 1..Len(Top.n.ch)
  BY <1>2, NodeType
<1>4. Case \in Nodes
  BY <1>2, <1>3, NodeType DEF Case
<1> HIDE DEF Case
<1> QED BY <1>4, NodeType

(* What a case leaves behind when it is done is an activation again. *)
LEMMA CaseFinished ==
    ASSUME NEW a \in ActivationType, NEW slots \in Seq(Nat \cup {NoSlot})
    PROVE  /\ [a EXCEPT !.i = @ + 1, !.phase = "start", !.slots = slots] \in ActivationType
           /\ [a EXCEPT !.i = @ + 1, !.phase = "start", !.default = TRUE,
                        !.slots = slots] \in ActivationType
PROOF
<1>1. [a EXCEPT !.i = @ + 1] \in ActivationType
  BY DEF ActivationType
<1>2. \A b \in ActivationType : [b EXCEPT !.phase = "start"] \in ActivationType
  BY DEF ActivationType, Phases
<1>3. \A b \in ActivationType : [b EXCEPT !.default = TRUE] \in ActivationType
  BY DEF ActivationType
<1>4. \A b \in ActivationType : [b EXCEPT !.slots = slots] \in ActivationType
  BY DEF ActivationType
<1> QED BY <1>1, <1>2, <1>3, <1>4 DEF ActivationType

(* @match *)
LEMMA MatchSteps ==
    IInv /\ (\/ MatchCondition \/ MatchBody \/ MatchCaseEnd \/ MatchDefault
             \/ MatchDefaultEnd \/ MatchEnd \/ MatchGarbage) => Step
PROOF
<1> SUFFICES ASSUME IInv,
                    \/ MatchCondition \/ MatchBody \/ MatchCaseEnd \/ MatchDefault
                    \/ MatchDefaultEnd \/ MatchEnd \/ MatchGarbage
             PROVE Step
  OBVIOUS
<1>1. /\ stack # <<>> /\ status = "compiling" /\ Top.n.kind = "N_BUILTIN"
      /\ Construct(Top.n.tok) = "match" /\ AtConstruct("match")
  BY DEF Descend, MatchCondition, MatchBody, MatchCaseEnd, MatchDefault, MatchDefaultEnd,
         MatchEnd, MatchGarbage, AtMatchEnd, AtCase, AtConstruct, At
<1>2. Top.regs = <<>>
  BY <1>1, HoldsNone DEF IInv, CompileTime
<1>3. /\ Top \in ActivationType /\ Top.i \in Nat /\ Top.n \in Nodes /\ Top.mark \in Nat
      /\ Top.slots \in Seq(Nat \cup {NoSlot})
      /\ Shape(Top) /\ Matching(Top) /\ Top.mark <= Len(bytecode)
  BY <1>1, TopSound, ActivationFields DEF IInv, Sound
<1>4. /\ bytecode \in Seq(InstrType) /\ Len0 \in Nat /\ Len0 = Len(bytecode)
  BY DEF IInv, Code, Len0
<1>5. CASE MatchCondition
  <2> DEFINE self == [Top EXCEPT !.phase = "condition"]
  <2>1. Case.ch[1] \in Nodes /\ Len(Case.ch) > 1
    BY <1>1, <1>5, CaseNode DEF Descend, MatchCondition, AtCase, Conditional, IInv
  <2>2. /\ self \in ActivationType /\ self.regs = Top.regs /\ self.base = Top.base
        /\ self.n = Top.n /\ self.mark = Top.mark /\ self.i = Top.i
    BY <1>3 DEF ActivationType, Phases
  <2>3. /\ Compile(Case.ch[1], self)
        /\ UNCHANGED <<program, next, bytecode, hash_to_function, status>>
        /\ UNCHANGED <<poolVars, registerVars>>
    BY <1>5 DEF Descend, MatchCondition
  <2> HIDE DEF self
  <2>4. Sound(self, Len(bytecode))
    <3>1. Shape(self)
      BY <1>1, <1>2, <1>3, <2>2 DEF Shape
    <3>2. Matching(self)
      BY <1>1, <2>1, <2>2 DEF Matching, Case
    <3> QED BY <1>3, <2>2, <3>1, <3>2 DEF Sound
  <2> QED BY <1>1, <2>1, <2>2, <2>3, <2>4, EnterStep
<1>6. CASE MatchBody
  <2> DEFINE self == [Top EXCEPT !.phase = "body", !.mark = Len0]
  <2>1. Case.ch[2] \in Nodes
    <3>1. Len(Case.ch) > 1
      BY <1>3, <1>6 DEF MatchBody, AtCase, Matching, Case
    <3> QED BY <3>1, <1>1, <1>6, CaseNode DEF MatchBody, AtCase, IInv
  <2>2. /\ self \in ActivationType /\ self.regs = Top.regs /\ self.base = Top.base
        /\ self.n = Top.n /\ self.mark = Len0 /\ self.i = Top.i /\ self.phase = "body"
    BY <1>3, <1>4 DEF ActivationType, Phases
  <2>3. /\ Compile(Case.ch[2], self) /\ Emit(<<Instr("JMPF", Placeholder)>>)
        /\ UNCHANGED <<program, next, hash_to_function, poolVars, registerVars>>
    BY <1>6 DEF MatchBody
  <2> HIDE DEF self
  <2>4. Code' /\ Grown /\ Quiet
    <3>1. "JMPF" \in Ops /\ "JMPF" # "STORE" /\ Placeholder \in Nat \cup {Placeholder}
      BY DEF Ops
    <3> QED BY <1>1, <2>3, <3>1, QuietInstruction, EmittedQuiet DEF IInv
  <2>5. Sound(self, Len(bytecode'))
    <3>1. Shape(self)
      BY <1>1, <1>2, <1>3, <2>2 DEF Shape
    <3>2. Matching(self)
      BY <1>1, <2>2 DEF Matching
    <3> QED BY <1>4, <2>2, <2>4, <3>1, <3>2 DEF Sound, Grown
  <2>6. Stacked' /\ Returning
    BY <1>1, <2>1, <2>2, <2>3, <2>4, <2>5, EnterStacked DEF IInv
  <2>7. Input' /\ Pool' /\ Functions'
    BY <2>3 DEF IInv, Input, Pool, Functions, poolVars
  <2> QED BY <2>4, <2>6, <2>7, QuietStep DEF Step, IInv
<1>7. CASE MatchCaseEnd
  <2> DEFINE jmp == IF LastCase THEN <<>> ELSE <<Instr("JMP", Placeholder)>>
             code == bytecode \o jmp
             slot == IF LastCase THEN NoSlot ELSE Len0
             slots == Append(Top.slots, slot)
             self == [Top EXCEPT !.i = @ + 1, !.phase = "start", !.slots = slots]
  <2>1. /\ jmp \in Seq(InstrType) /\ Len(jmp) \in Nat
        /\ \A k \in 1..Len(jmp) : jmp[k].op # "STORE"
    <3>1. "JMP" \in Ops /\ Placeholder \in Nat \cup {Placeholder}
      BY DEF Ops
    <3>2. CASE LastCase
      BY <3>2
    <3>3. CASE ~LastCase
      <4>1. jmp = <<Instr("JMP", Placeholder)>>
        BY <3>3
      <4> QED BY <3>1, <4>1, QuietInstruction
    <3> QED BY <3>2, <3>3
  <2> HIDE DEF jmp
  <2>2. /\ code \in Seq(InstrType) /\ Len(code) = Len(bytecode) + Len(jmp)
        /\ \A a \in Len(bytecode) + 1..Len(code) : code[a].op # "STORE"
    BY <1>4, <2>1, ConcatProperties
  <2>3. Write(Patch(code, Top.mark, Len(code)))
    BY <1>7 DEF MatchCaseEnd, jmp
  <2> HIDE DEF code
  <2>4. /\ Patch(code, Top.mark, Len(code)) \in Seq(InstrType)
        /\ Len(Patch(code, Top.mark, Len(code))) = Len(code)
        /\ \A a \in 1..Len(code) : Patch(code, Top.mark, Len(code))[a].op = code[a].op
    <3>1. Len(code) \in Nat
      BY <2>2
    <3> QED BY <1>3, <2>2, <3>1, Patched
  <2>5. /\ Code' /\ Grown
        /\ \A a \in 1..Len(bytecode') :
              a \in 1..Len(code) /\ bytecode'[a].op = code[a].op
    <3>1. Len(bytecode) <= Len(Patch(code, Top.mark, Len(code)))
      BY <1>4, <2>1, <2>2, <2>4
    <3> QED BY <1>1, <2>3, <2>4, <3>1, Written DEF IInv
  <2>6. Quiet
    BY <1>4, <2>2, <2>5 DEF Quiet, Grown
  <2>7. /\ self \in ActivationType /\ self.regs = Top.regs /\ self.base = Top.base
        /\ self.n = Top.n /\ self.mark = Top.mark /\ self.i = Top.i + 1
        /\ self.phase = "start"
    <3>1. slots \in Seq(Nat \cup {NoSlot})
      BY <1>3, <1>4
    <3> HIDE DEF slots
    <3>2. self \in ActivationType
      BY <1>3, <3>1, CaseFinished
    <3>3. /\ self.regs = Top.regs /\ self.base = Top.base /\ self.n = Top.n
          /\ self.mark = Top.mark /\ self.i = Top.i + 1 /\ self.phase = "start"
      BY <1>3 DEF ActivationType
    <3> QED BY <3>2, <3>3
  <2>8. Continue(self) /\ UNCHANGED <<program, next, hash_to_function, poolVars, registerVars>>
    BY <1>7 DEF MatchCaseEnd
  <2> HIDE DEF self
  <2>9. Sound(self, Len(bytecode'))
    <3>1. Shape(self)
      BY <1>1, <1>2, <1>3, <2>7 DEF Shape
    <3>2. Matching(self)
      BY <2>7 DEF Matching
    <3> QED BY <1>3, <1>4, <2>5, <2>7, <3>1, <3>2 DEF Sound, Grown
  <2>10. Stacked' /\ Returning
    BY <1>1, <2>5, <2>7, <2>8, <2>9, ContinueStacked DEF IInv
  <2>11. Input' /\ Pool' /\ Functions'
    BY <2>8 DEF IInv, Input, Pool, Functions, poolVars
  <2> QED BY <2>5, <2>6, <2>10, <2>11, QuietStep DEF Step, IInv
<1>8. CASE MatchDefault
  <2> DEFINE self == [Top EXCEPT !.phase = "default"]
  <2>1. Case \in Nodes
    BY <1>1, <1>8, CaseNode DEF Descend, MatchDefault, AtCase, IInv
  <2>2. /\ self \in ActivationType /\ self.regs = Top.regs /\ self.base = Top.base
        /\ self.n = Top.n /\ self.mark = Top.mark /\ self.i = Top.i
        /\ self.phase = "default"
    BY <1>3 DEF ActivationType, Phases
  <2>3. /\ Compile(Case, self)
        /\ UNCHANGED <<program, next, bytecode, hash_to_function, status>>
        /\ UNCHANGED <<poolVars, registerVars>>
    BY <1>8 DEF Descend, MatchDefault
  <2> HIDE DEF self
  <2>4. Sound(self, Len(bytecode))
    <3>1. Shape(self)
      BY <1>1, <1>2, <1>3, <2>2 DEF Shape
    <3>2. Matching(self)
      BY <1>1, <2>2 DEF Matching
    <3> QED BY <1>3, <2>2, <3>1, <3>2 DEF Sound
  <2> QED BY <1>1, <2>1, <2>2, <2>3, <2>4, EnterStep
<1>9. CASE MatchDefaultEnd
  <2> DEFINE slots == Append(Top.slots, NoSlot)
             self == [Top EXCEPT !.i = @ + 1, !.phase = "start", !.default = TRUE,
                                 !.slots = slots]
  <2>1. /\ self \in ActivationType /\ self.regs = Top.regs /\ self.base = Top.base
        /\ self.n = Top.n /\ self.mark = Top.mark /\ self.i = Top.i + 1
        /\ self.phase = "start"
    <3>1. slots \in Seq(Nat \cup {NoSlot})
      BY <1>3
    <3> HIDE DEF slots
    <3>2. self \in ActivationType
      BY <1>3, <3>1, CaseFinished
    <3>3. /\ self.regs = Top.regs /\ self.base = Top.base /\ self.n = Top.n
          /\ self.mark = Top.mark /\ self.i = Top.i + 1 /\ self.phase = "start"
      BY <1>3 DEF ActivationType
    <3> QED BY <3>2, <3>3
  <2>2. /\ Continue(self)
        /\ UNCHANGED <<program, next, bytecode, hash_to_function, status>>
        /\ UNCHANGED <<poolVars, registerVars>>
    BY <1>9 DEF MatchDefaultEnd
  <2> HIDE DEF self
  <2>3. Code' /\ Grown /\ Quiet
    BY <2>2 DEF IInv, Code, Within, Grown, Quiet
  <2>4. Sound(self, Len(bytecode'))
    <3>1. Shape(self)
      BY <1>1, <1>2, <1>3, <2>1 DEF Shape
    <3>2. Matching(self)
      BY <2>1 DEF Matching
    <3> QED BY <1>3, <2>1, <2>2, <3>1, <3>2 DEF Sound
  <2>5. Stacked' /\ Returning
    BY <1>1, <2>1, <2>2, <2>3, <2>4, ContinueStacked DEF IInv
  <2>6. Input' /\ Pool' /\ Functions'
    BY <2>2 DEF IInv, Input, Pool, Functions, poolVars
  <2> QED BY <2>3, <2>5, <2>6, QuietStep DEF Step, IInv
<1>10. CASE MatchEnd
  <2>1. bytecode' = [a \in DOMAIN bytecode |->
                       IF a \in BackfillSlots
                       THEN [bytecode[a] EXCEPT !.arg = Len0] ELSE bytecode[a]]
    BY <1>10 DEF MatchEnd
  <2>2. \A a \in 1..Len(bytecode) :
          /\ bytecode[a] \in InstrType
          /\ [bytecode[a] EXCEPT !.arg = Len0] \in InstrType
    <3> SUFFICES ASSUME NEW a \in 1..Len(bytecode)
                 PROVE  /\ bytecode[a] \in InstrType
                        /\ [bytecode[a] EXCEPT !.arg = Len0] \in InstrType
      OBVIOUS
    <3>1. bytecode[a] \in InstrType
      BY <1>4
    <3> QED BY <1>4, <3>1 DEF InstrType
  <2>3. bytecode' \in [1..Len(bytecode) -> InstrType] /\ DOMAIN bytecode = 1..Len(bytecode)
    BY <1>4, <2>1, <2>2
  <2>4. bytecode' \in Seq(InstrType) /\ Len(bytecode') = Len(bytecode)
    BY <1>4, <2>3
  <2>5. Code' /\ Grown /\ Quiet
    BY <1>4, <1>10, <2>4 DEF MatchEnd, IInv, Code, Within, Grown, Quiet
  <2>6. Stacked' /\ Returning
    BY <1>1, <1>2, <1>10, <2>5, ReturnStacked DEF MatchEnd, IInv
  <2>7. Input' /\ Pool' /\ Functions'
    BY <1>10 DEF MatchEnd, IInv, Input, Pool, Functions, poolVars
  <2> QED BY <2>5, <2>6, <2>7, QuietStep DEF Step, IInv
<1>11. CASE MatchGarbage
  BY <1>11, FailStep DEF MatchGarbage, StatusType
<1> QED BY <1>5, <1>6, <1>7, <1>8, <1>9, <1>10, <1>11
(* The loads of a function are instructions, none of them a STORE. *)
LEMMA HeaderTyped ==
    ASSUME NEW n \in Nodes, Len(n.ch) >= 2
    PROVE  /\ Header(n) \in Seq(InstrType)
           /\ \A k \in 1..Len(Header(n)) : Header(n)[k].op # "STORE"
           /\ Len(Params(n)) \in Nat
PROOF
<1>1. n.ch[2] \in Nodes
  BY NodeType
<1>2. Params(n) \in Seq(Nodes) /\ Len(Params(n)) \in Nat
      /\ \A p \in 1..Len(Params(n)) : Params(n)[p] \in Nodes
  BY <1>1, NodeType DEF Params
<1> DEFINE size == 2 * Len(Params(n))
           at(k) == IF k % 2 = 1 THEN Instr("LOAD", (k + 1) \div 2)
                    ELSE Instr("VAR", VarHash[Params(n)[k \div 2].tok])
<1>3. ASSUME NEW k \in 1..size
      PROVE at(k) \in InstrType /\ at(k).op # "STORE"
  <2>1. {"LOAD", "VAR"} \subseteq Ops
    BY DEF Ops
  <2>2. CASE k % 2 = 1
    <3>1. (k + 1) \div 2 \in Nat
      BY <1>2
    <3> QED BY <2>1, <2>2, <3>1, Instruction
  <2>3. CASE k % 2 # 1
    <3>1. k \div 2 \in 1..Len(Params(n))
      BY <1>2, <2>3
    <3>2. VarHash[Params(n)[k \div 2].tok] \in Nat
      BY <1>2, <3>1, NodeType, HashAssumption, SizeAssumption
    <3> QED BY <2>1, <2>3, <3>2, Instruction
  <2> QED BY <2>2, <2>3
<1>4. Header(n) = [k \in 1..size |-> at(k)]
  BY DEF Header
<1>5. size \in Nat
  BY <1>2
<1> HIDE DEF size, at
<1>6. Header(n) \in Seq(InstrType) /\ Len(Header(n)) = size
  BY <1>3, <1>4, <1>5
<1> QED BY <1>2, <1>3, <1>4, <1>6

(* @function *)
LEMMA FunctionSteps ==
    IInv /\ (\/ FunctionEmpty \/ FunctionHeader \/ FunctionBody \/ FunctionEnd) => Step
PROOF
<1> SUFFICES ASSUME IInv,
                    \/ FunctionEmpty \/ FunctionHeader \/ FunctionBody \/ FunctionEnd
             PROVE Step
  OBVIOUS
<1>1. /\ stack # <<>> /\ status = "compiling" /\ Top.n.kind = "N_BUILTIN"
      /\ Construct(Top.n.tok) = "function" /\ Len(Top.n.ch) >= 2
  BY DEF Descend, FunctionEmpty, FunctionHeader, FunctionBody, FunctionEnd, AtFunction,
         AtConstruct, At
<1>2. Top.regs = <<>> /\ Top.phase = "start"
  BY <1>1, HoldsNone, NotMatching DEF IInv, CompileTime
<1>3. /\ Top \in ActivationType /\ Top.i \in Nat /\ Top.n \in Nodes /\ Top.mark \in Nat
      /\ Sound(Top, Len(bytecode)) /\ Top.mark <= Len(bytecode)
      /\ Len(Top.n.ch) \in Nat /\ \A k \in 1..Len(Top.n.ch) : Top.n.ch[k] \in Nodes
  BY <1>1, TopSound, ActivationFields, NodeType DEF IInv, Sound
<1>4. bytecode \in Seq(InstrType) /\ Len0 \in Nat /\ Len0 = Len(bytecode)
  BY DEF IInv, Code, Len0
<1>5. /\ Top.n.ch[1].tok \in Tokens
      /\ FunctionHash \in 0..MAX_BUILTIN_SIZE - 1
      /\ Declared \in CtxFunction
  <2>1. Top.n.ch[1].tok \in Tokens
    BY <1>1, <1>3, NodeType
  <2>2. FunctionHash \in 0..MAX_BUILTIN_SIZE - 1
    BY <2>1, HashAssumption DEF FunctionHash
  <2>3. Len(Params(Top.n)) \in Nat
    BY <1>1, <1>3, HeaderTyped
  <2> QED BY <1>4, <2>1, <2>2, <2>3 DEF Declared, CtxFunction
<1>6. hash_to_function' = [hash_to_function EXCEPT ![FunctionHash] = Declared]
        => Functions'
  BY <1>5 DEF IInv, Functions
<1>7. CASE FunctionEmpty
  BY <1>1, <1>2, <1>6, <1>7, SilentReturnStep DEF FunctionEmpty
<1>8. CASE FunctionHeader
  <2> DEFINE self == [Top EXCEPT !.i = 1, !.mark = Len0]
             code == <<Instr("JMP", Placeholder)>> \o Header(Top.n)
  <2>1. Top.n.ch[3] \in Nodes
    BY <1>3, <1>8 DEF FunctionHeader
  <2>2. /\ self \in ActivationType /\ self.regs = Top.regs /\ self.base = Top.base
        /\ self.n = Top.n /\ self.mark = Len0 /\ self.i = 1 /\ self.phase = Top.phase
    BY <1>3, <1>4 DEF ActivationType
  <2>3. /\ Compile(Top.n.ch[3], self) /\ Emit(code) /\ Functions'
        /\ UNCHANGED <<program, next, poolVars, registerVars>>
    BY <1>6, <1>8 DEF FunctionHeader
  <2> HIDE DEF self
  <2>4. /\ code \in Seq(InstrType)
        /\ \A k \in 1..Len(code) : code[k].op # "STORE"
    <3>1. "JMP" \in Ops /\ Placeholder \in Nat \cup {Placeholder}
      BY DEF Ops
    <3>2. /\ <<Instr("JMP", Placeholder)>> \in Seq(InstrType)
          /\ \A k \in 1..Len(<<Instr("JMP", Placeholder)>>) :
                <<Instr("JMP", Placeholder)>>[k].op # "STORE"
      BY <3>1, QuietInstruction
    <3>3. /\ Header(Top.n) \in Seq(InstrType)
          /\ \A k \in 1..Len(Header(Top.n)) : Header(Top.n)[k].op # "STORE"
      BY <1>1, <1>3, HeaderTyped
    <3> QED BY <3>2, <3>3, ConcatProperties
  <2> HIDE DEF code
  <2>5. Code' /\ Grown /\ Quiet
    BY <1>1, <2>3, <2>4, EmittedQuiet DEF IInv
  <2>6. Sound(self, Len(bytecode'))
    <3>1. Shape(self)
      BY <1>1, <1>2, <2>2 DEF Shape
    <3>2. Matching(self)
      BY <1>2, <2>2 DEF Matching
    <3> QED BY <1>4, <2>2, <2>5, <3>1, <3>2 DEF Sound, Grown
  <2>7. Stacked' /\ Returning
    BY <1>1, <2>1, <2>2, <2>3, <2>5, <2>6, EnterStacked DEF IInv
  <2>8. Input' /\ Pool'
    BY <2>3 DEF IInv, Input, Pool, poolVars
  <2> QED BY <2>3, <2>5, <2>7, <2>8, QuietStep DEF Step, IInv
<1>9. CASE FunctionBody
  <2>1. Top.n.ch[Top.i + 3] \in Nodes
    BY <1>3, <1>9 DEF Descend, FunctionBody
  <2> DEFINE self == [Top EXCEPT !.i = @ + 1]
  <2>2. /\ self \in ActivationType /\ self.regs = Top.regs /\ self.base = Top.base
        /\ Sound(self, Len(bytecode))
    BY <1>1, <1>2, NextChild DEF IInv
  <2>3. /\ Compile(Top.n.ch[Top.i + 3], self)
        /\ UNCHANGED <<program, next, bytecode, hash_to_function, status>>
        /\ UNCHANGED <<poolVars, registerVars>>
    BY <1>9 DEF Descend, FunctionBody
  <2> HIDE DEF self
  <2> QED BY <1>1, <2>1, <2>2, <2>3, EnterStep
<1>10. CASE FunctionEnd
  <2> DEFINE code == Append(bytecode, Instr("LEAVE", 0))
  <2>1. /\ code \in Seq(InstrType) /\ Len(code) = Len(bytecode) + 1
        /\ code[Len(bytecode) + 1].op # "STORE"
    <3>1. Instr("LEAVE", 0) \in InstrType /\ Instr("LEAVE", 0).op # "STORE"
      BY Instruction DEF Ops
    <3> QED BY <1>4, <3>1
  <2>2. /\ Write(Patch(code, Top.mark, Len(code)))
        /\ hash_to_function' =
              [hash_to_function EXCEPT ![FunctionHash].size = Len(code) - Top.mark]
        /\ Return /\ UNCHANGED <<program, next, poolVars, registerVars>>
    BY <1>10 DEF FunctionEnd
  <2> HIDE DEF code
  <2>3. Len(code) \in Nat /\ Len(code) - Top.mark \in Nat
    BY <1>3, <1>4, <2>1
  <2>4. /\ Patch(code, Top.mark, Len(code)) \in Seq(InstrType)
        /\ Len(Patch(code, Top.mark, Len(code))) = Len(code)
        /\ \A a \in 1..Len(code) : Patch(code, Top.mark, Len(code))[a].op = code[a].op
    BY <1>3, <2>1, <2>3, Patched
  <2>5. /\ Code' /\ Grown
        /\ \A a \in 1..Len(bytecode') :
              a \in 1..Len(code) /\ bytecode'[a].op = code[a].op
    <3>1. Len(bytecode) <= Len(Patch(code, Top.mark, Len(code)))
      BY <1>4, <2>1, <2>4
    <3> QED BY <1>1, <2>2, <2>4, <3>1, Written DEF IInv
  <2>6. Quiet
    BY <1>4, <2>1, <2>5 DEF Quiet, Grown
  <2>7. Functions'
    <3>1. hash_to_function[FunctionHash] \in CtxFunction
      BY <1>5 DEF IInv, Functions
    <3>2. [hash_to_function[FunctionHash] EXCEPT !.size = Len(code) - Top.mark] \in CtxFunction
      BY <2>3, <3>1 DEF CtxFunction
    <3> QED BY <1>5, <2>2, <3>2 DEF IInv, Functions
  <2>8. Stacked' /\ Returning
    BY <1>1, <1>2, <2>2, <2>5, ReturnStacked DEF IInv
  <2>9. Input' /\ Pool'
    BY <2>2 DEF IInv, Input, Pool, poolVars
  <2> QED BY <2>5, <2>6, <2>7, <2>8, <2>9, QuietStep DEF Step, IInv
<1> QED BY <1>7, <1>8, <1>9, <1>10

(* The compiler refuses the program. *)
LEMMA RejectStep == IInv /\ (Reject \/ NullToken) => Step
  BY FailStep DEF Reject, NullToken, StatusType

(* Every step of the compiler. *)
LEMMA NextStep == IInv /\ Next => Step
  BY CompileTopStep, DoneStep, AtomSteps, OperandSteps, CallSteps, BuiltinSteps,
     MatchSteps, FunctionSteps, RejectStep DEF Next

(* No step at all. *)
LEMMA StutterStep == IInv /\ UNCHANGED ccVars => Step
PROOF
<1> SUFFICES ASSUME IInv, UNCHANGED ccVars PROVE Step
  OBVIOUS
<1> USE DEF ccVars
<1>1. Input' /\ Pool' /\ Functions'
  BY DEF IInv, Input, Pool, Functions
<1>2. Code' /\ Quiet
  BY DEF IInv, Code, Within, Quiet
<1>3. Stacked' /\ Returning
  BY DEF IInv, Stacked, Marked, Returning
<1> QED BY <1>1, <1>2, <1>3, QuietStep DEF Step, IInv

-----------------------------------------------------------------------------
(* The theorems                                                            *)

(* The strengthening holds in every reachable state of the compiler.       *)
THEOREM Invariance == Spec => []IInv
PROOF
<1>1. IInv /\ [Next]_ccVars => IInv'
  BY NextStep, StutterStep DEF Step
<1> QED BY InitInvariant, <1>1, PTL DEF Spec

(* Every variable of the compiler keeps its type (cc.h Ctx): in particular *)
(* register_allocated_count stays within 1..REGISTERS and no address or    *)
(* index leaves the naturals.                                              *)
THEOREM TypeCorrect == Spec => []TypeOK
PROOF
<1>1. IInv => TypeOK
  <2> SUFFICES ASSUME IInv PROVE TypeOK
    OBVIOUS
  <2>1. registers \in [0..REGISTERS -> BOOLEAN]
    <3>1. \A r \in 0..REGISTERS : (r \in 1..register_allocated_count - 1) \in BOOLEAN
      OBVIOUS
    <3>2. registers = [r \in 0..REGISTERS |-> r \in 1..register_allocated_count - 1]
      BY DEF IInv, Stacked, Marked
    <3> QED BY <3>1, <3>2, Zenon
  <2> QED BY <2>1 DEF TypeOK, IInv, Input, Code, Pool, Functions, Stacked
<1> QED BY Invariance, <1>1, PTL

(* The asserts of Ctx_free_register (cc.c:62-64) never fail, whatever the  *)
(* program and however deep the expression.                                *)
THEOREM FreeNeverFails == Spec => []AssertsHold
PROOF
<1>1. IInv => AssertsHold
  <2> SUFFICES ASSUME IInv, stack # <<>> PROVE FreeAllowed(Top.regs)
    BY DEF AssertsHold
  <2> DEFINE count == register_allocated_count
  <2>1. Top \in ActivationType /\ Len(stack) \in Nat \ {0}
    BY TopSound DEF IInv
  <2>2. /\ Top.base \in Nat /\ Len(Top.regs) \in Nat /\ Top.base >= 1
        /\ count = Top.base + Len(Top.regs) /\ Span(Top) /\ count \in 1..REGISTERS
    BY <2>1, ActivationFields DEF IInv, Stacked, Ordered, Chained, Reaching, End, Top
  <2> SUFFICES ASSUME NEW k \in 1..Len(Top.regs)
               PROVE  /\ Top.regs[k] < count - (Len(Top.regs) - k)
                      /\ registers[Top.regs[k]]
                      /\ \A j \in k + 1..Len(Top.regs) : Top.regs[j] # Top.regs[k]
    BY DEF FreeAllowed
  <2>3. Top.regs[k] = Top.base + k - 1
    BY <2>2 DEF Span
  <2>4. Top.regs[k] \in 1..count - 1 /\ Top.regs[k] \in 0..REGISTERS
    BY <2>2, <2>3, SizeAssumption
  <2>5. registers[Top.regs[k]]
    BY <2>4 DEF IInv, Stacked, Marked
  <2> QED BY <2>2, <2>3, <2>5 DEF Span
<1> QED BY Invariance, <1>1, PTL

(* A register is marked as taken exactly while an activation holds it, and *)
(* no two activations hold the same one.                                   *)
THEOREM RegistersHaveOneOwner == Spec => []RegistersOwned
PROOF
<1>1. IInv => RegistersOwned
  <2> SUFFICES ASSUME IInv PROVE RegistersOwned
    OBVIOUS
  <2> DEFINE count == register_allocated_count
  <2>1. ASSUME NEW d \in 1..Len(stack)
        PROVE /\ stack[d].base \in Nat /\ stack[d].base >= 1
              /\ Len(stack[d].regs) \in Nat
              /\ \A r \in Int : Holds(d, r) <=> r \in stack[d].base..End(stack[d]) - 1
              /\ End(stack[d]) <= count
    <3>1. /\ stack[d].base \in Nat /\ Len(stack[d].regs) \in Nat
          /\ End(stack[d]) = stack[d].base + Len(stack[d].regs)
          /\ stack[d].base >= 1 /\ Span(stack[d])
      BY ActivationFields DEF IInv, Stacked, Ordered, Chained, End
    <3>2. ASSUME NEW r \in Int
          PROVE Holds(d, r) <=> r \in stack[d].base..End(stack[d]) - 1
      <4>1. Holds(d, r) => r \in stack[d].base..End(stack[d]) - 1
        BY <3>1 DEF Holds, Span
      <4>2. ASSUME r \in stack[d].base..End(stack[d]) - 1 PROVE Holds(d, r)
        <5>1. r - stack[d].base + 1 \in 1..Len(stack[d].regs)
          BY <3>1, <4>2
        <5>2. stack[d].regs[r - stack[d].base + 1] = r
          BY <3>1, <5>1 DEF Span
        <5> QED BY <5>1, <5>2 DEF Holds
      <4> QED BY <4>1, <4>2
    <3>3. End(stack[d]) <= count
      BY BelowCount DEF IInv, Stacked
    <3> QED BY <3>1, <3>2, <3>3
  <2>2. count \in 1..REGISTERS /\ REGISTERS \in Nat
    BY SizeAssumption DEF IInv, Stacked
  <2>3. ASSUME NEW r \in 0..REGISTERS
        PROVE registers[r] <=> \E d \in 1..Len(stack) : Holds(d, r)
    <3>1. registers[r] <=> r \in 1..count - 1
      BY DEF IInv, Stacked, Marked
    <3>2. ASSUME r \in 1..count - 1 PROVE \E d \in 1..Len(stack) : Holds(d, r)
      <4>1. PICK d \in 1..Len(stack) : r \in stack[d].base..End(stack[d]) - 1
        BY <3>2, BelowCount DEF IInv, Stacked
      <4> QED BY <2>1, <4>1
    <3>3. ASSUME NEW d \in 1..Len(stack), Holds(d, r) PROVE r \in 1..count - 1
      <4>1. r \in stack[d].base..End(stack[d]) - 1
        BY <2>1, <3>3
      <4> QED BY <2>1, <2>2, <4>1 DEF End
    <3> QED BY <3>1, <3>2, <3>3
  <2>4. ASSUME NEW d \in 1..Len(stack), NEW e \in 1..Len(stack), d # e,
               NEW r \in 0..REGISTERS
        PROVE ~(Holds(d, r) /\ Holds(e, r))
    <3>1. CASE d < e
      <4>1. End(stack[d]) <= stack[e].base
        BY <3>1 DEF IInv, Stacked, Ordered, Separate
      <4> QED BY <2>1, <4>1 DEF End
    <3>2. CASE e < d
      <4>1. End(stack[e]) <= stack[d].base
        BY <3>2 DEF IInv, Stacked, Ordered, Separate
      <4> QED BY <2>1, <4>1 DEF End
    <3> QED BY <2>4, <3>1, <3>2
  <2>5. ~registers[0]
    BY <2>2 DEF IInv, Stacked, Marked
  <2> QED BY <2>3, <2>4, <2>5 DEF RegistersOwned
<1> QED BY Invariance, <1>1, PTL

(* compile() returns with the registers it was entered with.               *)
THEOREM RegistersBalanced == Spec => Balanced
PROOF
<1>1. IInv /\ [Next]_ccVars =>
        [Len(stack') < Len(stack) => register_allocated_count' = Top.base]_ccVars
  BY NextStep, StutterStep DEF Step, Returning
<1> QED BY Invariance, <1>1, PTL DEF Spec, Balanced

(* No value an outer expression keeps in a register is overwritten by the  *)
(* code of an expression inside it.                                        *)
THEOREM NothingClobbered == Spec => NoClobber
PROOF
<1>1. IInv /\ [Next]_ccVars =>
        [\A a \in Len(bytecode) + 1..Len(bytecode') :
            bytecode'[a].op = "STORE" =>
                \A d \in 1..Len(stack) : ~Holds(d, bytecode'[a].arg)]_ccVars
  BY NextStep, StutterStep DEF Step, Storeless
<1> QED BY Invariance, <1>1, PTL DEF Spec, NoClobber
=============================================================================
