----------------------------- MODULE CcCodeProofs -----------------------------
(***************************************************************************)
(* The code the compiler generates, proved for every program: where its    *)
(* jumps land, what its calls enter and what its function bodies contain.  *)
(*                                                                         *)
(* None of it is inductive by itself.  What an unfinished program looks    *)
(* like is: the jumps that still await a target belong to activations of   *)
(* compile(), and lie further ahead the further in the activation is; the  *)
(* bodies of the functions completed so far nest, and no jump with a       *)
(* target crosses the edge of one of them, nor the jump around a function  *)
(* that is still open.                                                     *)
(***************************************************************************)
EXTENDS CcProofs

(* instructions by address *)
Op(code, x) == code[x + 1].op
To(code, x) == code[x + 1].arg
Jump(code, x) == Op(code, x) \in {"JMP", "JMPF"}

(* a function whose body is being compiled, and how many parameters it has *)
Opened(a) ==
    a.n.kind = "N_BUILTIN" /\ Construct(a.n.tok) = "function" /\ a.i > 0
Arity(a) == Len(Params(a.n))

(* the jumps an activation has yet to give a target *)
Unresolved(a) ==
    ({a.slots[k] : k \in 1..Len(a.slots)} \ {NoSlot})
      \cup (IF Opened(a) \/ a.phase = "body" THEN {a.mark} ELSE {})
Awaits(s, x) == \E d \in 1..Len(s) : x \in Unresolved(s[d])

(* a completed function: the address of its JMP, the JMP's target, and how *)
(* many parameters it loads                                                *)
Body == [start : Nat, end : Nat, params : Nat]
In(b, x) == b.start < x /\ x < b.end
Framed(code, b) ==
    /\ b.start + 2 <= b.end /\ b.end <= Len(code)
    /\ Op(code, b.start) = "JMP" /\ To(code, b.start) = b.end
    /\ Op(code, b.end - 1) = "LEAVE"

-----------------------------------------------------------------------------
(* The jumps and bodies of code generated so far, with activations s and   *)
(* completed bodies B.                                                     *)
Pending(code, s) ==
    /\ \A d \in 1..Len(s) : \A x \in Unresolved(s[d]) :
          x \in 0..Len(code) - 1 /\ Jump(code, x)
    /\ \A d \in 1..Len(s) : Opened(s[d]) => Op(code, s[d].mark) = "JMP"
    /\ \A d, e \in 1..Len(s) : d < e =>
          \A x \in Unresolved(s[d]), y \in Unresolved(s[e]) : x < y
Landed(code, s) ==
    \A x \in 0..Len(code) - 1 : Jump(code, x) =>
        Awaits(s, x) \/ To(code, x) \in x + 1..Len(code)
Uncrossed(code, s) ==
    \A d \in 1..Len(s) : Opened(s[d]) =>
        \A x \in 0..s[d].mark - 1 : Jump(code, x) =>
            Awaits(s, x) \/ To(code, x) <= s[d].mark
Closed(code, s, B) ==
    /\ B \subseteq Body
    /\ \A b \in B : Framed(code, b)
    /\ \A b \in B : \A x \in b.start..b.end - 1 : ~Awaits(s, x)
Sealed(code, s, B) ==
    \A b \in B : \A x \in 0..Len(code) - 1 : Jump(code, x) =>
        Awaits(s, x) \/ (In(b, x) <=> In(b, To(code, x)))
Laminar(B) ==
    \A b, c \in B : /\ b.start = c.start => b = c
                    /\ b.start < c.start => b.end <= c.start \/ c.end < b.end
Leaving(code, B) ==
    \A x \in 0..Len(code) - 1 : Op(code, x) = "LEAVE" => \E b \in B : b.end = x + 1

Layout(code, s, B) ==
    /\ Pending(code, s) /\ Landed(code, s) /\ Uncrossed(code, s)
    /\ Closed(code, s, B) /\ Sealed(code, s, B) /\ Laminar(B) /\ Leaving(code, B)

(* The slots of a match: one for each case it is done with.  It is done    *)
(* with all when it is in none. *)
Slotted(a) ==
    /\ a.slots # <<>> => a.n.kind = "N_BUILTIN" /\ Construct(a.n.tok) = "match"
    /\ a.n.kind = "N_BUILTIN" /\ Construct(a.n.tok) = "match" => Len(a.slots) = a.i
    /\ \A k \in 1..Len(a.slots) : a.slots[k] # NoSlot => k < Len(a.n.ch)
    /\ a.phase # "start" => a.i < Len(a.n.ch)

(* A function starts by loading its parameters, and nothing else loads.    *)
Loads(code, start, params, x) ==
    /\ x \in start + 1..start + 2 * params
    /\ To(code, x) <= params
Header0(code, start, params) ==
    \A x \in start + 1..start + 2 * params : Op(code, x) \in {"LOAD", "VAR"}
Headers(code, s, B) ==
    /\ \A b \in B : b.start + 2 * b.params + 2 <= b.end /\ Header0(code, b.start, b.params)
    /\ \A d \in 1..Len(s) : Opened(s[d]) =>
          /\ Arity(s[d]) \in Nat /\ Len(s[d].n.ch) > 2
          /\ s[d].mark + 2 * Arity(s[d]) + 1 <= Len(code)
          /\ Header0(code, s[d].mark, Arity(s[d]))
    /\ \A x \in 0..Len(code) - 1 : Op(code, x) = "LOAD" =>
          \/ \E b \in B : Loads(code, b.start, b.params, x)
          \/ \E d \in 1..Len(s) : Opened(s[d]) /\ Loads(code, s[d].mark, Arity(s[d]), x)

(* hash_to_function names completed bodies, and the open ones.  A call     *)
(* whose arguments are being compiled goes to a completed one.             *)
Calling(a) == a.n.kind = "N_CALL" /\ a.i > 0
Settled(a, tbl) ==
    /\ Opened(a) => LET f == tbl[FnHash[a.n.ch[1].tok]]
                    IN  /\ f.size = 0 /\ f.bytecode_index = a.mark
                        /\ f.argument_count = Arity(a)
    /\ Calling(a) => LET f == tbl[FnHash[a.n.tok]]
                     IN  f.size > 0 /\ f.argument_count = Len(a.n.ch)
Filled(tbl, B) ==
    \A h \in 0..MAX_BUILTIN_SIZE - 1 : tbl[h].size > 0 =>
        [start |-> tbl[h].bytecode_index, end |-> tbl[h].bytecode_index + tbl[h].size,
         params |-> tbl[h].argument_count] \in B

(* Every call enters a body completed before it, with its arguments in     *)
(* registers.                                                              *)
Enters(code, B) ==
    \A x \in 0..Len(code) - 1 : Op(code, x) = "CALL" =>
        \E b \in B : /\ b.start = To(code, x) /\ b.end <= x
                     /\ b.params <= REGISTERS /\ Framed(code, b)

Alive == status \in {"compiling", "done"}

Generated(B) ==
    Alive => /\ Layout(bytecode, stack, B) /\ Headers(bytecode, stack, B)
             /\ \A d \in 1..Len(stack) : Slotted(stack[d])
Linked(B) ==
    /\ B \subseteq Body /\ Enters(bytecode, B)
    /\ Alive => /\ Filled(hash_to_function, B)
                /\ \A d \in 1..Len(stack) : Settled(stack[d], hash_to_function)

-----------------------------------------------------------------------------
(* Layout under the things compile() does to its stack and its code        *)

(* An open function awaits the target of its jump. *)
LEMMA OpenedAwaits == ASSUME NEW a, Opened(a) PROVE a.mark \in Unresolved(a)
  BY DEF Unresolved

(* What an activation awaits are addresses. *)
LEMMA UnresolvedType == ASSUME NEW a \in ActivationType PROVE Unresolved(a) \subseteq Nat
PROOF
<1>1. a.mark \in Nat /\ a.slots \in Seq(Nat \cup {NoSlot})
  BY ActivationFields
<1>2. \A k \in 1..Len(a.slots) : a.slots[k] \in Nat \cup {NoSlot}
  BY <1>1
<1> QED BY <1>1, <1>2 DEF Unresolved

(* b awaits what a does, for the same function if it is one *)
Same(a, b) ==
    /\ Unresolved(a) = Unresolved(b)
    /\ Opened(a) <=> Opened(b)
    /\ Opened(a) => a.mark = b.mark /\ a.n = b.n
Alike(s, t) ==
    \A d \in 1..Len(s) :
        Unresolved(s[d]) = {} \/ (d \in 1..Len(t) /\ Same(s[d], t[d]))

LEMMA SameSelf == ASSUME NEW a, NEW b, a = b PROVE Same(a, b) /\ Same(b, a)
  BY DEF Same

(* Activations that await nothing come and go. *)
LEMMA Restacked ==
    ASSUME NEW code, NEW s, NEW t, NEW B,
           Layout(code, s, B), Alike(s, t), Alike(t, s)
    PROVE  Layout(code, t, B)
PROOF
<1>1. \A x : Awaits(s, x) <=> Awaits(t, x)
  BY DEF Alike, Same, Awaits
<1>2. ASSUME NEW d \in 1..Len(t), NEW x \in Unresolved(t[d])
      PROVE d \in 1..Len(s) /\ x \in Unresolved(s[d]) /\ Same(s[d], t[d])
  BY <1>2 DEF Alike, Same
<1>3. ASSUME NEW d \in 1..Len(t), Opened(t[d])
      PROVE d \in 1..Len(s) /\ Opened(s[d]) /\ s[d].mark = t[d].mark
  <2>1. t[d].mark \in Unresolved(t[d])
    BY <1>3, OpenedAwaits
  <2> QED BY <1>2, <1>3, <2>1 DEF Same
<1>4. Pending(code, t)
  <2>1. \A d \in 1..Len(t) : \A x \in Unresolved(t[d]) :
          x \in 0..Len(code) - 1 /\ Jump(code, x)
    BY <1>2 DEF Layout, Pending
  <2>2. \A d \in 1..Len(t) : Opened(t[d]) => Op(code, t[d].mark) = "JMP"
    BY <1>3 DEF Layout, Pending
  <2>3. ASSUME NEW d \in 1..Len(t), NEW e \in 1..Len(t), d < e,
               NEW x \in Unresolved(t[d]), NEW y \in Unresolved(t[e])
        PROVE  x < y
    BY <1>2, <2>3 DEF Layout, Pending
  <2> QED BY <2>1, <2>2, <2>3 DEF Pending
<1>5. Landed(code, t)
  BY <1>1 DEF Layout, Landed
<1>6. Uncrossed(code, t)
  BY <1>1, <1>3 DEF Layout, Uncrossed
<1>7. Closed(code, t, B)
  BY <1>1 DEF Layout, Closed
<1>8. Sealed(code, t, B)
  BY <1>1 DEF Layout, Sealed
<1> QED BY <1>4, <1>5, <1>6, <1>7, <1>8 DEF Layout

(* Code grows by instructions that neither jump nor leave. *)
LEMMA Extended ==
    ASSUME NEW code \in Seq(InstrType), NEW more \in Seq(InstrType),
           NEW s \in Seq(ActivationType), NEW B,
           Layout(code, s, B), Len(code) <= Len(more),
           \A x \in 0..Len(code) - 1 : more[x + 1] = code[x + 1],
           \A x \in Len(code)..Len(more) - 1 : ~Jump(more, x) /\ Op(more, x) # "LEAVE"
    PROVE  Layout(more, s, B)
PROOF
<1> DEFINE size == Len(code)
<1>1. size \in Nat /\ Len(more) \in Nat
  OBVIOUS
<1>2. ASSUME NEW x \in 0..size - 1
      PROVE /\ x \in 0..Len(more) - 1 /\ Op(more, x) = Op(code, x)
            /\ To(more, x) = To(code, x) /\ (Jump(more, x) <=> Jump(code, x))
  <2>1. more[x + 1] = code[x + 1]
    OBVIOUS
  <2>2. x \in 0..Len(more) - 1
    BY <1>1
  <2> QED BY <2>1, <2>2 DEF Op, To, Jump
<1>3. ASSUME NEW x \in 0..Len(more) - 1, Jump(more, x) \/ Op(more, x) = "LEAVE"
      PROVE x \in 0..size - 1
  BY <1>1, <1>3
<1>4. Pending(more, s)
  <2>1. ASSUME NEW d \in 1..Len(s), NEW x \in Unresolved(s[d])
        PROVE x \in 0..Len(more) - 1 /\ Jump(more, x)
    BY <1>2 DEF Layout, Pending
  <2>2. ASSUME NEW d \in 1..Len(s), Opened(s[d]) PROVE Op(more, s[d].mark) = "JMP"
    <3>1. s[d].mark \in 0..size - 1
      BY <2>2, OpenedAwaits DEF Layout, Pending
    <3> QED BY <1>2, <2>2, <3>1 DEF Layout, Pending
  <2> QED BY <2>1, <2>2 DEF Layout, Pending
<1>5. Landed(more, s)
  BY <1>1, <1>2, <1>3 DEF Layout, Landed
<1>6. Uncrossed(more, s)
  <2> SUFFICES ASSUME NEW d \in 1..Len(s), Opened(s[d]),
                      NEW x \in 0..s[d].mark - 1, Jump(more, x)
               PROVE  Awaits(s, x) \/ To(more, x) <= s[d].mark
    BY DEF Uncrossed
  <2>1. s[d].mark \in 0..size - 1
    BY OpenedAwaits DEF Layout, Pending
  <2>2. x \in 0..size - 1
    BY <1>1, <2>1
  <2> QED BY <1>2, <2>2 DEF Layout, Uncrossed
<1>7. Closed(more, s, B)
  <2>1. B \subseteq Body /\ \A b \in B : \A x \in b.start..b.end - 1 : ~Awaits(s, x)
    BY DEF Layout, Closed
  <2>2. ASSUME NEW b \in B PROVE Framed(more, b)
    <3>1. Framed(code, b) /\ b.start \in Nat /\ b.end \in Nat
      BY <2>1 DEF Layout, Closed, Body
    <3>2. b.start \in 0..size - 1 /\ b.end - 1 \in 0..size - 1 /\ b.end <= Len(more)
      BY <1>1, <3>1 DEF Framed
    <3> QED BY <1>2, <3>1, <3>2 DEF Framed
  <2> QED BY <2>1, <2>2 DEF Closed
<1>8. Sealed(more, s, B)
  BY <1>2, <1>3 DEF Layout, Sealed
<1>9. Leaving(more, B)
  BY <1>2, <1>3 DEF Layout, Leaving
<1> QED BY <1>4, <1>5, <1>6, <1>7, <1>8, <1>9 DEF Layout

(* s with another innermost activation *)
Replaced(s, t) ==
    /\ s # <<>> /\ Len(t) = Len(s)
    /\ \A d \in 1..Len(s) - 1 : t[d] = s[d]

(* The innermost activation emits a jump whose target it does not know. *)
LEMMA Jumped ==
    ASSUME NEW code \in Seq(InstrType), NEW more \in Seq(InstrType),
           NEW s \in Seq(ActivationType), NEW t \in Seq(ActivationType), NEW B,
           Layout(code, s, B), Len(more) = Len(code) + 1,
           \A x \in 0..Len(code) - 1 : more[x + 1] = code[x + 1],
           Jump(more, Len(code)), Replaced(s, t),
           Unresolved(t[Len(s)]) = Unresolved(s[Len(s)]) \cup {Len(code)},
           Opened(t[Len(s)]) => /\ t[Len(s)].mark = Len(code)
                                /\ Op(more, Len(code)) = "JMP"
    PROVE  Layout(more, t, B)
PROOF
<1> DEFINE size == Len(code)
           n == Len(s)
<1>1. size \in Nat /\ n \in Nat \ {0} /\ Len(more) = size + 1 /\ Len(t) = n
      /\ \A d \in 1..n - 1 : t[d] = s[d]
  BY DEF Replaced
<1>2. ASSUME NEW x \in 0..size - 1
      PROVE /\ x \in 0..Len(more) - 1 /\ Op(more, x) = Op(code, x)
            /\ To(more, x) = To(code, x) /\ (Jump(more, x) <=> Jump(code, x))
  <2>1. more[x + 1] = code[x + 1]
    OBVIOUS
  <2>2. x \in 0..Len(more) - 1
    BY <1>1
  <2> QED BY <2>1, <2>2 DEF Op, To, Jump
<1>3. Jump(more, size) /\ Op(more, size) # "LEAVE"
  BY DEF Jump
<1>4. \A x : Awaits(t, x) <=> Awaits(s, x) \/ x = size
  <2>1. ASSUME NEW x, Awaits(t, x) PROVE Awaits(s, x) \/ x = size
    <3>1. PICK d \in 1..n : x \in Unresolved(t[d])
      BY <1>1, <2>1 DEF Awaits
    <3>2. CASE d = n
      BY <1>1, <3>1, <3>2 DEF Awaits
    <3>3. CASE d \in 1..n - 1
      BY <1>1, <3>1, <3>3 DEF Awaits
    <3> QED BY <1>1, <3>2, <3>3
  <2>2. ASSUME NEW x, Awaits(s, x) \/ x = size PROVE Awaits(t, x)
    <3>1. CASE x = size
      BY <1>1, <3>1 DEF Awaits
    <3>2. CASE Awaits(s, x)
      <4>1. PICK d \in 1..n : x \in Unresolved(s[d])
        BY <1>1, <3>2 DEF Awaits
      <4>2. x \in Unresolved(t[d])
        BY <1>1, <4>1
      <4> QED BY <1>1, <4>2 DEF Awaits
    <3> QED BY <2>2, <3>1, <3>2
  <2> QED BY <2>1, <2>2
<1>5. ASSUME NEW d \in 1..n, NEW x \in Unresolved(t[d])
      PROVE (d = n /\ x = size) \/ (x \in Unresolved(s[d]) /\ x \in 0..size - 1)
  <2>1. x \in Unresolved(s[d]) \/ (d = n /\ x = size)
    BY <1>1, <1>5
  <2>2. \A y \in Unresolved(s[d]) : y \in 0..size - 1
    BY DEF Layout, Pending
  <2> QED BY <2>1, <2>2
<1>6. Pending(more, t)
  <2>1. ASSUME NEW d \in 1..n, NEW x \in Unresolved(t[d])
        PROVE x \in 0..Len(more) - 1 /\ Jump(more, x)
    BY <1>1, <1>2, <1>3, <1>5, <2>1 DEF Layout, Pending
  <2>2. ASSUME NEW d \in 1..n, Opened(t[d]) PROVE Op(more, t[d].mark) = "JMP"
    <3>1. CASE d = n
      BY <2>2, <3>1
    <3>2. CASE d # n
      <4>1. t[d] = s[d] /\ s[d].mark \in 0..size - 1
        BY <1>1, <2>2, <3>2, OpenedAwaits DEF Layout, Pending
      <4> QED BY <1>1, <1>2, <2>2, <4>1 DEF Layout, Pending
    <3> QED BY <3>1, <3>2
  <2>3. ASSUME NEW d \in 1..n, NEW e \in 1..n, d < e,
               NEW x \in Unresolved(t[d]), NEW y \in Unresolved(t[e])
        PROVE  x < y
    <3>1. x \in Unresolved(s[d]) /\ x \in 0..size - 1
      BY <1>1, <1>5, <2>3
    <3>2. CASE y = size
      BY <1>1, <3>1, <3>2
    <3>3. CASE y \in Unresolved(s[e])
      BY <1>1, <2>3, <3>1, <3>3 DEF Layout, Pending
    <3> QED BY <1>5, <3>2, <3>3
  <2> QED BY <1>1, <2>1, <2>2, <2>3 DEF Pending
<1>7. Landed(more, t)
  <2> SUFFICES ASSUME NEW x \in 0..size, Jump(more, x)
               PROVE  Awaits(t, x) \/ To(more, x) \in x + 1..size + 1
    BY <1>1 DEF Landed
  <2>1. CASE x = size
    BY <1>4, <2>1
  <2>2. CASE x \in 0..size - 1
    <3>1. Awaits(s, x) \/ To(code, x) \in x + 1..size
      BY <1>2, <2>2 DEF Layout, Landed
    <3> QED BY <1>1, <1>2, <1>4, <2>2, <3>1
  <2> QED BY <1>1, <2>1, <2>2
<1>8. Uncrossed(more, t)
  <2> SUFFICES ASSUME NEW d \in 1..n, Opened(t[d]),
                      NEW x \in 0..t[d].mark - 1, Jump(more, x)
               PROVE  Awaits(t, x) \/ To(more, x) <= t[d].mark
    BY <1>1 DEF Uncrossed
  <2>1. CASE d = n
    <3>1. t[d].mark = size /\ x \in 0..size - 1
      BY <2>1
    <3>2. Awaits(s, x) \/ To(code, x) \in x + 1..size
      BY <1>2, <3>1 DEF Layout, Landed
    <3> QED BY <1>1, <1>2, <1>4, <3>1, <3>2
  <2>2. CASE d # n
    <3>1. t[d] = s[d] /\ d \in 1..n /\ s[d].mark \in 0..size - 1
      BY <1>1, <2>2, OpenedAwaits DEF Layout, Pending
    <3>2. x \in 0..size - 1
      BY <1>1, <3>1
    <3> QED BY <1>1, <1>2, <1>4, <3>1, <3>2 DEF Layout, Uncrossed
  <2> QED BY <2>1, <2>2
<1>9. Closed(more, t, B)
  <2>1. B \subseteq Body
    BY DEF Layout, Closed
  <2>2. ASSUME NEW b \in B
        PROVE /\ Framed(more, b)
              /\ \A x \in b.start..b.end - 1 : ~Awaits(t, x)
    <3>1. Framed(code, b) /\ b.start \in Nat /\ b.end \in Nat
      BY <2>1 DEF Layout, Closed, Body
    <3>2. b.start \in 0..size - 1 /\ b.end - 1 \in 0..size - 1 /\ b.end <= Len(more)
      BY <1>1, <3>1 DEF Framed
    <3>3. Framed(more, b)
      BY <1>2, <3>1, <3>2 DEF Framed
    <3> QED BY <1>1, <1>4, <3>1, <3>2, <3>3 DEF Layout, Closed
  <2> QED BY <2>1, <2>2 DEF Closed
<1>10. Sealed(more, t, B)
  <2> SUFFICES ASSUME NEW b \in B, NEW x \in 0..size, Jump(more, x)
               PROVE  Awaits(t, x) \/ (In(b, x) <=> In(b, To(more, x)))
    BY <1>1 DEF Sealed
  <2>1. CASE x = size
    BY <1>4, <2>1
  <2>2. CASE x \in 0..size - 1
    <3>1. Awaits(s, x) \/ (In(b, x) <=> In(b, To(code, x)))
      BY <1>2, <2>2 DEF Layout, Sealed
    <3> QED BY <1>2, <1>4, <2>2, <3>1
  <2> QED BY <1>1, <2>1, <2>2
<1>11. Leaving(more, B)
  <2> SUFFICES ASSUME NEW x \in 0..size, Op(more, x) = "LEAVE"
               PROVE  \E b \in B : b.end = x + 1
    BY <1>1 DEF Leaving
  <2>1. x \in 0..size - 1
    BY <1>1, <1>3
  <2> QED BY <1>2, <2>1 DEF Layout, Leaving
<1> QED BY <1>6, <1>7, <1>8, <1>9, <1>10, <1>11 DEF Layout

(* The innermost activation gives some of its jumps the end of the code as *)
(* their target.                                                           *)
LEMMA Resolved ==
    ASSUME NEW code \in Seq(InstrType), NEW more \in Seq(InstrType),
           NEW s \in Seq(ActivationType), NEW t \in Seq(ActivationType), NEW B,
           Layout(code, s, B), Len(more) = Len(code), Replaced(s, t),
           NEW X, X \subseteq Unresolved(s[Len(s)]),
           \A x \in 0..Len(code) - 1 :
              /\ Op(more, x) = Op(code, x)
              /\ To(more, x) = IF x \in X THEN Len(code) ELSE To(code, x),
           Unresolved(t[Len(s)]) \subseteq Unresolved(s[Len(s)]),
           Unresolved(s[Len(s)]) \ X \subseteq Unresolved(t[Len(s)]),
           ~Opened(t[Len(s)])
    PROVE  Layout(more, t, B)
PROOF
<1> DEFINE size == Len(code)
           n == Len(s)
<1>1. size \in Nat /\ n \in Nat \ {0} /\ Len(more) = size /\ Len(t) = n
      /\ \A d \in 1..n - 1 : t[d] = s[d]
  BY DEF Replaced
<1>2. ASSUME NEW x \in 0..size - 1
      PROVE Op(more, x) = Op(code, x) /\ (Jump(more, x) <=> Jump(code, x))
  BY DEF Jump
<1>3. ASSUME NEW d \in 1..n, NEW x \in Unresolved(t[d]) PROVE x \in Unresolved(s[d])
  BY <1>1, <1>3
<1>4. \A x : Awaits(t, x) => Awaits(s, x)
  BY <1>1, <1>3 DEF Awaits
<1>5. ASSUME NEW x, Awaits(s, x) PROVE Awaits(t, x) \/ x \in X
  <2>1. PICK d \in 1..n : x \in Unresolved(s[d])
    BY <1>5 DEF Awaits
  <2>2. x \in Unresolved(t[d]) \/ x \in X
    BY <1>1, <2>1
  <2> QED BY <1>1, <2>2 DEF Awaits
<1>6. ASSUME NEW x \in X PROVE Awaits(s, x) /\ x \in 0..size - 1
  <2>1. x \in Unresolved(s[n]) /\ n \in 1..n
    BY <1>1
  <2>2. Awaits(s, x)
    BY <2>1 DEF Awaits
  <2> QED BY <2>1, <2>2 DEF Layout, Pending
<1>7. Pending(more, t)
  <2>1. ASSUME NEW d \in 1..n, NEW x \in Unresolved(t[d])
        PROVE x \in 0..size - 1 /\ Jump(more, x)
    <3>1. x \in 0..size - 1 /\ Jump(code, x)
      BY <1>3, <2>1 DEF Layout, Pending
    <3> QED BY <1>2, <3>1
  <2>2. ASSUME NEW d \in 1..n, Opened(t[d]) PROVE Op(more, t[d].mark) = "JMP"
    <3>1. t[d] = s[d] /\ s[d].mark \in 0..size - 1
      BY <1>1, <2>2, OpenedAwaits DEF Layout, Pending
    <3> QED BY <1>2, <2>2, <3>1 DEF Layout, Pending
  <2>3. ASSUME NEW d \in 1..n, NEW e \in 1..n, d < e,
               NEW x \in Unresolved(t[d]), NEW y \in Unresolved(t[e])
        PROVE  x < y
    BY <1>3, <2>3 DEF Layout, Pending
  <2> QED BY <1>1, <2>1, <2>2, <2>3 DEF Pending
<1>8. Landed(more, t)
  <2> SUFFICES ASSUME NEW x \in 0..size - 1, Jump(more, x)
               PROVE  Awaits(t, x) \/ To(more, x) \in x + 1..size
    BY <1>1 DEF Landed
  <2>1. CASE x \in X
    <3>1. To(more, x) = size
      BY <2>1
    <3> QED BY <1>1, <3>1
  <2>2. CASE x \notin X
    <3>1. To(more, x) = To(code, x)
      BY <2>2
    <3>2. Awaits(s, x) \/ To(code, x) \in x + 1..size
      BY <1>2 DEF Layout, Landed
    <3> QED BY <1>5, <2>2, <3>1, <3>2
  <2> QED BY <2>1, <2>2
<1>9. Uncrossed(more, t)
  <2> SUFFICES ASSUME NEW d \in 1..n, Opened(t[d]),
                      NEW x \in 0..t[d].mark - 1, Jump(more, x)
               PROVE  Awaits(t, x) \/ To(more, x) <= t[d].mark
    BY <1>1 DEF Uncrossed
  <2>1. d # n /\ t[d] = s[d] /\ s[d].mark \in Unresolved(s[d]) /\ s[d].mark \in 0..size - 1
    BY <1>1, OpenedAwaits DEF Layout, Pending
  <2>2. x \in 0..size - 1
    BY <1>1, <2>1
  <2>3. x \notin X
    <3>1. \A y \in Unresolved(s[n]) : s[d].mark < y
      BY <1>1, <2>1 DEF Layout, Pending
    <3> QED BY <1>1, <1>6, <2>1, <3>1
  <2>4. Awaits(s, x) \/ To(code, x) <= s[d].mark
    BY <1>2, <2>1, <2>2 DEF Layout, Uncrossed
  <2>5. To(more, x) = To(code, x)
    BY <2>2, <2>3
  <2> QED BY <1>5, <2>1, <2>3, <2>4, <2>5
<1>10. ASSUME NEW b \in B
       PROVE /\ Framed(code, b) /\ b.start \in Nat /\ b.end \in Nat
             /\ b.start + 2 <= b.end /\ b.end <= size
             /\ \A x \in X : x < b.start \/ b.end <= x
  <2>1. /\ Framed(code, b) /\ b \in Body /\ \A x \in b.start..b.end - 1 : ~Awaits(s, x)
    BY DEF Layout, Closed
  <2>2. /\ b.start \in Nat /\ b.end \in Nat /\ b.start + 2 <= b.end /\ b.end <= size
    BY <2>1 DEF Body, Framed
  <2>3. ASSUME NEW x \in X PROVE x < b.start \/ b.end <= x
    BY <1>1, <1>6, <2>1, <2>2
  <2> QED BY <2>1, <2>2, <2>3
<1>11. Closed(more, t, B)
  <2>1. B \subseteq Body
    BY DEF Layout, Closed
  <2>2. ASSUME NEW b \in B PROVE Framed(more, b)
    <3>1. Framed(code, b) /\ b.start \in 0..size - 1 /\ b.end - 1 \in 0..size - 1
      BY <1>1, <1>10
    <3>2. b.start \notin X
      <4>1. ASSUME b.start \in X PROVE FALSE
        <5>1. b.start < b.start \/ b.end <= b.start
          BY <1>10, <4>1
        <5>2. b.start \in Nat /\ b.end \in Nat /\ b.start + 2 <= b.end
          BY <1>10
        <5> QED BY <5>1, <5>2
      <4> QED BY <4>1
    <3>3. /\ Op(more, b.start) = Op(code, b.start) /\ To(more, b.start) = To(code, b.start)
          /\ Op(more, b.end - 1) = Op(code, b.end - 1)
      BY <3>1, <3>2
    <3> QED BY <1>1, <3>1, <3>3 DEF Framed
  <2>3. \A b \in B : \A x \in b.start..b.end - 1 : ~Awaits(t, x)
    BY <1>4 DEF Layout, Closed
  <2> QED BY <2>1, <2>2, <2>3 DEF Closed
<1>12. Sealed(more, t, B)
  <2> SUFFICES ASSUME NEW b \in B, NEW x \in 0..size - 1, Jump(more, x)
               PROVE  Awaits(t, x) \/ (In(b, x) <=> In(b, To(more, x)))
    BY <1>1 DEF Sealed
  <2>1. CASE x \in X
    <3>1. To(more, x) = size
      BY <2>1
    <3>2. b.end <= size /\ (x < b.start \/ b.end <= x)
      BY <1>10, <2>1
    <3>3. b.start \in Nat /\ b.end \in Nat
      BY <1>10
    <3>4. ~In(b, size) /\ ~In(b, x)
      BY <1>1, <3>2, <3>3 DEF In
    <3> QED BY <3>1, <3>4
  <2>2. CASE x \notin X
    <3>1. To(more, x) = To(code, x)
      BY <2>2
    <3>2. Awaits(s, x) \/ (In(b, x) <=> In(b, To(code, x)))
      BY <1>2 DEF Layout, Sealed
    <3> QED BY <1>5, <2>2, <3>1, <3>2
  <2> QED BY <2>1, <2>2
<1>13. Leaving(more, B)
  BY <1>1, <1>2 DEF Layout, Leaving
<1> QED BY <1>7, <1>8, <1>9, <1>11, <1>12, <1>13 DEF Layout

(* The innermost activation's function is complete: its LEAVE is emitted   *)
(* and the jump around it gets its target.                                 *)
LEMMA ClosedOff ==
    ASSUME NEW code \in Seq(InstrType), NEW more \in Seq(InstrType),
           NEW s \in Seq(ActivationType), NEW t \in Seq(ActivationType), NEW B,
           Layout(code, s, B), s # <<>>, Opened(s[Len(s)]),
           Unresolved(s[Len(s)]) = {s[Len(s)].mark},
           Len(more) = Len(code) + 1, Op(more, Len(code)) = "LEAVE",
           \A x \in 0..Len(code) - 1 :
              /\ Op(more, x) = Op(code, x)
              /\ To(more, x) = IF x = s[Len(s)].mark THEN Len(code) + 1 ELSE To(code, x),
           Len(t) = Len(s) - 1, \A d \in 1..Len(s) - 1 : t[d] = s[d],
           NEW params \in Nat
    PROVE  Layout(more, t, B \cup {[start |-> s[Len(s)].mark, end |-> Len(code) + 1,
                                    params |-> params]})
PROOF
<1> DEFINE size == Len(code)
           n == Len(s)
           mark == s[n].mark
           new == [start |-> mark, end |-> size + 1, params |-> params]
           C == B \cup {new}
<1>1. size \in Nat /\ n \in Nat \ {0} /\ Len(more) = size + 1 /\ Len(t) = n - 1
      /\ \A d \in 1..n - 1 : t[d] = s[d]
  OBVIOUS
<1>2. ASSUME NEW x \in 0..size - 1
      PROVE Op(more, x) = Op(code, x) /\ (Jump(more, x) <=> Jump(code, x))
  BY DEF Jump
<1>3. /\ mark \in 0..size - 1 /\ Op(code, mark) = "JMP" /\ Awaits(s, mark)
      /\ Op(more, mark) = "JMP" /\ To(more, mark) = size + 1
  <2>1. mark \in Unresolved(s[n]) /\ n \in 1..n
    BY <1>1
  <2>2. mark \in 0..size - 1 /\ Op(code, mark) = "JMP"
    BY <2>1 DEF Layout, Pending
  <2> QED BY <1>2, <2>1, <2>2 DEF Awaits
<1> HIDE DEF mark
<1>4. ASSUME NEW x \in 0..size - 1, x # mark PROVE To(more, x) = To(code, x)
  BY <1>4 DEF mark
<1>5. ASSUME NEW x, Awaits(t, x) PROVE Awaits(s, x) /\ x < mark
  <2>1. PICK d \in 1..n - 1 : x \in Unresolved(s[d])
    BY <1>1, <1>5 DEF Awaits
  <2>2. d \in 1..n /\ n \in 1..n /\ d < n /\ mark \in Unresolved(s[n])
    BY <1>1, <2>1 DEF mark
  <2>3. x < mark
    BY <2>1, <2>2 DEF Layout, Pending
  <2> QED BY <2>1, <2>2, <2>3 DEF Awaits
<1>6. ASSUME NEW x, Awaits(s, x) PROVE Awaits(t, x) \/ x = mark
  <2>1. PICK d \in 1..n : x \in Unresolved(s[d])
    BY <1>6 DEF Awaits
  <2>2. CASE d = n
    BY <2>1, <2>2 DEF mark
  <2>3. CASE d \in 1..n - 1
    BY <1>1, <2>1, <2>3 DEF Awaits
  <2> QED BY <1>1, <2>2, <2>3
<1>7. ASSUME NEW d \in 1..n - 1 PROVE t[d] = s[d] /\ d \in 1..n
  BY <1>1
<1>8. Pending(more, t)
  <2>1. ASSUME NEW d \in 1..n - 1, NEW x \in Unresolved(t[d])
        PROVE x \in 0..size /\ Jump(more, x)
    <3>1. x \in 0..size - 1 /\ Jump(code, x)
      BY <1>7, <2>1 DEF Layout, Pending
    <3> QED BY <1>1, <1>2, <3>1
  <2>2. ASSUME NEW d \in 1..n - 1, Opened(t[d]) PROVE Op(more, t[d].mark) = "JMP"
    <3>1. t[d] = s[d] /\ d \in 1..n /\ s[d].mark \in 0..size - 1
      BY <1>7, <2>2, OpenedAwaits DEF Layout, Pending
    <3> QED BY <1>2, <2>2, <3>1 DEF Layout, Pending
  <2>3. ASSUME NEW d \in 1..n - 1, NEW e \in 1..n - 1, d < e,
               NEW x \in Unresolved(t[d]), NEW y \in Unresolved(t[e])
        PROVE  x < y
    BY <1>7, <2>3 DEF Layout, Pending
  <2> QED BY <1>1, <2>1, <2>2, <2>3 DEF Pending
<1>9. Landed(more, t)
  <2> SUFFICES ASSUME NEW x \in 0..size, Jump(more, x)
               PROVE  Awaits(t, x) \/ To(more, x) \in x + 1..size + 1
    BY <1>1 DEF Landed
  <2>1. x # size
    BY DEF Jump
  <2>2. CASE x = mark
    BY <1>1, <1>3, <2>2
  <2>3. CASE x # mark
    <3>1. Awaits(s, x) \/ To(code, x) \in x + 1..size
      BY <1>1, <1>2, <2>1 DEF Layout, Landed
    <3> QED BY <1>1, <1>4, <1>6, <2>1, <2>3, <3>1
  <2> QED BY <2>2, <2>3
<1>10. Uncrossed(more, t)
  <2> SUFFICES ASSUME NEW d \in 1..n - 1, Opened(t[d]),
                      NEW x \in 0..t[d].mark - 1, Jump(more, x)
               PROVE  Awaits(t, x) \/ To(more, x) <= t[d].mark
    BY <1>1 DEF Uncrossed
  <2>1. t[d] = s[d] /\ d \in 1..n /\ Awaits(t, t[d].mark)
    BY <1>1, <1>7, OpenedAwaits DEF Awaits
  <2>2. t[d].mark < mark /\ t[d].mark \in 0..size - 1
    BY <1>5, <2>1, OpenedAwaits DEF Layout, Pending
  <2>3. x \in 0..size - 1 /\ x # mark
    BY <1>1, <1>3, <2>2
  <2>4. Awaits(s, x) \/ To(code, x) <= s[d].mark
    BY <1>2, <2>1, <2>3 DEF Layout, Uncrossed
  <2> QED BY <1>4, <1>6, <2>1, <2>3, <2>4
<1>11. ASSUME NEW b \in B
       PROVE /\ Framed(code, b) /\ b \in Body /\ b.start \in Nat /\ b.end \in Nat
             /\ b.start + 2 <= b.end /\ b.end <= size
             /\ mark < b.start \/ b.end <= mark
             /\ \A x \in b.start..b.end - 1 : ~Awaits(s, x)
  <2>1. /\ Framed(code, b) /\ b \in Body /\ \A x \in b.start..b.end - 1 : ~Awaits(s, x)
    BY DEF Layout, Closed
  <2>2. /\ b.start \in Nat /\ b.end \in Nat /\ b.start + 2 <= b.end /\ b.end <= size
    BY <2>1 DEF Body, Framed
  <2>3. mark < b.start \/ b.end <= mark
    <3>1. mark \notin b.start..b.end - 1
      BY <1>3, <2>1
    <3> QED BY <1>3, <2>2, <3>1
  <2> QED BY <2>1, <2>2, <2>3
<1>12. new \in Body /\ new.start = mark /\ new.end = size + 1
  BY <1>1, <1>3 DEF Body
<1> HIDE DEF new
<1>13. Closed(more, t, C)
  <2>1. C \subseteq Body
    BY <1>11, <1>12
  <2>2. ASSUME NEW b \in B PROVE Framed(more, b)
    <3>1. b.start \in Nat /\ b.end \in Nat /\ b.start + 2 <= b.end /\ b.end <= size
      BY <1>11
    <3>2. b.start \in 0..size - 1 /\ b.end - 1 \in 0..size - 1
      BY <1>1, <3>1
    <3>3. b.start # mark
      BY <1>3, <1>11, <3>1
    <3> QED BY <1>1, <1>2, <1>4, <1>11, <3>2, <3>3 DEF Framed
  <2>3. Framed(more, new)
    <3>1. new.end - 1 = size
      BY <1>1, <1>12
    <3> QED BY <1>1, <1>3, <1>12, <3>1 DEF Framed
  <2>4. ASSUME NEW b \in B, NEW x \in b.start..b.end - 1 PROVE ~Awaits(t, x)
    BY <1>5, <1>11
  <2>5. ASSUME NEW x \in new.start..new.end - 1 PROVE ~Awaits(t, x)
    <3>1. ~(x < mark)
      BY <1>1, <1>3, <1>12
    <3> QED BY <1>5, <3>1
  <2> QED BY <2>1, <2>2, <2>3, <2>4, <2>5 DEF Closed
<1>14. Sealed(more, t, C)
  <2> SUFFICES ASSUME NEW b \in C, NEW x \in 0..size, Jump(more, x), ~Awaits(t, x)
               PROVE  In(b, x) <=> In(b, To(more, x))
    BY <1>1 DEF Sealed
  <2>1. x \in 0..size - 1 /\ Jump(code, x)
    <3>1. x # size
      BY DEF Jump
    <3>2. x \in 0..size - 1
      BY <1>1, <3>1
    <3> QED BY <1>2, <3>2
  <2>2. CASE x = mark
    <3>1. To(more, x) = size + 1
      BY <1>3, <2>2
    <3>2. CASE b \in B
      BY <1>1, <1>3, <1>11, <2>2, <3>1, <3>2 DEF In
    <3>3. CASE b = new
      BY <1>1, <1>3, <1>12, <2>2, <3>1, <3>3 DEF In
    <3> QED BY <3>2, <3>3
  <2>3. CASE x # mark
    <3>1. To(more, x) = To(code, x) /\ ~Awaits(s, x)
      BY <1>4, <1>6, <2>1, <2>3
    <3>2. CASE b \in B
      BY <2>1, <3>1, <3>2 DEF Layout, Sealed
    <3>3. CASE b = new /\ x < mark
      <4>1. To(code, x) <= mark
        <5>1. n \in 1..n /\ Opened(s[n]) /\ x \in 0..s[n].mark - 1
          BY <1>1, <1>3, <2>1, <3>3 DEF mark
        <5> QED BY <2>1, <3>1, <5>1 DEF Layout, Uncrossed, mark
      <4>2. ~In(b, x) /\ ~(mark < To(code, x))
        <5>1. To(code, x) \in Nat
          BY <1>1, <2>1, <3>1 DEF Layout, Landed
        <5> QED BY <1>3, <1>12, <3>3, <4>1, <5>1 DEF In
      <4> QED BY <1>12, <3>1, <3>3, <4>2 DEF In
    <3>4. CASE b = new /\ mark < x
      <4>1. To(code, x) \in x + 1..size
        BY <2>1, <3>1 DEF Layout, Landed
      <4> QED BY <1>1, <1>3, <1>12, <2>1, <3>1, <3>4, <4>1 DEF In
    <3>5. x < mark \/ mark < x
      BY <1>3, <2>1, <2>3
    <3>6. b \in B \/ b = new
      OBVIOUS
    <3> QED BY <3>2, <3>3, <3>4, <3>5, <3>6
  <2> QED BY <2>2, <2>3
<1>15. Laminar(C)
  <2>1. ASSUME NEW b \in B
        PROVE /\ b.start # mark
              /\ b.start < mark => b.end <= mark
              /\ b.end < size + 1
    BY <1>1, <1>3, <1>11
  <2>2. ASSUME NEW b \in C, NEW c \in C
        PROVE  /\ b.start = c.start => b = c
               /\ b.start < c.start => b.end <= c.start \/ c.end < b.end
    <3>1. CASE b \in B /\ c \in B
      BY <3>1 DEF Layout, Laminar
    <3>2. CASE b \in B /\ c = new
      BY <1>12, <2>1, <3>2
    <3>3. CASE b = new /\ c \in B
      BY <1>12, <2>1, <3>3
    <3>4. CASE b = new /\ c = new
      BY <1>3, <1>12, <3>4
    <3> QED BY <3>1, <3>2, <3>3, <3>4
  <2> QED BY <2>2 DEF Laminar
<1>16. Leaving(more, C)
  <2> SUFFICES ASSUME NEW x \in 0..size, Op(more, x) = "LEAVE"
               PROVE  \E b \in C : b.end = x + 1
    BY <1>1 DEF Leaving
  <2>1. CASE x = size
    BY <1>12, <2>1
  <2>2. CASE x \in 0..size - 1
    BY <1>2, <2>2 DEF Layout, Leaving
  <2> QED BY <1>1, <2>1, <2>2
<1>17. Layout(more, t, C)
  BY <1>8, <1>9, <1>10, <1>13, <1>14, <1>15, <1>16 DEF Layout
<1> QED BY <1>17 DEF new, mark

-----------------------------------------------------------------------------
(* Headers and calls under the same                                        *)

(* code is still there, but for the targets of the jumps that await one *)
Kept(code, more, s) ==
    \A x \in 0..Len(code) - 1 :
        /\ Op(more, x) = Op(code, x)
        /\ To(more, x) = To(code, x) \/ (Jump(code, x) /\ Awaits(s, x))

(* the open functions of s are open in t *)
StillOpen(s, t) ==
    \A d \in 1..Len(s) : Opened(s[d]) =>
        d \in 1..Len(t) /\ Opened(t[d]) /\ t[d].mark = s[d].mark /\ t[d].n = s[d].n

(* Activations that await the same have the same functions open. *)
LEMMA AlikeOpen == ASSUME NEW s, NEW t, Alike(s, t) PROVE StillOpen(s, t)
PROOF
<1> SUFFICES ASSUME NEW d \in 1..Len(s), Opened(s[d])
             PROVE d \in 1..Len(t) /\ Opened(t[d]) /\ t[d].mark = s[d].mark /\ t[d].n = s[d].n
  BY DEF StillOpen
<1>1. s[d].mark \in Unresolved(s[d])
  BY OpenedAwaits
<1> QED BY <1>1 DEF Alike, Same

(* A completed body is framed by the same instructions in what code becomes. *)
LEMMA FramedKept ==
    ASSUME NEW code \in Seq(InstrType), NEW more \in Seq(InstrType), NEW s, NEW B,
           Closed(code, s, B), Len(code) <= Len(more), Kept(code, more, s)
    PROVE  \A b \in B : Framed(more, b)
PROOF
<1> SUFFICES ASSUME NEW b \in B PROVE Framed(more, b)
  OBVIOUS
<1>1. Framed(code, b) /\ b \in Body /\ \A x \in b.start..b.end - 1 : ~Awaits(s, x)
  BY DEF Closed
<1>2. /\ b.start \in Nat /\ b.end \in Nat /\ b.start + 2 <= b.end /\ b.end <= Len(code)
      /\ Len(code) \in Nat /\ Len(more) \in Nat
  BY <1>1 DEF Body, Framed
<1>3. /\ b.start \in 0..Len(code) - 1 /\ b.end - 1 \in 0..Len(code) - 1
      /\ b.start \in b.start..b.end - 1 /\ b.end <= Len(more)
  BY <1>2
<1>4. /\ Op(more, b.start) = Op(code, b.start) /\ To(more, b.start) = To(code, b.start)
      /\ Op(more, b.end - 1) = Op(code, b.end - 1)
  BY <1>1, <1>3 DEF Kept
<1> QED BY <1>1, <1>3, <1>4 DEF Framed

(* Calls keep entering what they entered. *)
LEMMA EntersKept ==
    ASSUME NEW code \in Seq(InstrType), NEW more \in Seq(InstrType), NEW s,
           NEW B, NEW C, B \subseteq C,
           Closed(code, s, B), Len(code) <= Len(more), Kept(code, more, s), Enters(code, B),
           \A x \in Len(code)..Len(more) - 1 : Op(more, x) = "CALL" =>
              \E b \in C : /\ b.start = To(more, x) /\ b.end <= x
                           /\ b.params <= REGISTERS /\ Framed(more, b)
    PROVE  Enters(more, C)
PROOF
<1> SUFFICES ASSUME NEW x \in 0..Len(more) - 1, Op(more, x) = "CALL"
             PROVE  \E b \in C : /\ b.start = To(more, x) /\ b.end <= x
                                 /\ b.params <= REGISTERS /\ Framed(more, b)
  BY DEF Enters
<1>1. Len(code) \in Nat /\ Len(more) \in Nat
  OBVIOUS
<1>2. CASE x \in 0..Len(code) - 1
  <2>1. Op(code, x) = "CALL" /\ To(more, x) = To(code, x)
    BY <1>2 DEF Kept, Jump
  <2>2. PICK b \in B : b.start = To(code, x) /\ b.end <= x /\ b.params <= REGISTERS
    BY <1>2, <2>1 DEF Enters
  <2>3. Framed(more, b)
    BY FramedKept
  <2> QED BY <2>1, <2>2, <2>3
<1>3. CASE x \in Len(code)..Len(more) - 1
  BY <1>3
<1> QED BY <1>1, <1>2, <1>3

(* The headers are still there in what the code becomes. *)
LEMMA HeadersGrown ==
    ASSUME NEW code \in Seq(InstrType), NEW more \in Seq(InstrType), NEW s, NEW B,
           Headers(code, s, B), Closed(code, s, B),
           Len(code) <= Len(more), Kept(code, more, s),
           \A d \in 1..Len(s) : Opened(s[d]) => s[d].mark \in Nat
    PROVE  /\ \A b \in B : /\ b.start + 2 * b.params + 2 <= b.end
                            /\ Header0(more, b.start, b.params)
           /\ \A d \in 1..Len(s) : Opened(s[d]) =>
                 /\ Arity(s[d]) \in Nat /\ Len(s[d].n.ch) > 2
                 /\ s[d].mark + 2 * Arity(s[d]) + 1 <= Len(more)
                 /\ Header0(more, s[d].mark, Arity(s[d]))
           /\ \A x \in 0..Len(code) - 1 : Op(more, x) = "LOAD" =>
                 \/ \E b \in B : Loads(more, b.start, b.params, x)
                 \/ \E d \in 1..Len(s) : Opened(s[d]) /\ Loads(more, s[d].mark, Arity(s[d]), x)
PROOF
<1>1. Len(code) \in Nat /\ Len(more) \in Nat
  OBVIOUS
<1>2. ASSUME NEW b \in B
      PROVE b.start + 2 * b.params + 2 <= b.end /\ Header0(more, b.start, b.params)
  <2>1. /\ b.start + 2 * b.params + 2 <= b.end /\ Header0(code, b.start, b.params)
        /\ b.start \in Nat /\ b.end \in Nat /\ b.params \in Nat /\ b.end <= Len(code)
    BY DEF Headers, Closed, Body, Framed
  <2>2. ASSUME NEW x \in b.start + 1..b.start + 2 * b.params
        PROVE Op(more, x) \in {"LOAD", "VAR"}
    <3>1. x \in 0..Len(code) - 1
      BY <1>1, <2>1
    <3> QED BY <2>1, <3>1 DEF Header0, Kept
  <2> QED BY <2>1, <2>2 DEF Header0
<1>3. ASSUME NEW d \in 1..Len(s), Opened(s[d])
      PROVE  /\ Arity(s[d]) \in Nat /\ Len(s[d].n.ch) > 2
             /\ s[d].mark + 2 * Arity(s[d]) + 1 <= Len(more)
             /\ Header0(more, s[d].mark, Arity(s[d]))
  <2>1. /\ Arity(s[d]) \in Nat /\ s[d].mark + 2 * Arity(s[d]) + 1 <= Len(code)
        /\ Header0(code, s[d].mark, Arity(s[d])) /\ s[d].mark \in Nat
        /\ Len(s[d].n.ch) > 2
    BY <1>3 DEF Headers
  <2>2. ASSUME NEW x \in s[d].mark + 1..s[d].mark + 2 * Arity(s[d])
        PROVE Op(more, x) \in {"LOAD", "VAR"}
    <3>1. x \in 0..Len(code) - 1
      BY <1>1, <2>1
    <3> QED BY <2>1, <3>1 DEF Header0, Kept
  <2>3. s[d].mark + 2 * Arity(s[d]) + 1 <= Len(more)
    BY <1>1, <2>1
  <2> QED BY <2>1, <2>2, <2>3 DEF Header0
<1>4. ASSUME NEW x \in 0..Len(code) - 1, Op(more, x) = "LOAD"
      PROVE  \/ \E b \in B : Loads(more, b.start, b.params, x)
             \/ \E d \in 1..Len(s) : Opened(s[d]) /\ Loads(more, s[d].mark, Arity(s[d]), x)
  <2>1. Op(code, x) = "LOAD" /\ To(more, x) = To(code, x)
    BY <1>4 DEF Kept, Jump
  <2>2. CASE \E b \in B : Loads(code, b.start, b.params, x)
    BY <2>1, <2>2 DEF Loads
  <2>3. CASE \E d \in 1..Len(s) : Opened(s[d]) /\ Loads(code, s[d].mark, Arity(s[d]), x)
    BY <2>1, <2>3 DEF Loads
  <2> QED BY <2>1, <2>2, <2>3 DEF Headers
<1> QED BY <1>2, <1>3, <1>4

(* The headers stay what they are while no function is opened or closed. *)
LEMMA HeadersKept ==
    ASSUME NEW code \in Seq(InstrType), NEW more \in Seq(InstrType), NEW s, NEW t, NEW B,
           Headers(code, s, B), Closed(code, s, B),
           Len(code) <= Len(more), Kept(code, more, s),
           \A x \in Len(code)..Len(more) - 1 : Op(more, x) # "LOAD",
           StillOpen(s, t), StillOpen(t, s), \A d \in 1..Len(s) : Opened(s[d]) => s[d].mark \in Nat
    PROVE  Headers(more, t, B)
PROOF
<1>1. /\ \A b \in B : /\ b.start + 2 * b.params + 2 <= b.end
                       /\ Header0(more, b.start, b.params)
      /\ \A d \in 1..Len(s) : Opened(s[d]) =>
            /\ Arity(s[d]) \in Nat /\ Len(s[d].n.ch) > 2
            /\ s[d].mark + 2 * Arity(s[d]) + 1 <= Len(more)
            /\ Header0(more, s[d].mark, Arity(s[d]))
      /\ \A x \in 0..Len(code) - 1 : Op(more, x) = "LOAD" =>
            \/ \E b \in B : Loads(more, b.start, b.params, x)
            \/ \E d \in 1..Len(s) : Opened(s[d]) /\ Loads(more, s[d].mark, Arity(s[d]), x)
  BY HeadersGrown
<1>2. ASSUME NEW d \in 1..Len(t), Opened(t[d])
      PROVE  /\ Arity(t[d]) \in Nat /\ Len(t[d].n.ch) > 2
             /\ t[d].mark + 2 * Arity(t[d]) + 1 <= Len(more)
             /\ Header0(more, t[d].mark, Arity(t[d]))
  <2>1. /\ d \in 1..Len(s) /\ Opened(s[d]) /\ t[d].mark = s[d].mark
        /\ Arity(t[d]) = Arity(s[d]) /\ t[d].n = s[d].n
    BY <1>2 DEF StillOpen, Arity
  <2> QED BY <1>1, <2>1
<1>3. ASSUME NEW x \in 0..Len(more) - 1, Op(more, x) = "LOAD"
      PROVE  \/ \E b \in B : Loads(more, b.start, b.params, x)
             \/ \E d \in 1..Len(t) : Opened(t[d]) /\ Loads(more, t[d].mark, Arity(t[d]), x)
  <2>1. Len(code) \in Nat /\ Len(more) \in Nat
    OBVIOUS
  <2>2. x \in 0..Len(code) - 1
    BY <1>3, <2>1
  <2>3. ASSUME NEW d \in 1..Len(s), Opened(s[d]), Loads(more, s[d].mark, Arity(s[d]), x)
        PROVE  \E e \in 1..Len(t) : Opened(t[e]) /\ Loads(more, t[e].mark, Arity(t[e]), x)
    BY <2>3 DEF StillOpen, Arity
  <2> QED BY <1>1, <1>3, <2>2, <2>3
<1> QED BY <1>1, <1>2, <1>3 DEF Headers

-----------------------------------------------------------------------------
(* The stack and the code of Cc                                            *)

(* What stands in the code once more has been emitted. *)
LEMMA Appended ==
    ASSUME Code, NEW code \in Seq(InstrType), status = "compiling", Emit(code)
    PROVE  /\ Len(bytecode) <= Len(bytecode')
           /\ \A x \in 0..Len(bytecode) - 1 : bytecode'[x + 1] = bytecode[x + 1]
           /\ \A x \in Len(bytecode)..Len(bytecode') - 1 :
                 /\ x - Len(bytecode) + 1 \in 1..Len(code)
                 /\ bytecode'[x + 1] = code[x - Len(bytecode) + 1]
PROOF
<1>1. bytecode \in Seq(InstrType) /\ Len(bytecode) \in Nat /\ Len(code) \in Nat
  BY DEF Code
<1> DEFINE all == bytecode \o code
<1>2. /\ all \in Seq(InstrType) /\ Len(all) = Len(bytecode) + Len(code)
      /\ \A a \in 1..Len(bytecode) + Len(code) :
            all[a] = IF a <= Len(bytecode) THEN bytecode[a] ELSE code[a - Len(bytecode)]
  BY <1>1, ConcatProperties
<1>3. Write(all)
  BY DEF Emit
<1> HIDE DEF all
<1>4. /\ Code' /\ Grown
      /\ \A a \in 1..Len(bytecode') : a \in 1..Len(all) /\ bytecode'[a] = all[a]
  BY <1>1, <1>2, <1>3, Written
<1>5. Len(bytecode') \in Nat /\ Len(bytecode) <= Len(bytecode')
  BY <1>4 DEF Grown
<1>6. ASSUME NEW x \in 0..Len(bytecode) - 1 PROVE bytecode'[x + 1] = bytecode[x + 1]
  <2>1. x + 1 \in 1..Len(bytecode') /\ x + 1 <= Len(bytecode)
    BY <1>1, <1>5
  <2> QED BY <1>2, <1>4, <2>1
<1>7. ASSUME NEW x \in Len(bytecode)..Len(bytecode') - 1
      PROVE /\ x - Len(bytecode) + 1 \in 1..Len(code)
            /\ bytecode'[x + 1] = code[x - Len(bytecode) + 1]
  <2>1. x + 1 \in Len(bytecode) + 1..Len(bytecode') /\ x + 1 - Len(bytecode) = x - Len(bytecode) + 1
    BY <1>1, <1>5
  <2> QED BY <2>1, Emitted
<1> QED BY <1>5, <1>6, <1>7

(* The activations after compile() returned, went on, or called itself. *)
LEMMA AfterReturn ==
    ASSUME stack \in Seq(ActivationType), stack # <<>>, Return
    PROVE  /\ Len(stack') = Len(stack) - 1
           /\ \A d \in 1..Len(stack) - 1 : stack'[d] = stack[d]
PROOF
<1> DEFINE n == Len(stack)
<1>1. n \in Nat \ {0} /\ \A d \in 1..n - 1 : stack[d] \in ActivationType
  OBVIOUS
<1>2. /\ stack' \in Seq(ActivationType)
      /\ Len(stack') = IF 1 <= n - 1 THEN n - 1 - 1 + 1 ELSE 0
      /\ \A d \in 1..n - 1 - 1 + 1 : stack'[d] = stack[1 + d - 1]
  <2>1. 1 \in Int /\ n - 1 \in Int
    BY <1>1
  <2>2. stack' = SubSeq(stack, 1, n - 1)
    BY DEF Return, Caller
  <2> HIDE DEF n
  <2> QED BY <1>1, <2>1, <2>2, SubSeqProperties
<1> HIDE DEF n
<1>3. Len(stack') = n - 1
  BY <1>1, <1>2
<1>4. ASSUME NEW d \in 1..n - 1 PROVE stack'[d] = stack[d]
  <2>1. d \in 1..n - 1 - 1 + 1 /\ 1 + d - 1 = d
    BY <1>1
  <2>2. stack'[d] = stack[1 + d - 1]
    BY <1>2, <2>1
  <2> QED BY <2>1, <2>2
<1> QED BY <1>3, <1>4 DEF n

LEMMA AfterContinue ==
    ASSUME stack \in Seq(ActivationType), stack # <<>>,
           NEW self \in ActivationType, Continue(self)
    PROVE  /\ Len(stack') = Len(stack) /\ stack'[Len(stack)] = self
           /\ \A d \in 1..Len(stack) - 1 : stack'[d] = stack[d]
  BY DEF Continue

LEMMA AfterCompile ==
    ASSUME stack \in Seq(ActivationType), stack # <<>>,
           NEW self \in ActivationType, NEW child, Compile(child, self)
    PROVE  /\ Len(stack') = Len(stack) + 1 /\ stack'[Len(stack)] = self
           /\ stack'[Len(stack) + 1] = Activation(child)
           /\ \A d \in 1..Len(stack) - 1 : stack'[d] = stack[d]
PROOF
<1> DEFINE t == [stack EXCEPT ![Len(stack)] = self]
<1>1. /\ t \in Seq(ActivationType) /\ Len(t) = Len(stack) /\ t[Len(stack)] = self
      /\ Len(stack) \in Nat \ {0}
      /\ \A d \in 1..Len(stack) - 1 : t[d] = stack[d]
  OBVIOUS
<1>2. stack' = Append(t, Activation(child))
  BY DEF Compile
<1> HIDE DEF t
<1> QED BY <1>1, <1>2

(* A fresh activation awaits nothing and is in the middle of nothing. *)
LEMMA Fresh ==
    ASSUME NEW n
    PROVE  /\ Unresolved(Activation(n)) = {} /\ ~Opened(Activation(n))
           /\ ~Calling(Activation(n)) /\ Slotted(Activation(n))
PROOF
<1>1. /\ Activation(n).i = 0 /\ Activation(n).slots = <<>> /\ Activation(n).phase = "start"
      /\ Activation(n).n = n
  BY DEF Activation
<1>2. ~Opened(Activation(n)) /\ ~Calling(Activation(n))
  BY <1>1 DEF Opened, Calling
<1>3. Unresolved(Activation(n)) = {}
  BY <1>1, <1>2 DEF Unresolved
<1>4. Slotted(Activation(n))
  BY <1>1 DEF Slotted
<1> QED BY <1>2, <1>3, <1>4

-----------------------------------------------------------------------------
(* What every step does                                                    *)

(* Code generated so far becomes code generated so far; and what was true  *)
(* of its calls stays true unless a function is redefined where it is in   *)
(* use: inside its own body or in the arguments of a call to it.           *)
Names(a) == FnHash[IF Calling(a) THEN a.n.tok ELSE a.n.ch[1].tok]
NoneRedefined ==
    AtFunction /\ Top.i = 0 =>
        \A d \in 1..Len(stack) - 1 :
            Opened(stack[d]) \/ Calling(stack[d]) => Names(stack[d]) # FunctionHash

Advance ==
    \A B : Generated(B) =>
        \E C : Generated(C)' /\ (NoneRedefined /\ Linked(B) => Linked(C)')

(* A step that emits neither jump nor LEAVE nor LOAD and whose activations *)
(* await what they did.                                                    *)
LEMMA PlainStep ==
    ASSUME IInv, IInv', status = "compiling", NEW B, Generated(B),
           Len(bytecode) <= Len(bytecode'),
           \A x \in 0..Len(bytecode) - 1 : bytecode'[x + 1] = bytecode[x + 1],
           \A x \in Len(bytecode)..Len(bytecode') - 1 :
              Op(bytecode', x) \notin {"JMP", "JMPF", "LEAVE", "LOAD"},
           Alike(stack, stack'), Alike(stack', stack),
           \A d \in 1..Len(stack') : Slotted(stack'[d])
    PROVE  /\ Generated(B)'
           /\ /\ Linked(B) /\ hash_to_function' = hash_to_function
              /\ \A d \in 1..Len(stack') : Settled(stack'[d], hash_to_function)
              /\ \A x \in Len(bytecode)..Len(bytecode') - 1 : Op(bytecode', x) = "CALL" =>
                    \E b \in B : /\ b.start = To(bytecode', x) /\ b.end <= x
                                 /\ b.params <= REGISTERS /\ Framed(bytecode', b)
              => Linked(B)'
PROOF
<1>1. /\ bytecode \in Seq(InstrType) /\ bytecode' \in Seq(InstrType)
      /\ stack \in Seq(ActivationType) /\ stack' \in Seq(ActivationType)
  BY DEF IInv, Code, Stacked
<1>2. /\ Layout(bytecode, stack, B) /\ Headers(bytecode, stack, B)
      /\ Closed(bytecode, stack, B)
  BY DEF Generated, Alive, Layout
<1>3. Kept(bytecode, bytecode', stack)
  BY DEF Kept, Op, To
<1>4. Layout(bytecode', stack', B)
  <2>1. \A x \in Len(bytecode)..Len(bytecode') - 1 :
            ~Jump(bytecode', x) /\ Op(bytecode', x) # "LEAVE"
    BY DEF Jump
  <2>2. Layout(bytecode', stack, B)
    BY <1>1, <1>2, <2>1, Extended
  <2> QED BY <2>2, Restacked
<1>5. Headers(bytecode', stack', B)
  <2>1. StillOpen(stack, stack') /\ StillOpen(stack', stack)
    BY AlikeOpen
  <2>2. \A d \in 1..Len(stack) : stack[d].mark \in Nat
    BY <1>1, ActivationFields
  <2> QED BY <1>1, <1>2, <1>3, <2>1, <2>2, HeadersKept
<1>6. Generated(B)'
  BY <1>4, <1>5 DEF Generated
<1>7. ASSUME Linked(B), hash_to_function' = hash_to_function,
             \A d \in 1..Len(stack') : Settled(stack'[d], hash_to_function),
             \A x \in Len(bytecode)..Len(bytecode') - 1 : Op(bytecode', x) = "CALL" =>
                \E b \in B : /\ b.start = To(bytecode', x) /\ b.end <= x
                             /\ b.params <= REGISTERS /\ Framed(bytecode', b)
      PROVE  Linked(B)'
  <2>1. Enters(bytecode, B) /\ Filled(hash_to_function, B)
    BY <1>7 DEF Linked, Alive
  <2>2. Enters(bytecode', B)
    BY <1>1, <1>2, <1>3, <1>7, <2>1, EntersKept
  <2> QED BY <1>7, <2>1, <2>2 DEF Linked
<1> QED BY <1>6, <1>7

(* the code grows by instructions that neither jump, leave nor load, and   *)
(* the calls among them enter completed bodies *)
Control == {"JMP", "JMPF", "LEAVE", "LOAD"}
Plainly(B) ==
    /\ Len(bytecode) <= Len(bytecode')
    /\ \A x \in 0..Len(bytecode) - 1 : bytecode'[x + 1] = bytecode[x + 1]
    /\ \A x \in Len(bytecode)..Len(bytecode') - 1 : Op(bytecode', x) \notin Control
    /\ Linked(B) => \A x \in Len(bytecode)..Len(bytecode') - 1 :
          Op(bytecode', x) = "CALL" =>
              \E b \in B : /\ b.start = To(bytecode', x) /\ b.end <= x
                           /\ b.params <= REGISTERS /\ Framed(bytecode', b)

(* Nothing emitted. *)
LEMMA UnchangedPlainly ==
    ASSUME Code, bytecode' = bytecode, NEW B
    PROVE  Plainly(B)
PROOF
<1>1. Len(bytecode) \in Nat
  BY DEF Code
<1> QED BY <1>1 DEF Plainly

(* Instructions emitted that leave the control where it is. *)
LEMMA EmittedPlainly ==
    ASSUME Code, NEW code \in Seq(InstrType), status = "compiling", Emit(code), NEW B,
           \A k \in 1..Len(code) : code[k].op \notin Control \cup {"CALL"}
    PROVE  Plainly(B)
  BY Appended DEF Plainly, Op

(* compile() returns from a node that awaits nothing. *)
LEMMA ReturnAdvance ==
    ASSUME IInv, IInv', status = "compiling", stack # <<>>, NEW B, Generated(B),
           Plainly(B), Return, Unresolved(Top) = {}
    PROVE  /\ Generated(B)'
           /\ hash_to_function' = hash_to_function => (Linked(B) => Linked(B)')
PROOF
<1>1. /\ stack \in Seq(ActivationType) /\ Len(stack) \in Nat \ {0}
      /\ \A d \in 1..Len(stack) : Slotted(stack[d])
  BY DEF IInv, Stacked, Generated, Alive
<1>2. /\ Len(stack') = Len(stack) - 1
      /\ \A d \in 1..Len(stack) - 1 : stack'[d] = stack[d]
  BY <1>1, AfterReturn
<1>3. Alike(stack, stack') /\ Alike(stack', stack)
  <2>1. \A d \in 1..Len(stack) - 1 : Same(stack[d], stack'[d]) /\ Same(stack'[d], stack[d])
    BY <1>2, SameSelf
  <2>2. Unresolved(stack[Len(stack)]) = {}
    BY DEF Top
  <2>3. Alike(stack, stack')
    <3> SUFFICES ASSUME NEW d \in 1..Len(stack)
                 PROVE  \/ Unresolved(stack[d]) = {}
                        \/ d \in 1..Len(stack') /\ Same(stack[d], stack'[d])
      BY DEF Alike
    <3>1. d = Len(stack) \/ d \in 1..Len(stack) - 1
      BY <1>1
    <3> QED BY <1>2, <2>1, <2>2, <3>1
  <2>4. Alike(stack', stack)
    BY <1>1, <1>2, <2>1 DEF Alike
  <2> QED BY <2>3, <2>4
<1>4. \A d \in 1..Len(stack') : Slotted(stack'[d])
  BY <1>1, <1>2
<1>5. Generated(B)'
  BY <1>3, <1>4, PlainStep DEF Plainly, Control
<1>6. ASSUME hash_to_function' = hash_to_function, Linked(B) PROVE Linked(B)'
  <2>1. \A d \in 1..Len(stack') : Settled(stack'[d], hash_to_function)
    BY <1>1, <1>2, <1>6 DEF Linked, Alive
  <2> QED BY <1>3, <1>4, <1>6, <2>1, PlainStep DEF Plainly, Control
<1> QED BY <1>5, <1>6

(* compile() goes on with the innermost activation. *)
LEMMA ContinueAdvance ==
    ASSUME IInv, IInv', status = "compiling", stack # <<>>, NEW B, Generated(B),
           Plainly(B), NEW self \in ActivationType, Continue(self), Same(Top, self),
           Slotted(self), hash_to_function' = hash_to_function,
           Linked(B) => Settled(self, hash_to_function)
    PROVE  Generated(B)' /\ (Linked(B) => Linked(B)')
PROOF
<1>1. /\ stack \in Seq(ActivationType) /\ Len(stack) \in Nat \ {0}
      /\ \A d \in 1..Len(stack) : Slotted(stack[d])
  BY DEF IInv, Stacked, Generated, Alive
<1>2. /\ Len(stack') = Len(stack) /\ stack'[Len(stack)] = self
      /\ \A d \in 1..Len(stack) - 1 : stack'[d] = stack[d]
  BY <1>1, AfterContinue
<1>3. Alike(stack, stack') /\ Alike(stack', stack)
  BY <1>1, <1>2 DEF Alike, Same, Top
<1>4. \A d \in 1..Len(stack') : Slotted(stack'[d])
  BY <1>1, <1>2
<1>5. Generated(B)'
  BY <1>3, <1>4, PlainStep DEF Plainly, Control
<1>6. ASSUME Linked(B) PROVE Linked(B)'
  <2>1. \A d \in 1..Len(stack') : Settled(stack'[d], hash_to_function)
    BY <1>1, <1>2, <1>6 DEF Linked, Alive
  <2> QED BY <1>3, <1>4, <1>6, <2>1, PlainStep DEF Plainly, Control
<1> QED BY <1>5, <1>6

(* compile() calls itself. *)
LEMMA EnterAdvance ==
    ASSUME IInv, IInv', status = "compiling", stack # <<>>, NEW B, Generated(B),
           Plainly(B), NEW self \in ActivationType, NEW child, Compile(child, self),
           Same(Top, self), Slotted(self), hash_to_function' = hash_to_function,
           Linked(B) => Settled(self, hash_to_function)
    PROVE  Generated(B)' /\ (Linked(B) => Linked(B)')
PROOF
<1> DEFINE new == Activation(child)
<1>1. /\ stack \in Seq(ActivationType) /\ Len(stack) \in Nat \ {0}
      /\ \A d \in 1..Len(stack) : Slotted(stack[d])
  BY DEF IInv, Stacked, Generated, Alive
<1>2. /\ Len(stack') = Len(stack) + 1 /\ stack'[Len(stack)] = self
      /\ stack'[Len(stack) + 1] = new
      /\ \A d \in 1..Len(stack) - 1 : stack'[d] = stack[d]
  BY <1>1, AfterCompile
<1>3. Unresolved(new) = {} /\ ~Opened(new) /\ ~Calling(new) /\ Slotted(new)
  BY Fresh
<1> HIDE DEF new
<1>4. Alike(stack, stack') /\ Alike(stack', stack)
  BY <1>1, <1>2, <1>3 DEF Alike, Same, Top
<1>5. \A d \in 1..Len(stack') : Slotted(stack'[d])
  BY <1>1, <1>2, <1>3
<1>6. Generated(B)'
  BY <1>4, <1>5, PlainStep DEF Plainly, Control
<1>7. ASSUME Linked(B) PROVE Linked(B)'
  <2>1. \A d \in 1..Len(stack) : Settled(stack[d], hash_to_function)
    BY <1>7 DEF Linked, Alive
  <2>2. Settled(new, hash_to_function)
    BY <1>3 DEF Settled
  <2>3. \A d \in 1..Len(stack') : Settled(stack'[d], hash_to_function)
    BY <1>1, <1>2, <1>7, <2>1, <2>2
  <2> QED BY <1>4, <1>5, <1>7, <2>3, PlainStep DEF Plainly, Control
<1> QED BY <1>6, <1>7

-----------------------------------------------------------------------------
(* The actions of Cc                                                       *)

(* Only the nodes of a match or a function await targets. *)
LEMMA AwaitsNone ==
    ASSUME IInv, status = "compiling", stack # <<>>, NEW B, Generated(B),
           \/ Top.n.kind # "N_BUILTIN"
           \/ Construct(Top.n.tok) \notin {"match", "function"}
    PROVE  Unresolved(Top) = {} /\ Top.slots = <<>> /\ ~Opened(Top)
PROOF
<1>1. Slotted(Top) /\ Top.slots \in Seq(Nat \cup {NoSlot})
  BY TopSound, ActivationFields DEF IInv, Generated, Alive, Top
<1>2. Top.slots = <<>>
  BY <1>1 DEF Slotted
<1>3. Top.phase = "start"
  BY NotMatching DEF IInv
<1>4. ~Opened(Top)
  BY DEF Opened
<1> QED BY <1>2, <1>3, <1>4 DEF Unresolved

(* What the innermost activation is. *)
LEMMA TopFacts ==
    ASSUME IInv, status = "compiling", stack # <<>>, NEW B, Generated(B)
    PROVE  /\ Top \in ActivationType /\ Top.i \in Nat /\ Top.n \in Nodes /\ Top.mark \in Nat
           /\ Top.slots \in Seq(Nat \cup {NoSlot}) /\ Top.n.ch \in Seq(Nodes)
           /\ Slotted(Top) /\ Len(stack) \in Nat \ {0} /\ Len(stack) \in 1..Len(stack)
           /\ Linked(B) => Settled(Top, hash_to_function)
PROOF
<1>1. Top \in ActivationType /\ Len(stack) \in Nat \ {0}
  BY TopSound DEF IInv
<1>2. /\ Top.i \in Nat /\ Top.n \in Nodes /\ Top.mark \in Nat
      /\ Top.slots \in Seq(Nat \cup {NoSlot}) /\ Top.n.ch \in Seq(Nodes)
  BY <1>1, ActivationFields, NodeType
<1>3. Len(stack) \in 1..Len(stack)
  BY <1>1
<1> QED BY <1>1, <1>2, <1>3 DEF Generated, Linked, Alive, Top

(* The process gives up. *)
LEMMA FailAdvance ==
    ASSUME NEW reason, reason \notin {"compiling", "done"}, Fail(reason)
    PROVE  Advance
PROOF
<1> SUFFICES ASSUME NEW B, Generated(B)
             PROVE  Generated(B)' /\ (Linked(B) => Linked(B)')
  BY DEF Advance
<1>1. ~Alive'
  BY DEF Fail, Alive
<1> QED BY <1>1 DEF Generated, Linked, Fail

(* cc() takes the next top-level node, or is through. *)
LEMMA CompileTopAdvance == IInv /\ IInv' /\ CompileTop => Advance
PROOF
<1> SUFFICES ASSUME IInv, IInv', CompileTop, NEW B, Generated(B)
             PROVE  Generated(B)' /\ (Linked(B) => Linked(B)')
  BY DEF Advance
<1> DEFINE new == Activation(program[next + 1])
<1>1. /\ status = "compiling" /\ stack = <<>> /\ stack' = <<new>> /\ bytecode' = bytecode
      /\ hash_to_function' = hash_to_function
  BY DEF CompileTop
<1>2. Unresolved(new) = {} /\ ~Opened(new) /\ ~Calling(new) /\ Slotted(new)
  BY Fresh
<1> HIDE DEF new
<1>3. Len(stack) = 0 /\ Len(stack') = 1 /\ stack'[1] = new
  BY <1>1
<1>4. Alike(stack, stack') /\ Alike(stack', stack)
  BY <1>2, <1>3 DEF Alike
<1>5. \A d \in 1..Len(stack') : Slotted(stack'[d]) /\ Settled(stack'[d], hash_to_function)
  BY <1>2, <1>3 DEF Settled
<1>6. Plainly(B)
  BY <1>1, UnchangedPlainly DEF IInv
<1> QED BY <1>1, <1>4, <1>5, <1>6, PlainStep DEF Plainly, Control

LEMMA DoneAdvance == IInv /\ Done => Advance
PROOF
<1> SUFFICES ASSUME IInv, Done, NEW B, Generated(B)
             PROVE  Generated(B)' /\ (Linked(B) => Linked(B)')
  BY DEF Advance
<1>1. Alive /\ stack' = stack /\ bytecode' = bytecode /\ hash_to_function' = hash_to_function
  BY DEF Done, Alive
<1> QED BY <1>1 DEF Generated, Linked

(* One instruction emitted by a node that awaits nothing, and no call. *)
LEMMA LeafAdvance ==
    ASSUME IInv, IInv', status = "compiling", stack # <<>>,
           \/ Top.n.kind # "N_BUILTIN"
           \/ Construct(Top.n.tok) \notin {"match", "function"},
           NEW op \in Ops \ (Control \cup {"CALL"}), NEW arg \in Nat \cup {Placeholder},
           Emit(<<Instr(op, arg)>>), Return, hash_to_function' = hash_to_function
    PROVE  Advance
PROOF
<1> SUFFICES ASSUME NEW B, Generated(B)
             PROVE  Generated(B)' /\ (Linked(B) => Linked(B)')
  BY DEF Advance
<1>1. Unresolved(Top) = {}
  BY AwaitsNone
<1>2. /\ <<Instr(op, arg)>> \in Seq(InstrType)
      /\ \A k \in 1..Len(<<Instr(op, arg)>>) :
            <<Instr(op, arg)>>[k].op \notin Control \cup {"CALL"}
  BY Instruction
<1>3. Plainly(B)
  BY <1>2, EmittedPlainly DEF IInv
<1> QED BY <1>1, <1>3, ReturnAdvance

(* Nothing emitted and the same awaited by an activation that goes on. *)
LEMMA DescendAdvance ==
    ASSUME IInv, IInv', status = "compiling", stack # <<>>, NEW B, Generated(B),
           NEW child, NEW self \in ActivationType, Descend(child, self),
           Same(Top, self), Slotted(self),
           Linked(B) => Settled(self, hash_to_function)
    PROVE  Generated(B)' /\ (Linked(B) => Linked(B)')
PROOF
<1>1. bytecode' = bytecode /\ hash_to_function' = hash_to_function /\ Compile(child, self)
  BY DEF Descend
<1>2. Plainly(B)
  BY <1>1, UnchangedPlainly DEF IInv
<1> QED BY <1>1, <1>2, EnterAdvance

LEMMA ReturnOnlyAdvance ==
    ASSUME IInv, IInv', status = "compiling", stack # <<>>, ReturnOnly,
           \/ Top.n.kind # "N_BUILTIN"
           \/ Construct(Top.n.tok) \notin {"match", "function"}
    PROVE  Advance
PROOF
<1> SUFFICES ASSUME NEW B, Generated(B)
             PROVE  Generated(B)' /\ (Linked(B) => Linked(B)')
  BY DEF Advance
<1>1. bytecode' = bytecode /\ hash_to_function' = hash_to_function /\ Return
  BY DEF ReturnOnly
<1>2. Plainly(B)
  BY <1>1, UnchangedPlainly DEF IInv
<1>3. Unresolved(Top) = {}
  BY AwaitsNone
<1> QED BY <1>1, <1>2, <1>3, ReturnAdvance

(* Atoms, aggregates and identifiers. *)
LEMMA AtomAdvance ==
    IInv /\ IInv' /\ (\/ CompileBool \/ CompileCached \/ CompileLiteral
                      \/ CompileAggregate \/ OutOfGlobals \/ CompileIdent) => Advance
PROOF
<1> SUFFICES ASSUME IInv, IInv',
                    \/ CompileBool \/ CompileCached \/ CompileLiteral
                    \/ CompileAggregate \/ OutOfGlobals \/ CompileIdent
             PROVE Advance
  OBVIOUS
<1>1. "LOADG" \in Ops \ (Control \cup {"CALL"}) /\ "LOADV" \in Ops \ (Control \cup {"CALL"})
  BY DEF Ops, Control
<1>2. stack # <<>> => Top.n \in Nodes /\ Top.n.tok \in Tokens
  BY TopSound, NodeType DEF IInv
<1>3. Len(globals) \in Nat
  BY DEF IInv, Pool
<1>4. CASE CompileBool
  <2>1. (IF LitValue[Top.n.tok].type = "True" THEN GLOBAL_TRUE ELSE GLOBAL_FALSE) \in Nat
    BY DEF GLOBAL_TRUE, GLOBAL_FALSE
  <2>2. /\ status = "compiling" /\ stack # <<>> /\ Top.n.kind = "N_ATOM"
        /\ Return /\ hash_to_function' = hash_to_function
        /\ Emit(<<Instr("LOADG", IF LitValue[Top.n.tok].type = "True"
                                 THEN GLOBAL_TRUE ELSE GLOBAL_FALSE)>>)
    BY <1>4 DEF CompileBool, At, Leaf
  <2> QED BY <1>1, <2>1, <2>2, LeafAdvance
<1>5. CASE CompileCached
  <2>1. /\ status = "compiling" /\ stack # <<>> /\ Top.n.kind = "N_ATOM"
        /\ Return /\ hash_to_function' = hash_to_function /\ Cached # 0
        /\ Emit(<<Instr("LOADG", CachedIndex)>>)
    BY <1>5 DEF CompileCached, IsLiteral, At, Leaf
  <2>2. CachedIndex \in Nat
    <3>1. Cached \in Nat
      BY <1>2, <2>1, HashAssumption DEF Cached, IInv, Pool
    <3> QED BY <2>1, <3>1 DEF CachedIndex
  <2> QED BY <1>1, <2>1, <2>2, LeafAdvance
<1>6. CASE CompileLiteral
  <2>1. /\ status = "compiling" /\ stack # <<>> /\ Top.n.kind = "N_ATOM"
        /\ Return /\ hash_to_function' = hash_to_function
        /\ Emit(<<Instr("LOADG", Len(globals))>>)
    BY <1>6 DEF CompileLiteral, IsLiteral, At
  <2> QED BY <1>1, <1>3, <2>1, LeafAdvance
<1>7. CASE CompileAggregate
  <2>1. /\ status = "compiling" /\ stack # <<>> /\ Top.n.kind # "N_BUILTIN"
        /\ Return /\ hash_to_function' = hash_to_function
        /\ Emit(<<Instr("LOADG", Len(globals))>>)
    BY <1>7 DEF CompileAggregate, IsEmptyAggregate, At
  <2> QED BY <1>1, <1>3, <2>1, LeafAdvance
<1>8. CASE OutOfGlobals
  BY <1>8, FailAdvance DEF OutOfGlobals
<1>9. CASE CompileIdent
  <2>1. /\ status = "compiling" /\ stack # <<>> /\ Top.n.kind = "N_IDENT"
        /\ Return /\ hash_to_function' = hash_to_function
        /\ Emit(<<Instr("LOADV", VarHash[Top.n.tok])>>)
    BY <1>9 DEF CompileIdent, At, Leaf
  <2>2. VarHash[Top.n.tok] \in Nat
    BY <1>2, <2>1, HashAssumption, SizeAssumption
  <2> QED BY <1>1, <2>1, <2>2, LeafAdvance
<1> QED BY <1>4, <1>5, <1>6, <1>7, <1>8, <1>9

(* The next child of a node other than a match or a function. *)
LEMMA NextSame ==
    ASSUME IInv, status = "compiling", stack # <<>>, NEW B, Generated(B),
           \/ Top.n.kind # "N_BUILTIN"
           \/ Construct(Top.n.tok) \notin {"match", "function"},
           NEW i \in Nat
    PROVE  LET self == [Top EXCEPT !.i = i]
           IN  /\ self \in ActivationType /\ self.n = Top.n /\ self.i = i
               /\ Same(Top, self) /\ Slotted(self) /\ ~Opened(self)
PROOF
<1> DEFINE self == [Top EXCEPT !.i = i]
<1>1. Top \in ActivationType
  BY TopFacts
<1>2. /\ self \in ActivationType /\ self.n = Top.n /\ self.i = i
      /\ self.slots = Top.slots /\ self.phase = Top.phase /\ self.mark = Top.mark
  BY <1>1 DEF ActivationType
<1> HIDE DEF self
<1>3. Unresolved(Top) = {} /\ Top.slots = <<>> /\ ~Opened(Top)
  BY AwaitsNone
<1>4. ~Opened(self)
  BY <1>2 DEF Opened
<1>5. Unresolved(self) = {}
  <2>1. Top.phase = "start"
    BY NotMatching DEF IInv
  <2> QED BY <1>2, <1>3, <1>4, <2>1 DEF Unresolved
<1>6. Slotted(self)
  <2>1. Top.phase = "start"
    BY NotMatching DEF IInv
  <2> QED BY <1>2, <1>3, <2>1 DEF Slotted
<1> QED BY <1>2, <1>3, <1>4, <1>5, <1>6 DEF Same, self

(* N_BIN *)
LEMMA OperandAdvance ==
    IInv /\ IInv' /\ (NextOperand \/ SingleOperand \/ CompileBin) => Advance
PROOF
<1> SUFFICES ASSUME IInv, IInv', NextOperand \/ SingleOperand \/ CompileBin PROVE Advance
  OBVIOUS
<1>1. /\ status = "compiling" /\ stack # <<>> /\ Top.n.kind = "N_BIN"
      /\ Top.n.kind # "N_BUILTIN"
  BY DEF NextOperand, SingleOperand, CompileBin, At
<1>2. CASE NextOperand
  <2> SUFFICES ASSUME NEW B, Generated(B)
               PROVE  Generated(B)' /\ (Linked(B) => Linked(B)')
    BY DEF Advance
  <2> DEFINE self == [Top EXCEPT !.i = Top.i + 1]
  <2>1. Top.i + 1 \in Nat
    BY <1>1, TopFacts
  <2>2. /\ self \in ActivationType /\ self.n = Top.n
        /\ Same(Top, self) /\ Slotted(self) /\ ~Opened(self)
    BY <1>1, <2>1, NextSame
  <2>3. Descend(Top.n.ch[Top.i + 1], self)
    BY <1>2 DEF NextOperand
  <2> HIDE DEF self
  <2>4. Settled(self, hash_to_function)
    BY <1>1, <2>2 DEF Settled, Calling
  <2> QED BY <1>1, <2>2, <2>3, <2>4, DescendAdvance
<1>3. CASE SingleOperand
  BY <1>1, <1>3, ReturnOnlyAdvance DEF SingleOperand
<1>4. CASE CompileBin
  <2>1. Top.n.tok \in BinOps /\ Top.regs[1] \in Nat
    <3>1. Shape(Top) /\ Top.regs \in Seq(Nat) /\ Top.n.tok \in BinOps /\ Top.n.kind = "N_BIN"
      BY <1>1, TopSound, ActivationFields, NodeType DEF IInv, Sound
    <3>2. Len(Top.regs) = 1
      BY <1>4, <3>1 DEF Shape, CompileBin
    <3> QED BY <3>1, <3>2
  <2>2. Top.n.tok \in Ops \ (Control \cup {"CALL"})
    BY <2>1 DEF BinOps, Ops, Control
  <2>3. /\ Return /\ hash_to_function' = hash_to_function
        /\ Emit(<<Instr(Top.n.tok, Top.regs[1])>>)
    BY <1>4 DEF CompileBin
  <2> QED BY <1>1, <2>1, <2>2, <2>3, LeafAdvance
<1> QED BY <1>2, <1>3, <1>4

(* the nodes with arguments are neither match nor function *)
LEMMA AtArgumentsKind ==
    ASSUME AtArguments
    PROVE  /\ status = "compiling" /\ stack # <<>>
           /\ Top.n.kind # "N_BUILTIN" \/ Construct(Top.n.tok) \notin {"match", "function"}
  BY DEF AtArguments, IsRuntimeCall, AtConstruct, Callable, At

(* A call whose arguments are being compiled, or that has none, goes to a  *)
(* completed function with that many parameters.                           *)
LEMMA CalleeCompleted ==
    ASSUME IInv, Callable, ~ElidedCall, NEW B, Generated(B), Linked(B)
    PROVE  /\ Callee(Top.n.tok).size > 0
           /\ Callee(Top.n.tok).argument_count = Len(Top.n.ch)
           /\ \E b \in B : /\ b.start = Callee(Top.n.tok).bytecode_index
                           /\ b.params = Len(Top.n.ch)
PROOF
<1>1. status = "compiling" /\ stack # <<>> /\ Top.n.kind = "N_CALL"
  BY DEF Callable, At
<1>2. Top.n \in Nodes /\ Top.n.tok \in Tokens /\ Top.i \in Nat
  BY <1>1, TopFacts, NodeType
<1> DEFINE h == FnHash[Top.n.tok]
           f == hash_to_function[h]
<1>3. h \in 0..MAX_BUILTIN_SIZE - 1 /\ f \in CtxFunction /\ f.size \in Nat
      /\ Callee(Top.n.tok) = f
  BY <1>2, HashAssumption DEF IInv, Functions, CtxFunction, Callee
<1>4. f.size > 0 /\ f.argument_count = Len(Top.n.ch)
  <2>1. CASE Top.i = 0
    BY <1>3, <2>1 DEF Callable, ElidedCall
  <2>2. CASE Top.i # 0
    <3>1. Settled(Top, hash_to_function) /\ Calling(Top)
      BY <1>1, <1>2, <2>2, TopFacts DEF Calling
    <3> QED BY <3>1 DEF Settled
  <2> QED BY <2>1, <2>2
<1>5. [start |-> f.bytecode_index, end |-> f.bytecode_index + f.size,
       params |-> f.argument_count] \in B
  BY <1>1, <1>3, <1>4 DEF Linked, Alive, Filled
<1> HIDE DEF f, h
<1> QED BY <1>3, <1>4, <1>5

(* The code a call emits. *)
LEMMA CallCode ==
    ASSUME NEW n \in Nodes, NEW op \in {"BUILTIN", "CALL"}, NEW arg \in Nat
    PROVE  LET code == Args(n) \o <<Instr(op, arg)>>
           IN  /\ code \in Seq(InstrType)
               /\ \A k \in 1..Len(code) :
                     \/ code[k].op = "ARGS"
                     \/ code[k] = Instr(op, arg)
PROOF
<1> DEFINE code == Args(n) \o <<Instr(op, arg)>>
<1>1. Len(n.ch) \in Nat
  BY NodeType
<1>2. /\ <<Instr(op, arg)>> \in Seq(InstrType) /\ Len(<<Instr(op, arg)>>) = 1
      /\ <<Instr(op, arg)>>[1] = Instr(op, arg)
  BY Instruction DEF Ops
<1>3. /\ Args(n) \in Seq(InstrType)
      /\ \A k \in 1..Len(Args(n)) : Args(n)[k].op = "ARGS"
  <2>1. CASE Len(n.ch) > 1
    <3>1. Args(n) = <<Instr("ARGS", Len(n.ch))>>
      BY <2>1 DEF Args
    <3>2. "ARGS" \in Ops
      BY DEF Ops
    <3> QED BY <1>1, <3>1, <3>2, Instruction
  <2>2. CASE ~(Len(n.ch) > 1)
    BY <2>2 DEF Args
  <2> QED BY <2>1, <2>2
<1> QED BY <1>2, <1>3, ConcatProperties

(* the arguments of runtime builtins and calls, and what both end with *)
LEMMA CallAdvance ==
    IInv /\ IInv' /\ (\/ CompileElidedCall \/ NextArgument \/ StoreOperand
                      \/ OutOfRegisters \/ EmitBuiltin \/ EmitCall) => Advance
PROOF
<1> SUFFICES ASSUME IInv, IInv',
                    \/ CompileElidedCall \/ NextArgument \/ StoreOperand
                    \/ OutOfRegisters \/ EmitBuiltin \/ EmitCall
             PROVE Advance
  OBVIOUS
<1>1. CASE CompileElidedCall
  <2>1. status = "compiling" /\ stack # <<>> /\ Top.n.kind # "N_BUILTIN" /\ ReturnOnly
    BY <1>1 DEF CompileElidedCall, ElidedCall, Callable, At
  <2> QED BY <2>1, ReturnOnlyAdvance
<1>2. CASE NextArgument
  <2> SUFFICES ASSUME NEW B, Generated(B)
               PROVE  Generated(B)' /\ (Linked(B) => Linked(B)')
    BY DEF Advance
  <2> DEFINE self == [Top EXCEPT !.i = Top.i + 1]
  <2>1. /\ status = "compiling" /\ stack # <<>> /\ AtArguments
        /\ Top.n.kind # "N_BUILTIN" \/ Construct(Top.n.tok) \notin {"match", "function"}
    BY <1>2, AtArgumentsKind DEF NextArgument
  <2>2. Top.i + 1 \in Nat
    BY <2>1, TopFacts
  <2>3. /\ self \in ActivationType /\ self.n = Top.n
        /\ Same(Top, self) /\ Slotted(self) /\ ~Opened(self)
    BY <2>1, <2>2, NextSame
  <2>4. Descend(Top.n.ch[Top.i + 1], self)
    BY <1>2 DEF NextArgument
  <2> HIDE DEF self
  <2>5. ASSUME Linked(B) PROVE Settled(self, hash_to_function)
    <3>1. ASSUME Calling(self)
          PROVE  /\ hash_to_function[FnHash[self.n.tok]].size > 0
                 /\ hash_to_function[FnHash[self.n.tok]].argument_count = Len(self.n.ch)
      <4>1. Callable /\ ~ElidedCall
        BY <2>1, <2>3, <3>1 DEF Calling, AtArguments, IsRuntimeCall, AtConstruct, At
      <4> QED BY <2>3, <2>5, <4>1, CalleeCompleted DEF Callee
    <3> QED BY <2>3, <3>1 DEF Settled
  <2> QED BY <2>1, <2>3, <2>4, <2>5, DescendAdvance
<1>3. CASE StoreOperand
  <2> SUFFICES ASSUME NEW B, Generated(B)
               PROVE  Generated(B)' /\ (Linked(B) => Linked(B)')
    BY DEF Advance
  <2> DEFINE self == [Top EXCEPT !.regs = Append(@, register_allocated_count)]
  <2>1. /\ status = "compiling" /\ stack # <<>>
        /\ Top.n.kind # "N_BUILTIN" \/ Construct(Top.n.tok) \notin {"match", "function"}
    BY <1>3, AtArgumentsKind DEF StoreOperand, Storing, At
  <2>2. /\ Emit(<<Instr("STORE", register_allocated_count)>>)
        /\ Continue(self) /\ hash_to_function' = hash_to_function
    BY <1>3 DEF StoreOperand
  <2>3. register_allocated_count \in Nat
    BY SizeAssumption DEF IInv, Stacked
  <2>4. /\ <<Instr("STORE", register_allocated_count)>> \in Seq(InstrType)
        /\ \A k \in 1..Len(<<Instr("STORE", register_allocated_count)>>) :
              <<Instr("STORE", register_allocated_count)>>[k].op \notin Control \cup {"CALL"}
    <3>1. "STORE" \in Ops /\ "STORE" \notin Control \cup {"CALL"}
      BY DEF Ops, Control
    <3> QED BY <2>3, <3>1, Instruction
  <2>5. Plainly(B)
    BY <2>1, <2>2, <2>4, EmittedPlainly DEF IInv
  <2>6. Top \in ActivationType /\ Top.regs \in Seq(Nat)
    BY <2>1, TopFacts, ActivationFields
  <2>7. /\ self \in ActivationType /\ self.n = Top.n /\ self.i = Top.i
        /\ self.slots = Top.slots /\ self.phase = Top.phase /\ self.mark = Top.mark
    <3>1. Append(Top.regs, register_allocated_count) \in Seq(Nat)
      BY <2>3, <2>6
    <3> QED BY <2>6, <3>1 DEF ActivationType
  <2> HIDE DEF self
  <2>8. (Opened(self) <=> Opened(Top)) /\ (Calling(self) <=> Calling(Top))
    BY <2>7 DEF Opened, Calling
  <2>9. Same(Top, self)
    BY <2>7, <2>8 DEF Same, Unresolved
  <2>10. Slotted(self)
    BY <2>1, <2>7, TopFacts DEF Slotted
  <2>11. ASSUME Linked(B) PROVE Settled(self, hash_to_function)
    <3>1. Settled(Top, hash_to_function)
      BY <2>1, <2>11, TopFacts
    <3> QED BY <2>7, <2>8, <3>1 DEF Settled, Arity
  <2> QED BY <2>1, <2>2, <2>5, <2>7, <2>9, <2>10, <2>11, ContinueAdvance
<1>4. CASE OutOfRegisters
  BY <1>4, FailAdvance DEF OutOfRegisters
<1>5. CASE EmitBuiltin
  <2> SUFFICES ASSUME NEW B, Generated(B)
               PROVE  Generated(B)' /\ (Linked(B) => Linked(B)')
    BY DEF Advance
  <2> DEFINE code == Args(Top.n) \o <<Instr("BUILTIN", FnHash[Top.n.tok])>>
  <2>1. /\ status = "compiling" /\ stack # <<>> /\ Emit(code) /\ Return
        /\ Top.n.kind # "N_BUILTIN" \/ Construct(Top.n.tok) \notin {"match", "function"}
        /\ hash_to_function' = hash_to_function
    BY <1>5 DEF EmitBuiltin, IsRuntimeCall, AtConstruct, At
  <2>2. Top.n \in Nodes /\ FnHash[Top.n.tok] \in Nat
    BY <2>1, TopFacts, NodeType, HashAssumption, SizeAssumption
  <2>3. /\ code \in Seq(InstrType)
        /\ \A k \in 1..Len(code) : code[k].op \notin Control \cup {"CALL"}
    <3>1. /\ code \in Seq(InstrType)
          /\ \A k \in 1..Len(code) :
                code[k].op = "ARGS" \/ code[k] = Instr("BUILTIN", FnHash[Top.n.tok])
      BY <2>2, CallCode
    <3> HIDE DEF code
    <3> QED BY <3>1 DEF Instr, Control
  <2> HIDE DEF code
  <2>4. Plainly(B)
    BY <2>1, <2>3, EmittedPlainly DEF IInv
  <2> QED BY <2>1, <2>4, AwaitsNone, ReturnAdvance
<1>6. CASE EmitCall
  <2> SUFFICES ASSUME NEW B, Generated(B)
               PROVE  Generated(B)' /\ (Linked(B) => Linked(B)')
    BY DEF Advance
  <2> DEFINE target == Callee(Top.n.tok).bytecode_index
             code == Args(Top.n) \o <<Instr("CALL", target)>>
  <2>1. /\ status = "compiling" /\ stack # <<>> /\ Emit(code) /\ Return
        /\ Top.n.kind # "N_BUILTIN" /\ Callable /\ ~ElidedCall /\ ArgumentsStored
        /\ hash_to_function' = hash_to_function
    BY <1>6 DEF EmitCall, Callable, At
  <2>2. Top.n \in Nodes /\ target \in Nat
    <3>1. Top.n \in Nodes /\ Top.n.tok \in Tokens
      BY <2>1, TopFacts, NodeType
    <3> QED BY <3>1, HashAssumption DEF IInv, Functions, CtxFunction, Callee
  <2> HIDE DEF target
  <2>3. /\ code \in Seq(InstrType)
        /\ \A k \in 1..Len(code) : code[k].op = "ARGS" \/ code[k] = Instr("CALL", target)
    BY <2>2, CallCode
  <2> HIDE DEF code
  <2>4. bytecode \in Seq(InstrType) /\ Len(bytecode) \in Nat
    BY DEF IInv, Code
  <2>5. /\ Len(bytecode) <= Len(bytecode')
        /\ \A x \in 0..Len(bytecode) - 1 : bytecode'[x + 1] = bytecode[x + 1]
        /\ \A x \in Len(bytecode)..Len(bytecode') - 1 :
              /\ x - Len(bytecode) + 1 \in 1..Len(code)
              /\ bytecode'[x + 1] = code[x - Len(bytecode) + 1]
    BY <2>1, <2>3, Appended DEF IInv
  <2>6. ASSUME NEW x \in Len(bytecode)..Len(bytecode') - 1
        PROVE  /\ Op(bytecode', x) \notin Control
               /\ Op(bytecode', x) = "CALL" => To(bytecode', x) = target
    BY <2>3, <2>5 DEF Instr, Control, Op, To
  <2>7. ASSUME NEW x \in Len(bytecode)..Len(bytecode') - 1, Op(bytecode', x) = "CALL", Linked(B)
        PROVE \E b \in B : /\ b.start = To(bytecode', x) /\ b.end <= x
                           /\ b.params <= REGISTERS /\ Framed(bytecode', b)
    <3>1. PICK b \in B : b.start = target /\ b.params = Len(Top.n.ch)
      BY <2>1, <2>7, CalleeCompleted DEF target
    <3>2. Closed(bytecode, stack, B)
      BY <2>1 DEF Generated, Alive, Layout
    <3>3. b.end \in Nat /\ b.end <= Len(bytecode)
      BY <3>2 DEF Closed, Framed, Body
    <3>4. Framed(bytecode', b)
      <4>1. Kept(bytecode, bytecode', stack)
        BY <2>5 DEF Kept, Op, To
      <4>2. bytecode' \in Seq(InstrType)
        BY DEF IInv, Code
      <4> QED BY <2>4, <2>5, <3>2, <4>1, <4>2, FramedKept
    <3>5. Len(Top.n.ch) <= REGISTERS
      <4>1. /\ Top.base \in Nat /\ Top.base >= 1 /\ Len(Top.regs) \in Nat
            /\ register_allocated_count = Top.base + Len(Top.regs)
            /\ register_allocated_count \in 1..REGISTERS
        BY <2>1, TopFacts, ActivationFields
           DEF IInv, Stacked, Ordered, Chained, Reaching, End, Top
      <4>2. Len(Top.n.ch) = Len(Top.regs)
        BY <2>1 DEF ArgumentsStored
      <4> QED BY <4>1, <4>2, SizeAssumption
    <3>6. b.end <= x
      BY <2>4, <3>3
    <3> QED BY <2>6, <2>7, <3>1, <3>4, <3>5, <3>6
  <2>8. Plainly(B)
    BY <2>5, <2>6, <2>7 DEF Plainly
  <2> QED BY <2>1, <2>8, AwaitsNone, ReturnAdvance
<1> QED BY <1>1, <1>2, <1>3, <1>4, <1>5, <1>6

(* @None, @assert and @let *)
LEMMA BuiltinAdvance ==
    IInv /\ IInv' /\ (\/ CompileNone \/ AssertChild \/ CompileAssert
                      \/ LetValue \/ LetBind) => Advance
PROOF
<1> SUFFICES ASSUME IInv, IInv',
                    CompileNone \/ AssertChild \/ CompileAssert \/ LetValue \/ LetBind
             PROVE Advance
  OBVIOUS
<1>1. /\ status = "compiling" /\ stack # <<>> /\ Top.n.kind = "N_BUILTIN"
      /\ Construct(Top.n.tok) \notin {"match", "function"}
  BY DEF CompileNone, AssertChild, CompileAssert, LetValue, LetBind, AtConstruct, At
<1>2. {"LOADG", "ASSERT", "VAR"} \subseteq Ops \ (Control \cup {"CALL"})
  BY DEF Ops, Control
<1>3. CASE CompileNone
  <2>1. GLOBAL_NONE \in Nat /\ Emit(<<Instr("LOADG", GLOBAL_NONE)>>)
        /\ Return /\ hash_to_function' = hash_to_function
    BY <1>3 DEF CompileNone, Leaf, GLOBAL_NONE
  <2> QED BY <1>1, <1>2, <2>1, LeafAdvance
<1>4. ASSUME NEW i \in Nat, NEW child, Descend(child, [Top EXCEPT !.i = i])
      PROVE  Advance
  <2> SUFFICES ASSUME NEW B, Generated(B)
               PROVE  Generated(B)' /\ (Linked(B) => Linked(B)')
    BY DEF Advance
  <2> DEFINE self == [Top EXCEPT !.i = i]
  <2>1. /\ self \in ActivationType /\ self.n = Top.n
        /\ Same(Top, self) /\ Slotted(self) /\ ~Opened(self)
    BY <1>1, NextSame
  <2>2. Descend(child, self)
    BY <1>4
  <2> HIDE DEF self
  <2>3. Settled(self, hash_to_function)
    BY <1>1, <2>1 DEF Settled, Calling
  <2> QED BY <1>1, <2>1, <2>2, <2>3, DescendAdvance
<1>5. CASE AssertChild
  <2>1. Top.i + 1 \in Nat
    BY <1>1, TopSound, ActivationFields DEF IInv
  <2>2. Descend(Top.n.ch[Top.i + 1], [Top EXCEPT !.i = Top.i + 1])
    BY <1>5 DEF AssertChild
  <2> QED BY <1>4, <2>1, <2>2
<1>6. CASE CompileAssert
  <2>1. Emit(<<Instr("ASSERT", 0)>>) /\ Return /\ hash_to_function' = hash_to_function
    BY <1>6 DEF CompileAssert, Leaf
  <2> QED BY <1>1, <1>2, <2>1, LeafAdvance
<1>7. CASE LetValue
  <2>1. Descend(Top.n.ch[2], [Top EXCEPT !.i = 1])
    BY <1>7 DEF LetValue
  <2> QED BY <1>4, <2>1
<1>8. CASE LetBind
  <2>1. /\ Emit(<<Instr("VAR", VarHash[Top.n.ch[1].tok])>>)
        /\ Return /\ hash_to_function' = hash_to_function
    BY <1>8 DEF LetBind, Leaf
  <2>2. VarHash[Top.n.ch[1].tok] \in Nat
    <3>1. Top.n \in Nodes /\ Len(Top.n.ch) = 2
      BY <1>1, <1>8, TopSound DEF IInv, LetBind
    <3>2. Top.n.ch[1].tok \in Tokens
      BY <3>1, NodeType
    <3> QED BY <3>2, HashAssumption, SizeAssumption
  <2> QED BY <1>1, <1>2, <2>1, <2>2, LeafAdvance
<1> QED BY <1>3, <1>5, <1>6, <1>7, <1>8

-----------------------------------------------------------------------------
(* @match                                                                  *)

(* A step of the innermost match: the jumps it awaits may change, it is no *)
(* function and no call before and after.  What is true of the others      *)
(* stays.                                                                  *)
LEMMA MatchStep ==
    ASSUME IInv, IInv', status = "compiling", stack # <<>>, NEW B, Generated(B),
           ~Opened(Top), Len(bytecode) <= Len(bytecode'),
           Kept(bytecode, bytecode', stack),
           \A x \in Len(bytecode)..Len(bytecode') - 1 :
              Op(bytecode', x) \notin {"LOAD", "CALL"},
           \A d \in 1..Len(stack) - 1 : d <= Len(stack') /\ stack'[d] = stack[d],
           \A d \in Len(stack)..Len(stack') :
              ~Opened(stack'[d]) /\ ~Calling(stack'[d]) /\ Slotted(stack'[d]),
           Alive' => Layout(bytecode', stack', B),
           hash_to_function' = hash_to_function
    PROVE  Generated(B)' /\ (Linked(B) => Linked(B)')
PROOF
<1>1. /\ bytecode \in Seq(InstrType) /\ bytecode' \in Seq(InstrType)
      /\ stack \in Seq(ActivationType) /\ Len(stack) \in Nat \ {0}
      /\ stack' \in Seq(ActivationType) /\ Len(stack') \in Nat
  BY DEF IInv, Code, Stacked
<1>2. /\ Layout(bytecode, stack, B) /\ Headers(bytecode, stack, B)
      /\ Closed(bytecode, stack, B) /\ \A d \in 1..Len(stack) : Slotted(stack[d])
  BY DEF Generated, Alive, Layout
<1>3. ASSUME NEW d \in 1..Len(stack')
      PROVE  \/ d \in 1..Len(stack) - 1 /\ stack'[d] = stack[d]
             \/ ~Opened(stack'[d]) /\ ~Calling(stack'[d]) /\ Slotted(stack'[d])
  BY <1>1
<1>4. \A d \in 1..Len(stack') : Slotted(stack'[d])
  BY <1>1, <1>2, <1>3
<1>5. StillOpen(stack', stack)
  BY <1>1, <1>3 DEF StillOpen
<1>6. StillOpen(stack, stack')
  <2> SUFFICES ASSUME NEW d \in 1..Len(stack), Opened(stack[d])
               PROVE  d \in 1..Len(stack') /\ stack'[d] = stack[d]
    BY DEF StillOpen
  <2>1. d \in 1..Len(stack) - 1
    BY <1>1 DEF Top
  <2> QED BY <1>1, <2>1
<1>7. Headers(bytecode', stack', B)
  <2>1. \A d \in 1..Len(stack) : stack[d].mark \in Nat
    BY <1>1, ActivationFields
  <2>2. \A x \in Len(bytecode)..Len(bytecode') - 1 : Op(bytecode', x) # "LOAD"
    OBVIOUS
  <2> QED BY <1>1, <1>2, <1>5, <1>6, <2>1, <2>2, HeadersKept
<1>8. Generated(B)'
  BY <1>4, <1>7 DEF Generated
<1>9. ASSUME Linked(B) PROVE Linked(B)'
  <2>1. /\ Enters(bytecode, B) /\ Filled(hash_to_function, B)
        /\ \A d \in 1..Len(stack) : Settled(stack[d], hash_to_function)
    BY <1>9 DEF Linked, Alive
  <2>2. Enters(bytecode', B)
    <3>1. \A x \in Len(bytecode)..Len(bytecode') - 1 : Op(bytecode', x) # "CALL"
      OBVIOUS
    <3> QED BY <1>1, <1>2, <2>1, <3>1, EntersKept
  <2>3. ASSUME NEW d \in 1..Len(stack') PROVE Settled(stack'[d], hash_to_function)
    BY <1>1, <1>3, <2>1 DEF Settled
  <2> QED BY <1>9, <2>1, <2>2, <2>3 DEF Linked
<1> QED BY <1>8, <1>9

(* the addresses a slot sequence names, with one more slot *)
Slots(slots) == {slots[k] : k \in 1..Len(slots)} \ {NoSlot}

LEMMA SlotsAppended ==
    ASSUME NEW slots \in Seq(Nat \cup {NoSlot}), NEW slot \in Nat \cup {NoSlot}
    PROVE  /\ Append(slots, slot) \in Seq(Nat \cup {NoSlot})
           /\ Slots(Append(slots, slot)) = Slots(slots) \cup ({slot} \ {NoSlot})
           /\ Len(Append(slots, slot)) = Len(slots) + 1
           /\ \A k \in 1..Len(slots) : Append(slots, slot)[k] = slots[k]
           /\ Append(slots, slot)[Len(slots) + 1] = slot
PROOF
<1> DEFINE more == Append(slots, slot)
<1>1. /\ more \in Seq(Nat \cup {NoSlot}) /\ Len(more) = Len(slots) + 1
      /\ \A k \in 1..Len(slots) : more[k] = slots[k]
      /\ more[Len(slots) + 1] = slot /\ Len(slots) \in Nat
  OBVIOUS
<1> HIDE DEF more
<1>2. ASSUME NEW x PROVE x \in Slots(more) <=> x \in Slots(slots) \cup ({slot} \ {NoSlot})
  <2>1. x \in Slots(more) <=> x # NoSlot /\ \E k \in 1..Len(slots) + 1 : x = more[k]
    BY <1>1 DEF Slots
  <2>2. x \in Slots(slots) <=> x # NoSlot /\ \E k \in 1..Len(slots) : x = slots[k]
    BY DEF Slots
  <2>3. (\E k \in 1..Len(slots) + 1 : x = more[k])
          <=> (\E k \in 1..Len(slots) : x = slots[k]) \/ x = slot
    <3>1. ASSUME NEW k \in 1..Len(slots) + 1, x = more[k]
          PROVE  (\E j \in 1..Len(slots) : x = slots[j]) \/ x = slot
      <4>1. k \in 1..Len(slots) \/ k = Len(slots) + 1
        BY <1>1
      <4> QED BY <1>1, <3>1, <4>1
    <3>2. ASSUME NEW k \in 1..Len(slots), x = slots[k]
          PROVE  \E j \in 1..Len(slots) + 1 : x = more[j]
      BY <1>1, <3>2
    <3>3. ASSUME x = slot PROVE \E j \in 1..Len(slots) + 1 : x = more[j]
      BY <1>1, <3>3
    <3> QED BY <3>1, <3>2, <3>3
  <2> QED BY <2>1, <2>2, <2>3
<1> QED BY <1>1, <1>2 DEF more

(* what a match awaits, in which phase *)
LEMMA MatchAwaits ==
    ASSUME NEW a, Construct(a.n.tok) # "function"
    PROVE  /\ ~Opened(a)
           /\ Unresolved(a) = Slots(a.slots) \cup (IF a.phase = "body" THEN {a.mark} ELSE {})
  BY DEF Opened, Unresolved, Slots

(* The match node at work. *)
LEMMA AtMatch ==
    ASSUME IInv, AtConstruct("match"), NEW B, Generated(B)
    PROVE  /\ status = "compiling" /\ stack # <<>> /\ Top.n.kind = "N_BUILTIN"
           /\ Construct(Top.n.tok) = "match" /\ ~Opened(Top) /\ ~Calling(Top)
           /\ Top \in ActivationType /\ Top.i \in Nat
           /\ Top.slots \in Seq(Nat \cup {NoSlot}) /\ Len(Top.slots) = Top.i
           /\ Unresolved(Top) = Slots(Top.slots)
                                  \cup (IF Top.phase = "body" THEN {Top.mark} ELSE {})
           /\ Slotted(Top) /\ Len(stack) \in Nat \ {0} /\ Len(Top.n.ch) \in Nat
PROOF
<1>1. /\ status = "compiling" /\ stack # <<>> /\ Top.n.kind = "N_BUILTIN"
      /\ Construct(Top.n.tok) = "match"
  BY DEF AtConstruct, At
<1>2. /\ Top \in ActivationType /\ Top.i \in Nat /\ Top.slots \in Seq(Nat \cup {NoSlot})
      /\ Slotted(Top) /\ Len(stack) \in Nat \ {0} /\ Len(Top.n.ch) \in Nat
  BY <1>1, TopFacts
<1>3. Len(Top.slots) = Top.i
  BY <1>1, <1>2 DEF Slotted
<1>4. ~Calling(Top)
  BY <1>1 DEF Calling
<1> QED BY <1>1, <1>2, <1>3, <1>4, MatchAwaits

(* A condition or a default is compiled. *)
LEMMA MatchDescend ==
    ASSUME IInv, IInv', NEW phase \in {"condition", "default"}, AtCase("start"),
           NEW child, Descend(child, [Top EXCEPT !.phase = phase])
    PROVE  Advance
PROOF
<1> SUFFICES ASSUME NEW B, Generated(B)
             PROVE  Generated(B)' /\ (Linked(B) => Linked(B)')
  BY DEF Advance
<1> DEFINE self == [Top EXCEPT !.phase = phase]
<1>1. AtConstruct("match") /\ Top.i < Len(Top.n.ch) /\ Top.phase = "start"
  BY DEF AtCase
<1>2. Top \in ActivationType /\ Slotted(Top) /\ status = "compiling" /\ stack # <<>>
  BY <1>1, AtMatch
<1>3. /\ self \in ActivationType /\ self.n = Top.n /\ self.i = Top.i
      /\ self.slots = Top.slots /\ self.phase = phase /\ self.mark = Top.mark
  BY <1>2 DEF ActivationType, Phases
<1>4. Descend(child, self)
  OBVIOUS
<1> HIDE DEF self
<1>5. Same(Top, self)
  <2>1. Construct(Top.n.tok) # "function"
    BY <1>1, AtMatch
  <2>2. /\ ~Opened(Top) /\ ~Opened(self)
        /\ Unresolved(Top) = Slots(Top.slots) /\ Unresolved(self) = Slots(self.slots)
    BY <1>1, <1>3, <2>1, MatchAwaits
  <2> QED BY <1>3, <2>2 DEF Same
<1>6. Slotted(self)
  BY <1>1, <1>2, <1>3 DEF Slotted
<1>7. Settled(self, hash_to_function)
  <2>1. ~Opened(self) /\ ~Calling(self)
    BY <1>1, <1>3, <1>5, AtMatch DEF Calling, Same
  <2> QED BY <2>1 DEF Settled
<1> QED BY <1>2, <1>3, <1>4, <1>5, <1>6, <1>7, DescendAdvance

(* The default case is through. *)
LEMMA MatchDefaultEndAdvance == IInv /\ IInv' /\ MatchDefaultEnd => Advance
PROOF
<1> SUFFICES ASSUME IInv, IInv', MatchDefaultEnd, NEW B, Generated(B)
             PROVE  Generated(B)' /\ (Linked(B) => Linked(B)')
  BY DEF Advance
<1> DEFINE slots == Append(Top.slots, NoSlot)
           self == [Top EXCEPT !.i = @ + 1, !.phase = "start", !.default = TRUE,
                               !.slots = slots]
<1>1. AtConstruct("match") /\ Top.i < Len(Top.n.ch) /\ Top.phase = "default"
  BY DEF MatchDefaultEnd, AtCase
<1>2. /\ Top \in ActivationType /\ Slotted(Top) /\ status = "compiling" /\ stack # <<>>
      /\ Top.slots \in Seq(Nat \cup {NoSlot}) /\ Len(Top.slots) = Top.i /\ Top.i \in Nat
      /\ Construct(Top.n.tok) = "match" /\ Top.n.kind = "N_BUILTIN"
  BY <1>1, AtMatch
<1>3. /\ Continue(self) /\ bytecode' = bytecode /\ hash_to_function' = hash_to_function
  BY DEF MatchDefaultEnd
<1>4. /\ slots \in Seq(Nat \cup {NoSlot}) /\ Slots(slots) = Slots(Top.slots)
      /\ Len(slots) = Top.i + 1 /\ \A k \in 1..Len(Top.slots) : slots[k] = Top.slots[k]
      /\ slots[Top.i + 1] = NoSlot
  <2>1. NoSlot \in Nat \cup {NoSlot}
    OBVIOUS
  <2>2. /\ slots \in Seq(Nat \cup {NoSlot})
        /\ Slots(slots) = Slots(Top.slots) \cup ({NoSlot} \ {NoSlot})
        /\ Len(slots) = Len(Top.slots) + 1
        /\ \A k \in 1..Len(Top.slots) : slots[k] = Top.slots[k]
        /\ slots[Len(Top.slots) + 1] = NoSlot
    BY <1>2, <2>1, SlotsAppended
  <2> HIDE DEF slots
  <2> QED BY <1>2, <2>2
<1> HIDE DEF slots
<1>5. /\ self \in ActivationType /\ self.n = Top.n /\ self.i = Top.i + 1
      /\ self.slots = slots /\ self.phase = "start" /\ self.mark = Top.mark
  <2>1. self \in ActivationType
    BY <1>2, <1>4, CaseFinished
  <2>2. /\ self.n = Top.n /\ self.i = Top.i + 1
        /\ self.slots = slots /\ self.phase = "start" /\ self.mark = Top.mark
    BY <1>2 DEF ActivationType
  <2> QED BY <2>1, <2>2
<1> HIDE DEF self
<1>6. Same(Top, self)
  <2>1. /\ ~Opened(Top) /\ ~Opened(self)
        /\ Unresolved(Top) = Slots(Top.slots) /\ Unresolved(self) = Slots(self.slots)
    BY <1>1, <1>2, <1>5, MatchAwaits
  <2> QED BY <1>4, <1>5, <2>1 DEF Same
<1>7. Slotted(self)
  <2>1. ASSUME NEW k \in 1..Len(slots), slots[k] # NoSlot PROVE k < Len(Top.n.ch)
    <3>1. k \in 1..Len(Top.slots) /\ Top.slots[k] # NoSlot
      BY <1>2, <1>4, <2>1
    <3> QED BY <1>2, <3>1 DEF Slotted
  <2> QED BY <1>2, <1>4, <1>5, <2>1 DEF Slotted
<1>8. Settled(self, hash_to_function)
  <2>1. ~Opened(self) /\ ~Calling(self)
    BY <1>2, <1>5, <1>6, MatchAwaits DEF Calling
  <2> QED BY <2>1 DEF Settled
<1>9. Plainly(B)
  BY <1>3, UnchangedPlainly DEF IInv
<1> QED BY <1>2, <1>3, <1>5, <1>6, <1>7, <1>8, <1>9, ContinueAdvance

(* Code that was written and did not overflow is all there. *)
LEMMA WrittenAll ==
    ASSUME NEW code, Write(code), Alive'
    PROVE  bytecode' = code
  BY DEF Write, Alive

(* One jump without a target is emitted. *)
LEMMA JumpEmitted ==
    ASSUME Code, status = "compiling", NEW op \in {"JMP", "JMPF"},
           Emit(<<Instr(op, Placeholder)>>)
    PROVE  /\ Len(bytecode) <= Len(bytecode')
           /\ \A x \in 0..Len(bytecode) - 1 : bytecode'[x + 1] = bytecode[x + 1]
           /\ \A x \in Len(bytecode)..Len(bytecode') - 1 : Op(bytecode', x) = op
           /\ Alive' => Len(bytecode') = Len(bytecode) + 1
PROOF
<1> DEFINE jmp == <<Instr(op, Placeholder)>>
<1>1. jmp \in Seq(InstrType) /\ Len(jmp) = 1 /\ jmp[1].op = op
  BY Instruction DEF Ops
<1>2. Emit(jmp)
  OBVIOUS
<1> HIDE DEF jmp
<1>3. /\ Len(bytecode) <= Len(bytecode')
      /\ \A x \in 0..Len(bytecode) - 1 : bytecode'[x + 1] = bytecode[x + 1]
      /\ \A x \in Len(bytecode)..Len(bytecode') - 1 :
            /\ x - Len(bytecode) + 1 \in 1..Len(jmp)
            /\ bytecode'[x + 1] = jmp[x - Len(bytecode) + 1]
  BY <1>1, <1>2, Appended
<1>4. ASSUME NEW x \in Len(bytecode)..Len(bytecode') - 1 PROVE Op(bytecode', x) = op
  <2>1. x - Len(bytecode) + 1 = 1
    BY <1>1, <1>3
  <2> QED BY <1>1, <1>3, <2>1 DEF Op
<1>5. ASSUME Alive' PROVE Len(bytecode') = Len(bytecode) + 1
  <2>1. bytecode' = bytecode \o jmp
    BY <1>2, <1>5, WrittenAll DEF Emit
  <2>2. bytecode \in Seq(InstrType)
    BY DEF Code
  <2>3. Len(bytecode \o jmp) = Len(bytecode) + Len(jmp)
    BY <1>1, <2>2, ConcatProperties
  <2> QED BY <1>1, <2>1, <2>3
<1> QED BY <1>3, <1>4, <1>5

(* The jump over a case's body is emitted. *)
LEMMA MatchBodyAdvance == IInv /\ IInv' /\ MatchBody => Advance
PROOF
<1> SUFFICES ASSUME IInv, IInv', MatchBody, NEW B, Generated(B)
             PROVE  Generated(B)' /\ (Linked(B) => Linked(B)')
  BY DEF Advance
<1> DEFINE n == Len(stack)
           self == [Top EXCEPT !.phase = "body", !.mark = Len0]
           t == [stack EXCEPT ![n] = self]
           new == Activation(Case.ch[2])
<1>1. AtConstruct("match") /\ Top.i < Len(Top.n.ch) /\ Top.phase = "condition"
  BY DEF MatchBody, AtCase
<1>2. /\ Top \in ActivationType /\ Slotted(Top) /\ status = "compiling" /\ stack # <<>>
      /\ Construct(Top.n.tok) = "match" /\ Top.n.kind = "N_BUILTIN" /\ ~Opened(Top)
      /\ Unresolved(Top) = Slots(Top.slots) /\ n \in Nat \ {0}
  BY <1>1, AtMatch
<1>3. /\ bytecode \in Seq(InstrType) /\ bytecode' \in Seq(InstrType) /\ Len0 = Len(bytecode)
      /\ Len(bytecode) \in Nat /\ stack \in Seq(ActivationType) /\ Code
  BY DEF IInv, Code, Stacked, Len0
<1>4. /\ self \in ActivationType /\ self.n = Top.n /\ self.i = Top.i
      /\ self.slots = Top.slots /\ self.phase = "body" /\ self.mark = Len(bytecode)
  BY <1>2, <1>3 DEF ActivationType, Phases
<1>5. /\ Emit(<<Instr("JMPF", Placeholder)>>) /\ Compile(Case.ch[2], self)
      /\ hash_to_function' = hash_to_function
  BY DEF MatchBody
<1> HIDE DEF self
<1>6. /\ Len(bytecode) <= Len(bytecode')
      /\ \A x \in 0..Len(bytecode) - 1 : bytecode'[x + 1] = bytecode[x + 1]
      /\ \A x \in Len(bytecode)..Len(bytecode') - 1 : Op(bytecode', x) = "JMPF"
      /\ Alive' => Len(bytecode') = Len(bytecode) + 1
  BY <1>2, <1>3, <1>5, JumpEmitted
<1>7. /\ Len(stack') = n + 1 /\ stack'[n] = self /\ stack'[n + 1] = new
      /\ \A d \in 1..n - 1 : stack'[d] = stack[d]
  BY <1>2, <1>3, <1>4, <1>5, AfterCompile
<1>8. /\ t \in Seq(ActivationType) /\ Len(t) = n /\ t[n] = self
      /\ \A d \in 1..n - 1 : t[d] = stack[d]
  BY <1>2, <1>3, <1>4
<1>9. Unresolved(new) = {} /\ ~Opened(new) /\ ~Calling(new) /\ Slotted(new)
  BY Fresh
<1> HIDE DEF t, new
<1>10. ~Opened(self) /\ ~Calling(self)
       /\ Unresolved(self) = Unresolved(Top) \cup {Len(bytecode)}
  BY <1>2, <1>4, MatchAwaits DEF Calling
<1>11. Slotted(self)
  BY <1>1, <1>2, <1>4 DEF Slotted
<1>12. ASSUME Alive' PROVE Layout(bytecode', stack', B)
  <2>1. Replaced(stack, t)
    BY <1>2, <1>8 DEF Replaced
  <2>2. Jump(bytecode', Len(bytecode))
    BY <1>3, <1>6, <1>12 DEF Jump
  <2>3. Layout(bytecode, stack, B)
    BY <1>2 DEF Generated, Alive
  <2>4. Unresolved(t[n]) = Unresolved(stack[n]) \cup {Len(bytecode)} /\ ~Opened(t[n])
    BY <1>8, <1>10 DEF Top
  <2>5. Layout(bytecode', t, B)
    BY <1>3, <1>6, <1>8, <1>12, <2>1, <2>2, <2>3, <2>4, Jumped
  <2>6. Alike(t, stack') /\ Alike(stack', t)
    <3>1. \A d \in 1..n : Same(t[d], stack'[d]) /\ Same(stack'[d], t[d])
      BY <1>2, <1>7, <1>8, SameSelf
    <3>2. Alike(t, stack')
      BY <1>2, <1>7, <1>8, <3>1 DEF Alike
    <3>3. Alike(stack', t)
      BY <1>2, <1>7, <1>8, <1>9, <3>1 DEF Alike
    <3> QED BY <3>2, <3>3
  <2> QED BY <2>5, <2>6, Restacked
<1>13. Kept(bytecode, bytecode', stack)
  BY <1>6 DEF Kept, Op, To
<1>14. \A d \in 1..n - 1 : d <= Len(stack') /\ stack'[d] = stack[d]
  BY <1>2, <1>7
<1>15. \A d \in n..Len(stack') :
          ~Opened(stack'[d]) /\ ~Calling(stack'[d]) /\ Slotted(stack'[d])
  BY <1>2, <1>7, <1>9, <1>10, <1>11
<1>16. \A x \in Len(bytecode)..Len(bytecode') - 1 : Op(bytecode', x) \notin {"LOAD", "CALL"}
  BY <1>6
<1> QED BY <1>2, <1>5, <1>6, <1>12, <1>13, <1>14, <1>15, <1>16, MatchStep

(* What a patch changes: one target. *)
LEMMA PatchedTo ==
    ASSUME NEW code \in Seq(InstrType), NEW slot \in 0..Len(code) - 1, NEW target \in Nat
    PROVE  LET more == Patch(code, slot, target)
           IN  /\ more \in Seq(InstrType) /\ Len(more) = Len(code)
               /\ \A x \in 0..Len(code) - 1 :
                     /\ Op(more, x) = Op(code, x)
                     /\ To(more, x) = IF x = slot THEN target ELSE To(code, x)
PROOF
<1> DEFINE more == Patch(code, slot, target)
<1>1. more \in Seq(InstrType) /\ Len(more) = Len(code)
  BY Patched
<1>2. /\ slot \in Nat /\ slot + 1 \in 1..Len(code) /\ Len(code) \in Nat
      /\ code[slot + 1] \in InstrType
  OBVIOUS
<1>3. more = [code EXCEPT ![slot + 1] = [code[slot + 1] EXCEPT !.arg = target]]
  BY DEF Patch
<1>4. ASSUME NEW x \in 0..Len(code) - 1
      PROVE /\ Op(more, x) = Op(code, x)
            /\ To(more, x) = IF x = slot THEN target ELSE To(code, x)
  <2>1. x \in Nat /\ x + 1 \in 1..Len(code)
    BY <1>2
  <2>2. CASE x = slot
    <3>1. more[x + 1] = [code[slot + 1] EXCEPT !.arg = target]
      BY <1>2, <1>3, <2>2
    <3> HIDE DEF more
    <3>2. more[x + 1].op = code[x + 1].op /\ more[x + 1].arg = target
      BY <1>2, <2>2, <3>1 DEF InstrType
    <3> QED BY <2>2, <3>2 DEF Op, To
  <2>3. CASE x # slot
    <3>1. more[x + 1] = code[x + 1]
      BY <1>2, <1>3, <2>1, <2>3
    <3> QED BY <2>3, <3>1 DEF Op, To
  <2> QED BY <2>2, <2>3
<1> QED BY <1>1, <1>4

(* Code is emitted behind an awaited jump, which gets its end as target. *)
LEMMA PatchWritten ==
    ASSUME Code, status = "compiling", NEW code \in Seq(InstrType),
           Len(bytecode) <= Len(code),
           \A x \in 0..Len(bytecode) - 1 : code[x + 1] = bytecode[x + 1],
           NEW slot \in 0..Len(bytecode) - 1, Jump(bytecode, slot), Awaits(stack, slot),
           Write(Patch(code, slot, Len(code)))
    PROVE  /\ Len(bytecode) <= Len(bytecode') /\ Kept(bytecode, bytecode', stack)
           /\ \A x \in Len(bytecode)..Len(bytecode') - 1 :
                 x \in 0..Len(code) - 1 /\ Op(bytecode', x) = Op(code, x)
           /\ Alive' =>
                 /\ Len(bytecode') = Len(code)
                 /\ \A x \in 0..Len(code) - 1 :
                       /\ Op(bytecode', x) = Op(code, x)
                       /\ To(bytecode', x) = IF x = slot THEN Len(code) ELSE To(code, x)
PROOF
<1> DEFINE more == Patch(code, slot, Len(code))
<1>1. Len(bytecode) \in Nat /\ Len(code) \in Nat /\ slot \in 0..Len(code) - 1
  BY DEF Code
<1>2. /\ more \in Seq(InstrType) /\ Len(more) = Len(code)
      /\ \A x \in 0..Len(code) - 1 :
            /\ Op(more, x) = Op(code, x)
            /\ To(more, x) = IF x = slot THEN Len(code) ELSE To(code, x)
  BY <1>1, PatchedTo
<1>3. Write(more)
  OBVIOUS
<1> HIDE DEF more
<1>4. /\ Len(bytecode') \in Nat /\ Len(bytecode) <= Len(bytecode')
      /\ \A a \in 1..Len(bytecode') : a \in 1..Len(more) /\ bytecode'[a] = more[a]
  BY <1>1, <1>2, <1>3, Written DEF Grown
<1>5. ASSUME NEW x \in 0..Len(bytecode') - 1
      PROVE  /\ x \in 0..Len(code) - 1 /\ Op(bytecode', x) = Op(code, x)
             /\ To(bytecode', x) = IF x = slot THEN Len(code) ELSE To(code, x)
  <2>1. x + 1 \in 1..Len(bytecode')
    BY <1>4
  <2>2. x + 1 \in 1..Len(more) /\ bytecode'[x + 1] = more[x + 1]
    BY <1>4, <2>1
  <2>3. x \in 0..Len(code) - 1
    BY <1>1, <1>2, <2>2
  <2> QED BY <1>2, <2>2, <2>3 DEF Op, To
<1>6. Kept(bytecode, bytecode', stack)
  <2> SUFFICES ASSUME NEW x \in 0..Len(bytecode) - 1
               PROVE  /\ Op(bytecode', x) = Op(bytecode, x)
                      /\ \/ To(bytecode', x) = To(bytecode, x)
                         \/ Jump(bytecode, x) /\ Awaits(stack, x)
    BY DEF Kept
  <2>1. x \in 0..Len(bytecode') - 1 /\ Op(code, x) = Op(bytecode, x) /\ To(code, x) = To(bytecode, x)
    BY <1>1, <1>4 DEF Op, To
  <2> QED BY <1>5, <2>1
<1>7. ASSUME NEW x \in Len(bytecode)..Len(bytecode') - 1
      PROVE  x \in 0..Len(code) - 1 /\ Op(bytecode', x) = Op(code, x)
  <2>1. x \in 0..Len(bytecode') - 1
    BY <1>1, <1>4
  <2> QED BY <1>5, <2>1
<1>8. ASSUME Alive' PROVE bytecode' = more
  BY <1>3, <1>8, WrittenAll
<1> QED BY <1>2, <1>4, <1>6, <1>7, <1>8

(* A case's body is through: its JMPF is given its target behind the JMP   *)
(* to the end of the match. *)
LEMMA MatchCaseEndAdvance == IInv /\ IInv' /\ MatchCaseEnd => Advance
PROOF
<1> SUFFICES ASSUME IInv, IInv', MatchCaseEnd, NEW B, Generated(B)
             PROVE  Generated(B)' /\ (Linked(B) => Linked(B)')
  BY DEF Advance
<1> DEFINE n == Len(stack)
           jmp == IF LastCase THEN <<>> ELSE <<Instr("JMP", Placeholder)>>
           slot == IF LastCase THEN NoSlot ELSE Len0
           slots == Append(Top.slots, slot)
           code == bytecode \o jmp
           mid == [Top EXCEPT !.slots = slots]
           self == [Top EXCEPT !.i = @ + 1, !.phase = "start", !.slots = slots]
           s == [stack EXCEPT ![n] = mid]
<1>1. AtConstruct("match") /\ Top.i < Len(Top.n.ch) /\ Top.phase = "body"
  BY DEF MatchCaseEnd, AtCase
<1>2. /\ Top \in ActivationType /\ Slotted(Top) /\ status = "compiling" /\ stack # <<>>
      /\ Construct(Top.n.tok) = "match" /\ Top.n.kind = "N_BUILTIN" /\ ~Opened(Top)
      /\ Unresolved(Top) = Slots(Top.slots) \cup {Top.mark} /\ n \in Nat \ {0}
      /\ Top.slots \in Seq(Nat \cup {NoSlot}) /\ Len(Top.slots) = Top.i /\ Top.i \in Nat
      /\ Len(Top.n.ch) \in Nat
  BY <1>1, AtMatch
<1>3. /\ bytecode \in Seq(InstrType) /\ bytecode' \in Seq(InstrType) /\ Len0 = Len(bytecode)
      /\ Len(bytecode) \in Nat /\ stack \in Seq(ActivationType) /\ Code
      /\ stack' \in Seq(ActivationType)
  BY DEF IInv, Code, Stacked, Len0
<1>4. Layout(bytecode, stack, B)
  BY <1>2 DEF Generated, Alive
<1>5. /\ Write(Patch(code, Top.mark, Len(code))) /\ Continue(self) /\ hash_to_function' = hash_to_function
  BY DEF MatchCaseEnd
<1>6. slot \in Nat \cup {NoSlot} /\ (LastCase => slot = NoSlot) /\ (~LastCase => slot = Len(bytecode))
  BY <1>3
<1>7. /\ slots \in Seq(Nat \cup {NoSlot}) /\ Slots(slots) = Slots(Top.slots) \cup ({slot} \ {NoSlot})
      /\ Len(slots) = Top.i + 1 /\ \A k \in 1..Len(Top.slots) : slots[k] = Top.slots[k]
      /\ slots[Top.i + 1] = slot
  <2> HIDE DEF slot
  <2> QED BY <1>2, <1>6, SlotsAppended
<1> HIDE DEF slot, slots
<1>8. /\ mid \in ActivationType /\ mid.n = Top.n /\ mid.slots = slots
      /\ mid.phase = "body" /\ mid.mark = Top.mark
  BY <1>1, <1>2, <1>7 DEF ActivationType
<1>9. /\ self \in ActivationType /\ self.n = Top.n /\ self.i = Top.i + 1
      /\ self.slots = slots /\ self.phase = "start" /\ self.mark = Top.mark
  <2>1. self \in ActivationType
    BY <1>2, <1>7, CaseFinished
  <2>2. /\ self.n = Top.n /\ self.i = Top.i + 1
        /\ self.slots = slots /\ self.phase = "start" /\ self.mark = Top.mark
    BY <1>2 DEF ActivationType
  <2> QED BY <2>1, <2>2
<1> HIDE DEF mid, self
<1>10. /\ ~Opened(mid) /\ Unresolved(mid) = Slots(slots) \cup {Top.mark}
       /\ ~Opened(self) /\ Unresolved(self) = Slots(slots) /\ ~Calling(self)
  BY <1>2, <1>8, <1>9, MatchAwaits DEF Calling
<1>11. Slotted(self)
  <2>1. ASSUME NEW k \in 1..Len(slots), slots[k] # NoSlot PROVE k < Len(Top.n.ch)
    <3>1. CASE k = Top.i + 1
      <4>1. slots[k] = slot /\ Top.i # Len(Top.n.ch) - 1
        BY <1>6, <1>7, <2>1, <3>1 DEF LastCase
      <4> QED BY <1>1, <1>2, <3>1, <4>1
    <3>2. CASE k # Top.i + 1
      <4>1. k \in 1..Len(Top.slots) /\ Top.slots[k] # NoSlot
        BY <1>2, <1>7, <2>1, <3>2
      <4> QED BY <1>2, <4>1 DEF Slotted
    <3> QED BY <3>1, <3>2
  <2> QED BY <1>2, <1>7, <1>9, <2>1 DEF Slotted
<1>12. /\ s \in Seq(ActivationType) /\ Len(s) = n /\ s[n] = mid
       /\ \A d \in 1..n - 1 : s[d] = stack[d]
  BY <1>2, <1>3, <1>8
<1>13. /\ Len(stack') = n /\ stack'[n] = self
       /\ \A d \in 1..n - 1 : stack'[d] = stack[d]
  BY <1>2, <1>3, <1>5, <1>9, AfterContinue
<1> HIDE DEF s
<1>14. Replaced(stack, s) /\ Replaced(s, stack') /\ s # <<>>
  BY <1>2, <1>12, <1>13 DEF Replaced
<1>15. /\ jmp \in Seq(InstrType) /\ (LastCase => Len(jmp) = 0)
       /\ ~LastCase => Len(jmp) = 1 /\ jmp[1].op = "JMP"
  <2>1. "JMP" \in Ops
    BY DEF Ops
  <2>2. CASE LastCase
    BY <2>2
  <2>3. CASE ~LastCase
    <3>1. jmp = <<Instr("JMP", Placeholder)>>
      BY <2>3
    <3> QED BY <2>1, <2>3, <3>1, Instruction
  <2> QED BY <2>2, <2>3
<1> HIDE DEF jmp
<1>16. /\ code \in Seq(InstrType) /\ Len(code) = Len(bytecode) + Len(jmp)
       /\ \A x \in 0..Len(bytecode) - 1 : code[x + 1] = bytecode[x + 1]
       /\ ~LastCase => Op(code, Len(bytecode)) = "JMP"
  <2>1. /\ code \in Seq(InstrType) /\ Len(code) = Len(bytecode) + Len(jmp)
        /\ \A a \in 1..Len(bytecode) + Len(jmp) :
              code[a] = IF a <= Len(bytecode) THEN bytecode[a] ELSE jmp[a - Len(bytecode)]
    BY <1>3, <1>15, ConcatProperties
  <2> HIDE DEF code
  <2>2. Len(jmp) \in Nat
    BY <1>15
  <2>3. ASSUME NEW x \in 0..Len(bytecode) - 1 PROVE code[x + 1] = bytecode[x + 1]
    <3>1. x + 1 \in 1..Len(bytecode) + Len(jmp) /\ x + 1 <= Len(bytecode)
      BY <1>3, <2>2
    <3> QED BY <2>1, <3>1
  <2>4. ASSUME ~LastCase PROVE Op(code, Len(bytecode)) = "JMP"
    <3>1. Len(jmp) = 1 /\ jmp[1].op = "JMP"
      BY <1>15, <2>4
    <3>2. /\ Len(bytecode) + 1 \in 1..Len(bytecode) + Len(jmp)
          /\ Len(bytecode) + 1 - Len(bytecode) = 1 /\ ~(Len(bytecode) + 1 <= Len(bytecode))
      BY <1>3, <3>1
    <3>3. code[Len(bytecode) + 1] = jmp[1]
      BY <2>1, <3>2
    <3> QED BY <3>1, <3>3 DEF Op
  <2> QED BY <2>1, <2>3, <2>4
<1> HIDE DEF code
<1>17. Top.mark \in 0..Len(bytecode) - 1 /\ Jump(bytecode, Top.mark) /\ Awaits(stack, Top.mark)
  <2>1. Top.mark \in Unresolved(stack[n]) /\ n \in 1..n
    BY <1>2 DEF Top
  <2> QED BY <1>4, <2>1 DEF Layout, Pending, Awaits
<1>18. Len(code) \in Nat /\ Len(bytecode) <= Len(code) /\ Top.mark \in 0..Len(code) - 1
  BY <1>3, <1>15, <1>16, <1>17
<1>19. /\ Len(bytecode) <= Len(bytecode') /\ Kept(bytecode, bytecode', stack)
       /\ \A x \in Len(bytecode)..Len(bytecode') - 1 :
             x \in 0..Len(code) - 1 /\ Op(bytecode', x) = Op(code, x)
       /\ Alive' =>
             /\ Len(bytecode') = Len(code)
             /\ \A x \in 0..Len(code) - 1 :
                   /\ Op(bytecode', x) = Op(code, x)
                   /\ To(bytecode', x) = IF x = Top.mark THEN Len(code) ELSE To(code, x)
  BY <1>2, <1>3, <1>5, <1>16, <1>17, <1>18, PatchWritten
<1>20. ASSUME NEW x \in Len(bytecode)..Len(bytecode') - 1
       PROVE  Op(bytecode', x) \notin {"LOAD", "CALL"}
  <2>1. x \in 0..Len(code) - 1 /\ Op(bytecode', x) = Op(code, x)
    BY <1>19
  <2>2. CASE LastCase
    <3>1. Len(jmp) = 0
      BY <1>15, <2>2
    <3> QED BY <1>3, <1>16, <2>1, <3>1
  <2>3. CASE ~LastCase
    <3>1. Len(jmp) = 1 /\ Op(code, Len(bytecode)) = "JMP"
      BY <1>15, <1>16, <2>3
    <3>2. x = Len(bytecode)
      BY <1>3, <1>16, <2>1, <3>1
    <3> QED BY <2>1, <3>1, <3>2
  <2> QED BY <2>2, <2>3
<1>21. Layout(code, s, B)
  <2>1. CASE LastCase
    <3>1. code = bytecode
      <4>1. jmp = <<>>
        BY <2>1 DEF jmp
      <4> QED BY <1>3, <4>1 DEF code
    <3>2. Unresolved(mid) = Unresolved(Top)
      BY <1>2, <1>6, <1>7, <1>10, <2>1
    <3>3. Same(stack[n], s[n]) /\ Same(s[n], stack[n])
      BY <1>2, <1>10, <1>12, <3>2 DEF Same, Top
    <3>4. \A d \in 1..n : Same(stack[d], s[d]) /\ Same(s[d], stack[d])
      <4> SUFFICES ASSUME NEW d \in 1..n
                   PROVE  Same(stack[d], s[d]) /\ Same(s[d], stack[d])
        OBVIOUS
      <4>1. d = n \/ d \in 1..n - 1
        BY <1>2
      <4> QED BY <1>12, <3>3, <4>1, SameSelf
    <3>5. Alike(stack, s) /\ Alike(s, stack)
      BY <1>12, <3>4 DEF Alike
    <3> QED BY <1>4, <3>1, <3>5, Restacked
  <2>2. CASE ~LastCase
    <3>1. Unresolved(s[n]) = Unresolved(stack[n]) \cup {Len(bytecode)} /\ ~Opened(s[n])
      <4>1. {slot} \ {NoSlot} = {Len(bytecode)}
        BY <1>3, <1>6, <2>2 DEF NoSlot, LastCase
      <4> QED BY <1>2, <1>7, <1>10, <1>12, <4>1 DEF Top
    <3>2. Len(code) = Len(bytecode) + 1 /\ Jump(code, Len(bytecode))
      BY <1>15, <1>16, <2>2 DEF Jump
    <3> QED BY <1>3, <1>4, <1>12, <1>14, <1>16, <3>1, <3>2, Jumped
  <2> QED BY <2>1, <2>2
<1>22. ASSUME Alive' PROVE Layout(bytecode', stack', B)
  <2>1. Len(bytecode') = Len(code)
    BY <1>19, <1>22
  <2>2. /\ {Top.mark} \subseteq Unresolved(s[n])
        /\ Unresolved(stack'[n]) \subseteq Unresolved(s[n])
        /\ Unresolved(s[n]) \ {Top.mark} \subseteq Unresolved(stack'[n])
        /\ ~Opened(stack'[n])
    BY <1>10, <1>12, <1>13
  <2>3. \A x \in 0..Len(code) - 1 :
            /\ Op(bytecode', x) = Op(code, x)
            /\ To(bytecode', x) = IF x \in {Top.mark} THEN Len(code) ELSE To(code, x)
    BY <1>19, <1>22
  <2> DEFINE X == {Top.mark}
  <2> HIDE DEF X
  <2>4. /\ X \subseteq Unresolved(s[Len(s)])
        /\ Unresolved(stack'[Len(s)]) \subseteq Unresolved(s[Len(s)])
        /\ Unresolved(s[Len(s)]) \ X \subseteq Unresolved(stack'[Len(s)])
        /\ ~Opened(stack'[Len(s)])
    BY <1>12, <2>2 DEF X
  <2>5. \A x \in 0..Len(code) - 1 :
            /\ Op(bytecode', x) = Op(code, x)
            /\ To(bytecode', x) = IF x \in X THEN Len(code) ELSE To(code, x)
    BY <2>3 DEF X
  <2> QED BY <1>3, <1>12, <1>14, <1>16, <1>21, <2>1, <2>4, <2>5, Resolved
<1>23. \A d \in 1..n - 1 : d <= Len(stack') /\ stack'[d] = stack[d]
  BY <1>2, <1>13
<1>24. \A d \in n..Len(stack') :
          ~Opened(stack'[d]) /\ ~Calling(stack'[d]) /\ Slotted(stack'[d])
  BY <1>2, <1>10, <1>11, <1>13
<1> QED BY <1>2, <1>5, <1>19, <1>20, <1>22, <1>23, <1>24, MatchStep

(* A match is through: the jumps behind its bodies get its end as target. *)
LEMMA MatchEndAdvance == IInv /\ IInv' /\ MatchEnd => Advance
PROOF
<1> SUFFICES ASSUME IInv, IInv', MatchEnd, NEW B, Generated(B)
             PROVE  Generated(B)' /\ (Linked(B) => Linked(B)')
  BY DEF Advance
<1> DEFINE n == Len(stack)
           X == Slots(Top.slots)
           self == [Top EXCEPT !.slots = <<>>]
           t == [stack EXCEPT ![n] = self]
<1>1. AtConstruct("match") /\ Top.i = Len(Top.n.ch)
  BY DEF MatchEnd, AtMatchEnd
<1>2. /\ Top \in ActivationType /\ Slotted(Top) /\ status = "compiling" /\ stack # <<>>
      /\ Construct(Top.n.tok) = "match" /\ Top.n.kind = "N_BUILTIN" /\ ~Opened(Top)
      /\ n \in Nat \ {0} /\ Top.slots \in Seq(Nat \cup {NoSlot}) /\ Len(Top.slots) = Top.i
      /\ Top.i \in Nat
  BY <1>1, AtMatch
<1>3. Top.phase = "start"
  <2>1. Top.phase # "start" => Top.i < Len(Top.n.ch)
    BY <1>2 DEF Slotted
  <2> QED BY <1>1, <1>2, <2>1
<1>4. Unresolved(Top) = X
  BY <1>2, <1>3, MatchAwaits
<1>5. /\ bytecode \in Seq(InstrType) /\ bytecode' \in Seq(InstrType) /\ Len0 = Len(bytecode)
      /\ Len(bytecode) \in Nat /\ stack \in Seq(ActivationType)
      /\ stack' \in Seq(ActivationType)
  BY DEF IInv, Code, Stacked, Len0
<1>6. Layout(bytecode, stack, B)
  BY <1>2 DEF Generated, Alive
<1>7. ASSUME NEW x \in X PROVE x \in 0..Len(bytecode) - 1 /\ Jump(bytecode, x) /\ Awaits(stack, x)
  <2>1. x \in Unresolved(stack[n]) /\ n \in 1..n
    BY <1>2, <1>4 DEF Top
  <2> QED BY <1>6, <2>1 DEF Layout, Pending, Awaits
<1>8. ASSUME NEW x \in 0..Len(bytecode) - 1 PROVE x + 1 \in BackfillSlots <=> x \in X
  <2>1. x \in Nat /\ x # NoSlot /\ x + 1 # NoSlot + 1
    BY <1>5 DEF NoSlot
  <2>2. ASSUME x + 1 \in BackfillSlots PROVE x \in X
    <3>1. PICK k \in 1..Len(Top.n.ch) - 1 : x + 1 = Top.slots[k] + 1
      BY <2>2 DEF BackfillSlots
    <3>2. k \in 1..Len(Top.slots)
      BY <1>1, <1>2
    <3>3. Top.slots[k] \in Nat \cup {NoSlot}
      BY <1>2, <3>2
    <3>4. x = Top.slots[k]
      BY <2>1, <3>1, <3>3
    <3> QED BY <2>1, <3>2, <3>4 DEF Slots
  <2>3. ASSUME x \in X PROVE x + 1 \in BackfillSlots
    <3>1. PICK k \in 1..Len(Top.slots) : x = Top.slots[k]
      BY <2>3 DEF Slots
    <3>2. k < Len(Top.n.ch)
      BY <1>2, <2>1, <3>1 DEF Slotted
    <3>3. k \in 1..Len(Top.n.ch) - 1
      BY <1>1, <1>2, <3>2
    <3> QED BY <2>1, <3>1, <3>3 DEF BackfillSlots
  <2> QED BY <2>2, <2>3
<1> HIDE DEF X
<1>9. /\ DOMAIN bytecode' = DOMAIN bytecode
      /\ \A a \in DOMAIN bytecode :
            bytecode'[a] = IF a \in BackfillSlots
                           THEN [bytecode[a] EXCEPT !.arg = Len0] ELSE bytecode[a]
  BY DEF MatchEnd
<1>10. Len(bytecode') = Len(bytecode)
  BY <1>5, <1>9
<1>11. ASSUME NEW x \in 0..Len(bytecode) - 1
       PROVE  /\ Op(bytecode', x) = Op(bytecode, x)
              /\ To(bytecode', x) = IF x \in X THEN Len(bytecode) ELSE To(bytecode, x)
  <2>1. x + 1 \in DOMAIN bytecode /\ bytecode[x + 1] \in InstrType
    BY <1>5
  <2>2. CASE x \in X
    <3>1. bytecode'[x + 1] = [bytecode[x + 1] EXCEPT !.arg = Len(bytecode)]
      BY <1>5, <1>8, <1>9, <2>1, <2>2
    <3>2. bytecode'[x + 1].op = bytecode[x + 1].op /\ bytecode'[x + 1].arg = Len(bytecode)
      BY <2>1, <3>1 DEF InstrType
    <3> QED BY <2>2, <3>2 DEF Op, To
  <2>3. CASE x \notin X
    <3>1. bytecode'[x + 1] = bytecode[x + 1]
      BY <1>8, <1>9, <2>1, <2>3
    <3> QED BY <2>3, <3>1 DEF Op, To
  <2> QED BY <2>2, <2>3
<1>12. Kept(bytecode, bytecode', stack)
  BY <1>7, <1>11 DEF Kept
<1>13. /\ Len(stack') = n - 1 /\ \A d \in 1..n - 1 : stack'[d] = stack[d]
  BY <1>2, <1>5, AfterReturn DEF MatchEnd
<1>14. /\ self \in ActivationType /\ self.n = Top.n /\ self.slots = <<>> /\ self.phase = "start"
  <2>1. <<>> \in Seq(Nat \cup {NoSlot})
    OBVIOUS
  <2> QED BY <1>2, <1>3, <2>1 DEF ActivationType
<1> HIDE DEF self
<1>15. Unresolved(self) = {} /\ ~Opened(self)
  <2>1. Slots(self.slots) = {}
    BY <1>14 DEF Slots
  <2> QED BY <1>2, <1>14, <2>1, MatchAwaits
<1>16. /\ t \in Seq(ActivationType) /\ Len(t) = n /\ t[n] = self
       /\ \A d \in 1..n - 1 : t[d] = stack[d]
  BY <1>2, <1>5, <1>14
<1> HIDE DEF t
<1>17. Layout(bytecode', t, B)
  <2>1. Replaced(stack, t)
    BY <1>2, <1>16 DEF Replaced
  <2>2. /\ X \subseteq Unresolved(stack[n]) /\ Unresolved(t[n]) \subseteq Unresolved(stack[n])
        /\ Unresolved(stack[n]) \ X \subseteq Unresolved(t[n]) /\ ~Opened(t[n])
    BY <1>4, <1>15, <1>16 DEF Top
  <2> QED BY <1>5, <1>6, <1>10, <1>11, <1>16, <2>1, <2>2, Resolved
<1>18. Layout(bytecode', stack', B)
  <2>1. \A d \in 1..n - 1 : Same(t[d], stack'[d]) /\ Same(stack'[d], t[d])
    BY <1>13, <1>16, SameSelf
  <2>2. Alike(t, stack')
    <3> SUFFICES ASSUME NEW d \in 1..Len(t)
                 PROVE  \/ Unresolved(t[d]) = {}
                        \/ d \in 1..Len(stack') /\ Same(t[d], stack'[d])
      BY DEF Alike
    <3>1. d = n \/ d \in 1..n - 1
      BY <1>2, <1>16
    <3> QED BY <1>13, <1>15, <1>16, <2>1, <3>1
  <2>3. Alike(stack', t)
    BY <1>2, <1>13, <1>16, <2>1 DEF Alike
  <2> QED BY <1>17, <2>2, <2>3, Restacked
<1>19. \A d \in 1..n - 1 : d <= Len(stack') /\ stack'[d] = stack[d]
  BY <1>2, <1>13
<1>20. \A d \in n..Len(stack') :
          ~Opened(stack'[d]) /\ ~Calling(stack'[d]) /\ Slotted(stack'[d])
  BY <1>2, <1>13
<1>21. hash_to_function' = hash_to_function /\ Len(bytecode) <= Len(bytecode')
  BY <1>5, <1>10 DEF MatchEnd
<1>22. \A x \in Len(bytecode)..Len(bytecode') - 1 : Op(bytecode', x) \notin {"LOAD", "CALL"}
  BY <1>5, <1>10
<1> QED BY <1>2, <1>12, <1>18, <1>19, <1>20, <1>21, <1>22, MatchStep

(* @match *)
LEMMA MatchAdvance ==
    IInv /\ IInv' /\ (\/ MatchCondition \/ MatchBody \/ MatchCaseEnd \/ MatchDefault
                      \/ MatchDefaultEnd \/ MatchEnd \/ MatchGarbage) => Advance
PROOF
<1> SUFFICES ASSUME IInv, IInv',
                    \/ MatchCondition \/ MatchBody \/ MatchCaseEnd \/ MatchDefault
                    \/ MatchDefaultEnd \/ MatchEnd \/ MatchGarbage
             PROVE  Advance
  OBVIOUS
<1>1. CASE MatchCondition
  BY <1>1, MatchDescend DEF MatchCondition
<1>2. CASE MatchDefault
  BY <1>2, MatchDescend DEF MatchDefault
<1>3. CASE MatchGarbage
  BY <1>3, FailAdvance DEF MatchGarbage
<1> QED BY <1>1, <1>2, <1>3, MatchBodyAdvance, MatchCaseEndAdvance, MatchDefaultEndAdvance,
           MatchEndAdvance

-----------------------------------------------------------------------------
(* @function                                                               *)

(* The function node at work. *)
LEMMA AtFunctionFacts ==
    ASSUME IInv, AtFunction, NEW B, Generated(B)
    PROVE  /\ status = "compiling" /\ stack # <<>> /\ Top.n.kind = "N_BUILTIN"
           /\ Construct(Top.n.tok) = "function" /\ ~Calling(Top)
           /\ Top \in ActivationType /\ Top.i \in Nat /\ Top.n \in Nodes /\ Top.mark \in Nat
           /\ Top.slots = <<>> /\ Top.phase = "start" /\ Slotted(Top)
           /\ Unresolved(Top) = IF Top.i > 0 THEN {Top.mark} ELSE {}
           /\ Opened(Top) <=> Top.i > 0
           /\ Len(stack) \in Nat \ {0} /\ Len(Top.n.ch) \in Nat /\ Len(Top.n.ch) >= 2
           /\ FunctionHash \in 0..MAX_BUILTIN_SIZE - 1 /\ Len(Params(Top.n)) \in Nat
           /\ FunctionHash = FnHash[Top.n.ch[1].tok]
PROOF
<1>1. /\ status = "compiling" /\ stack # <<>> /\ Top.n.kind = "N_BUILTIN"
      /\ Construct(Top.n.tok) = "function" /\ Len(Top.n.ch) >= 2
  BY DEF AtFunction, AtConstruct, At
<1>2. /\ Top \in ActivationType /\ Top.i \in Nat /\ Top.n \in Nodes /\ Top.mark \in Nat
      /\ Slotted(Top) /\ Len(stack) \in Nat \ {0} /\ Top.n.ch \in Seq(Nodes)
  BY <1>1, TopFacts
<1>3. Top.slots = <<>> /\ Top.phase = "start"
  BY <1>1, <1>2, NotMatching DEF Slotted, IInv
<1>4. Opened(Top) <=> Top.i > 0
  BY <1>1 DEF Opened
<1>5. Unresolved(Top) = IF Top.i > 0 THEN {Top.mark} ELSE {}
  BY <1>3, <1>4 DEF Unresolved
<1>6. Top.n.ch[1] \in Nodes /\ Top.n.ch[2] \in Nodes
  BY <1>1, <1>2
<1>7. FunctionHash \in 0..MAX_BUILTIN_SIZE - 1
  BY <1>6, NodeType, HashAssumption DEF FunctionHash
<1>8. Len(Params(Top.n)) \in Nat
  BY <1>6, NodeType DEF Params
<1> QED BY <1>1, <1>2, <1>3, <1>4, <1>5, <1>7, <1>8 DEF Calling, FunctionHash

(* The hash of an open function or of a call under way is one. *)
LEMMA NamesHash ==
    ASSUME IInv, status = "compiling", NEW B, Generated(B), NEW d \in 1..Len(stack)
    PROVE  /\ Opened(stack[d]) =>
                 /\ ~Calling(stack[d]) /\ Names(stack[d]) = FnHash[stack[d].n.ch[1].tok]
                 /\ FnHash[stack[d].n.ch[1].tok] \in 0..MAX_BUILTIN_SIZE - 1
           /\ Calling(stack[d]) =>
                 /\ ~Opened(stack[d]) /\ Names(stack[d]) = FnHash[stack[d].n.tok]
                 /\ FnHash[stack[d].n.tok] \in 0..MAX_BUILTIN_SIZE - 1
PROOF
<1>1. stack[d] \in ActivationType /\ stack[d].n \in Nodes
  BY ActivationFields DEF IInv, Stacked
<1>2. ASSUME Opened(stack[d]) PROVE stack[d].n.ch[1].tok \in Tokens
  <2>1. Len(stack[d].n.ch) > 2
    BY <1>2 DEF Generated, Headers, Alive
  <2>2. stack[d].n.ch[1] \in Nodes
    BY <1>1, <2>1, NodeType
  <2> QED BY <2>2, NodeType
<1>3. stack[d].n.tok \in Tokens
  BY <1>1, NodeType
<1>4. Opened(stack[d]) => ~Calling(stack[d])
  BY DEF Opened, Calling
<1> QED BY <1>2, <1>3, <1>4, HashAssumption DEF Names

(* A function is declared that is not in use. *)
LEMMA TableSet ==
    ASSUME IInv, AtFunction, Top.i = 0, NoneRedefined, NEW B, Generated(B), Linked(B),
           hash_to_function' = [hash_to_function EXCEPT ![FunctionHash] = Declared]
    PROVE  /\ Filled(hash_to_function', B)
           /\ \A d \in 1..Len(stack) - 1 : Settled(stack[d], hash_to_function')
           /\ hash_to_function'[FunctionHash] = Declared
PROOF
<1>1. /\ FunctionHash \in 0..MAX_BUILTIN_SIZE - 1 /\ status = "compiling"
      /\ Len(stack) \in Nat \ {0}
  BY AtFunctionFacts
<1>2. hash_to_function \in [0..MAX_BUILTIN_SIZE - 1 -> CtxFunction]
  BY DEF IInv, Functions
<1>3. /\ hash_to_function'[FunctionHash] = Declared
      /\ \A h \in 0..MAX_BUILTIN_SIZE - 1 :
            h # FunctionHash => hash_to_function'[h] = hash_to_function[h]
  BY <1>1, <1>2
<1>4. Declared.size = 0
  BY DEF Declared
<1>5. /\ Filled(hash_to_function, B)
      /\ \A d \in 1..Len(stack) : Settled(stack[d], hash_to_function)
  BY <1>1 DEF Linked, Alive
<1>6. Filled(hash_to_function', B)
  BY <1>3, <1>4, <1>5 DEF Filled
<1>7. ASSUME NEW d \in 1..Len(stack) - 1 PROVE Settled(stack[d], hash_to_function')
  <2>1. d \in 1..Len(stack)
    BY <1>1
  <2>2. Settled(stack[d], hash_to_function)
    BY <1>5, <2>1
  <2>3. Opened(stack[d]) \/ Calling(stack[d]) => Names(stack[d]) # FunctionHash
    BY DEF NoneRedefined
  <2>4. Opened(stack[d]) =>
           hash_to_function'[FnHash[stack[d].n.ch[1].tok]]
             = hash_to_function[FnHash[stack[d].n.ch[1].tok]]
    BY <1>1, <1>3, <2>1, <2>3, NamesHash
  <2>5. Calling(stack[d]) =>
           hash_to_function'[FnHash[stack[d].n.tok]] = hash_to_function[FnHash[stack[d].n.tok]]
    BY <1>1, <1>3, <2>1, <2>3, NamesHash
  <2> QED BY <2>2, <2>4, <2>5 DEF Settled
<1> QED BY <1>3, <1>6, <1>7

(* A function without a body leaves nothing but its declaration. *)
LEMMA FunctionEmptyAdvance == IInv /\ IInv' /\ FunctionEmpty => Advance
PROOF
<1> SUFFICES ASSUME IInv, IInv', FunctionEmpty, NEW B, Generated(B)
             PROVE  Generated(B)' /\ (NoneRedefined /\ Linked(B) => Linked(B)')
  BY DEF Advance
<1>1. /\ AtFunction /\ Len(Top.n.ch) = 2 /\ bytecode' = bytecode /\ Return
      /\ hash_to_function' = [hash_to_function EXCEPT ![FunctionHash] = Declared]
  BY DEF FunctionEmpty
<1>2. /\ status = "compiling" /\ stack # <<>> /\ Len(stack) \in Nat \ {0} /\ Top.i \in Nat
      /\ Unresolved(Top) = (IF Top.i > 0 THEN {Top.mark} ELSE {})
      /\ (Opened(Top) <=> Top.i > 0) /\ stack \in Seq(ActivationType)
  BY <1>1, AtFunctionFacts DEF IInv, Stacked
<1>3. Top.i = 0
  <2>1. Opened(Top) => Len(Top.n.ch) > 2
    <3>1. Len(stack) \in 1..Len(stack) /\ Headers(bytecode, stack, B)
      BY <1>2 DEF Generated, Alive
    <3> QED BY <3>1 DEF Headers, Top
  <2> QED BY <1>1, <1>2, <2>1
<1>4. Plainly(B)
  BY <1>1, UnchangedPlainly DEF IInv
<1>5. Generated(B)'
  BY <1>1, <1>2, <1>3, <1>4, ReturnAdvance
<1>6. /\ Len(stack') = Len(stack) - 1
      /\ \A d \in 1..Len(stack) - 1 : stack'[d] = stack[d]
  BY <1>1, <1>2, AfterReturn
<1>7. ASSUME NoneRedefined, Linked(B) PROVE Linked(B)'
  <2>1. /\ Filled(hash_to_function', B)
        /\ \A d \in 1..Len(stack) - 1 : Settled(stack[d], hash_to_function')
    BY <1>1, <1>3, <1>7, TableSet
  <2>2. Enters(bytecode', B)
    BY <1>1, <1>7 DEF Linked
  <2>3. \A d \in 1..Len(stack') : Settled(stack'[d], hash_to_function')
    BY <1>6, <2>1
  <2> QED BY <1>7, <2>1, <2>2, <2>3 DEF Linked
<1> QED BY <1>5, <1>7

(* The next node of a body. *)
LEMMA FunctionBodyAdvance == IInv /\ IInv' /\ FunctionBody => Advance
PROOF
<1> SUFFICES ASSUME IInv, IInv', FunctionBody, NEW B, Generated(B)
             PROVE  Generated(B)' /\ (Linked(B) => Linked(B)')
  BY DEF Advance
<1> DEFINE self == [Top EXCEPT !.i = @ + 1]
<1>1. AtFunction /\ Top.i > 0 /\ Descend(Top.n.ch[Top.i + 3], self)
  BY DEF FunctionBody
<1>2. /\ status = "compiling" /\ stack # <<>> /\ Top.n.kind = "N_BUILTIN"
      /\ Construct(Top.n.tok) = "function" /\ Top \in ActivationType /\ Top.i \in Nat
      /\ Top.slots = <<>> /\ Top.phase = "start" /\ Slotted(Top)
      /\ Unresolved(Top) = (IF Top.i > 0 THEN {Top.mark} ELSE {})
      /\ (Opened(Top) <=> Top.i > 0) /\ ~Calling(Top)
  BY <1>1, AtFunctionFacts
<1>3. /\ self \in ActivationType /\ self.n = Top.n /\ self.i = Top.i + 1
      /\ self.slots = <<>> /\ self.phase = "start" /\ self.mark = Top.mark
  BY <1>2 DEF ActivationType
<1> HIDE DEF self
<1>4. Opened(self) /\ Opened(Top) /\ ~Calling(self)
  BY <1>1, <1>2, <1>3 DEF Opened, Calling
<1>5. Unresolved(self) = {Top.mark}
  BY <1>3, <1>4 DEF Unresolved
<1>6. Same(Top, self)
  BY <1>1, <1>2, <1>3, <1>4, <1>5 DEF Same
<1>7. Slotted(self)
  BY <1>2, <1>3 DEF Slotted
<1>8. Linked(B) => Settled(self, hash_to_function)
  <2>1. Linked(B) => Settled(Top, hash_to_function)
    BY <1>2, TopFacts
  <2> QED BY <1>3, <1>4, <2>1 DEF Settled, Arity
<1> QED BY <1>1, <1>2, <1>3, <1>6, <1>7, <1>8, DescendAdvance

(* The header of a function loads its parameters, and no others. *)
LEMMA HeaderCode ==
    ASSUME NEW n \in Nodes, Len(n.ch) >= 2
    PROVE  LET code == <<Instr("JMP", Placeholder)>> \o Header(n)
           IN  /\ code \in Seq(InstrType) /\ Len(code) = 2 * Len(Params(n)) + 1
               /\ code[1].op = "JMP"
               /\ \A k \in 2..Len(code) :
                     /\ code[k].op \in {"LOAD", "VAR"}
                     /\ code[k].op = "LOAD" => code[k].arg <= Len(Params(n))
PROOF
<1> DEFINE jmp == <<Instr("JMP", Placeholder)>>
           code == jmp \o Header(n)
           p == Len(Params(n))
<1>1. Header(n) \in Seq(InstrType) /\ p \in Nat
  BY HeaderTyped
<1>2. Len(Header(n)) = 2 * p
  <2>1. DOMAIN Header(n) = 1..2 * p
    BY DEF Header
  <2> QED BY <1>1, <2>1
<1>3. ASSUME NEW k \in 1..2 * p
      PROVE  /\ Header(n)[k].op \in {"LOAD", "VAR"}
             /\ Header(n)[k].op = "LOAD" => Header(n)[k].arg <= p
  <2>1. Header(n)[k] = IF k % 2 = 1 THEN Instr("LOAD", (k + 1) \div 2)
                       ELSE Instr("VAR", VarHash[Params(n)[k \div 2].tok])
    BY DEF Header
  <2>2. CASE k % 2 = 1
    <3>1. (k + 1) \div 2 <= p
      BY <1>1, <2>2
    <3> QED BY <2>1, <2>2, <3>1 DEF Instr
  <2>3. CASE k % 2 # 1
    BY <2>1, <2>3 DEF Instr
  <2> QED BY <2>2, <2>3
<1>4. /\ jmp \in Seq(InstrType) /\ Len(jmp) = 1 /\ jmp[1].op = "JMP"
  BY Instruction DEF Ops
<1> HIDE DEF jmp, p
<1>5. /\ code \in Seq(InstrType) /\ Len(code) = 1 + 2 * p
      /\ \A k \in 1..1 + 2 * p : code[k] = IF k <= 1 THEN jmp[k] ELSE Header(n)[k - 1]
  BY <1>1, <1>2, <1>4, ConcatProperties
<1> HIDE DEF code
<1>6. code[1].op = "JMP"
  BY <1>1, <1>4, <1>5
<1>7. ASSUME NEW k \in 2..Len(code)
      PROVE  /\ code[k].op \in {"LOAD", "VAR"}
             /\ code[k].op = "LOAD" => code[k].arg <= p
  <2>1. k - 1 \in 1..2 * p /\ k \in 1..1 + 2 * p /\ ~(k <= 1)
    BY <1>1, <1>5
  <2>2. code[k] = Header(n)[k - 1]
    BY <1>5, <2>1
  <2> QED BY <1>3, <2>1, <2>2
<1>8. Len(code) = 2 * p + 1
  BY <1>1, <1>5
<1> QED BY <1>5, <1>6, <1>7, <1>8 DEF code, jmp, p

(* A function is declared, jumped around, and its parameters are loaded. *)
LEMMA FunctionHeaderAdvance == IInv /\ IInv' /\ FunctionHeader => Advance
PROOF
<1> SUFFICES ASSUME IInv, IInv', FunctionHeader, NEW B, Generated(B)
             PROVE  Generated(B)' /\ (NoneRedefined /\ Linked(B) => Linked(B)')
  BY DEF Advance
<1> DEFINE n == Len(stack)
           size == Len(bytecode)
           p == Len(Params(Top.n))
           self == [Top EXCEPT !.i = 1, !.mark = Len0]
           t == [stack EXCEPT ![n] = self]
           code == <<Instr("JMP", Placeholder)>> \o Header(Top.n)
           mid == SubSeq(bytecode', 1, size + 1)
<1>1. /\ AtFunction /\ Len(Top.n.ch) > 2 /\ Top.i = 0 /\ Emit(code)
      /\ Compile(Top.n.ch[3], self)
      /\ hash_to_function' = [hash_to_function EXCEPT ![FunctionHash] = Declared]
  BY DEF FunctionHeader
<1>2. /\ status = "compiling" /\ stack # <<>> /\ Top.n.kind = "N_BUILTIN"
      /\ Construct(Top.n.tok) = "function" /\ Top \in ActivationType /\ Top.n \in Nodes
      /\ Top.slots = <<>> /\ Top.phase = "start" /\ Slotted(Top) /\ Unresolved(Top) = {}
      /\ ~Opened(Top) /\ n \in Nat \ {0} /\ p \in Nat /\ Len(Top.n.ch) >= 2
      /\ FunctionHash = FnHash[Top.n.ch[1].tok]
  BY <1>1, AtFunctionFacts
<1>3. /\ bytecode \in Seq(InstrType) /\ bytecode' \in Seq(InstrType) /\ Len0 = size
      /\ size \in Nat /\ stack \in Seq(ActivationType) /\ stack' \in Seq(ActivationType) /\ Code
  BY DEF IInv, Code, Stacked, Len0
<1>4. /\ Layout(bytecode, stack, B) /\ Headers(bytecode, stack, B)
      /\ Closed(bytecode, stack, B) /\ \A d \in 1..n : Slotted(stack[d])
  BY <1>2 DEF Generated, Alive, Layout
<1>5. /\ self \in ActivationType /\ self.n = Top.n /\ self.i = 1 /\ self.mark = size
      /\ self.slots = <<>> /\ self.phase = "start"
  BY <1>2, <1>3 DEF ActivationType
<1> HIDE DEF self
<1>6. /\ Opened(self) /\ ~Calling(self) /\ Arity(self) = p /\ Unresolved(self) = {size}
      /\ Slotted(self)
  <2>1. Opened(self) /\ ~Calling(self) /\ Arity(self) = p
    BY <1>2, <1>5 DEF Opened, Calling, Arity
  <2>2. Unresolved(self) = {size}
    BY <1>5, <2>1 DEF Unresolved
  <2>3. Slotted(self)
    BY <1>2, <1>5 DEF Slotted
  <2> QED BY <2>1, <2>2, <2>3
<1>7. /\ code \in Seq(InstrType) /\ Len(code) = 2 * p + 1 /\ code[1].op = "JMP"
      /\ \A k \in 2..Len(code) :
            /\ code[k].op \in {"LOAD", "VAR"} /\ (code[k].op = "LOAD" => code[k].arg <= p)
  BY <1>2, HeaderCode
<1> DEFINE new == Activation(Top.n.ch[3])
<1>8. /\ Unresolved(new) = {} /\ ~Opened(new) /\ ~Calling(new) /\ Slotted(new)
  BY Fresh
<1>9. /\ Len(stack') = n + 1 /\ stack'[n] = self /\ stack'[n + 1] = new
      /\ \A d \in 1..n - 1 : stack'[d] = stack[d]
  BY <1>1, <1>2, <1>3, <1>5, AfterCompile
<1> HIDE DEF code, p, new
<1>10. /\ size <= Len(bytecode') /\ Len(bytecode') \in Nat
       /\ \A x \in 0..size - 1 : bytecode'[x + 1] = bytecode[x + 1]
       /\ \A x \in size..Len(bytecode') - 1 :
             x - size + 1 \in 1..Len(code) /\ bytecode'[x + 1] = code[x - size + 1]
  BY <1>1, <1>2, <1>3, <1>7, Appended
<1>11. ASSUME Alive' PROVE Len(bytecode') = size + 2 * p + 1
  <2>1. bytecode' = bytecode \o code
    BY <1>1, <1>11, WrittenAll DEF Emit
  <2>2. Len(bytecode \o code) = size + Len(code)
    BY <1>3, <1>7, ConcatProperties
  <2> QED BY <1>2, <1>3, <1>7, <2>1, <2>2
<1>12. ASSUME NEW x \in size + 1..Len(bytecode') - 1
       PROVE  /\ Op(bytecode', x) \in {"LOAD", "VAR"}
              /\ Op(bytecode', x) = "LOAD" => To(bytecode', x) <= p
  <2>1. /\ x \in size..Len(bytecode') - 1 /\ x - size + 1 >= 2
    BY <1>3, <1>10
  <2>2. x - size + 1 \in 2..Len(code)
    BY <1>3, <1>10, <2>1
  <2> QED BY <1>7, <1>10, <2>1, <2>2 DEF Op, To
<1>13. size < Len(bytecode') => Op(bytecode', size) = "JMP"
  <2> SUFFICES ASSUME size < Len(bytecode') PROVE Op(bytecode', size) = "JMP"
    OBVIOUS
  <2>1. size \in size..Len(bytecode') - 1 /\ size - size + 1 = 1
    BY <1>3, <1>10
  <2> QED BY <1>7, <1>10, <2>1 DEF Op
<1>14. Kept(bytecode, bytecode', stack)
  BY <1>10 DEF Kept, Op, To
<1>15. /\ t \in Seq(ActivationType) /\ Len(t) = n /\ t[n] = self
       /\ \A d \in 1..n - 1 : t[d] = stack[d]
  BY <1>2, <1>3, <1>5
<1> HIDE DEF t
<1>16. ASSUME Alive' PROVE Layout(bytecode', stack', B)
  <2>1. /\ mid \in Seq(InstrType) /\ Len(mid) = size + 1
        /\ \A x \in 0..size : mid[x + 1] = bytecode'[x + 1]
    <3>1. Len(bytecode') = size + 2 * p + 1 /\ size + 1 <= Len(bytecode') /\ size + 1 \in Nat
      BY <1>2, <1>3, <1>11, <1>16
    <3>2. \A a \in 1..size + 1 : a \in 1..Len(bytecode')
      BY <1>3, <3>1
    <3> QED BY <1>3, <3>1, <3>2
  <2> HIDE DEF mid
  <2>2. Layout(mid, t, B)
    <3>1. Replaced(stack, t)
      BY <1>2, <1>15 DEF Replaced
    <3>2. /\ Unresolved(t[n]) = Unresolved(stack[n]) \cup {size}
          /\ t[n].mark = size
      BY <1>2, <1>5, <1>6, <1>15 DEF Top
    <3>3. Op(mid, size) = "JMP" /\ Jump(mid, size)
      BY <1>2, <1>3, <1>11, <1>13, <1>16, <2>1 DEF Op, Jump
    <3>4. \A x \in 0..size - 1 : mid[x + 1] = bytecode[x + 1]
      BY <1>3, <1>10, <2>1
    <3> QED BY <1>3, <1>4, <1>15, <2>1, <3>1, <3>2, <3>3, <3>4, Jumped
  <2>3. Layout(bytecode', t, B)
    <3>1. Len(mid) <= Len(bytecode') /\ \A x \in 0..Len(mid) - 1 : bytecode'[x + 1] = mid[x + 1]
      BY <1>2, <1>3, <1>11, <1>16, <2>1
    <3>2. \A x \in Len(mid)..Len(bytecode') - 1 :
              ~Jump(bytecode', x) /\ Op(bytecode', x) # "LEAVE"
      BY <1>12, <2>1 DEF Jump
    <3> QED BY <1>3, <1>15, <2>1, <2>2, <3>1, <3>2, Extended
  <2>4. \A d \in 1..n : Same(t[d], stack'[d]) /\ Same(stack'[d], t[d])
    BY <1>2, <1>9, <1>15, SameSelf
  <2>5. Alike(t, stack')
    BY <1>2, <1>9, <1>15, <2>4 DEF Alike
  <2>6. Alike(stack', t)
    BY <1>2, <1>8, <1>9, <1>15, <2>4 DEF Alike
  <2> QED BY <2>3, <2>5, <2>6, Restacked
<1>17. ASSUME NEW d \in 1..Len(stack')
       PROVE  \/ d \in 1..n - 1 /\ stack'[d] = stack[d]
              \/ d = n /\ stack'[d] = self
              \/ stack'[d] = new
  BY <1>2, <1>9
<1>18. ASSUME Alive' PROVE Headers(bytecode', stack', B)
  <2>1. /\ \A b \in B : /\ b.start + 2 * b.params + 2 <= b.end
                        /\ Header0(bytecode', b.start, b.params)
        /\ \A d \in 1..n : Opened(stack[d]) =>
              /\ Arity(stack[d]) \in Nat /\ Len(stack[d].n.ch) > 2
              /\ stack[d].mark + 2 * Arity(stack[d]) + 1 <= Len(bytecode')
              /\ Header0(bytecode', stack[d].mark, Arity(stack[d]))
        /\ \A x \in 0..size - 1 : Op(bytecode', x) = "LOAD" =>
              \/ \E b \in B : Loads(bytecode', b.start, b.params, x)
              \/ \E d \in 1..n :
                    Opened(stack[d]) /\ Loads(bytecode', stack[d].mark, Arity(stack[d]), x)
    <3>1. \A d \in 1..n : stack[d].mark \in Nat
      BY <1>3, ActivationFields
    <3> QED BY <1>3, <1>4, <1>10, <1>14, <3>1, HeadersGrown
  <2>2. /\ Arity(self) \in Nat /\ Len(self.n.ch) > 2
        /\ self.mark + 2 * Arity(self) + 1 <= Len(bytecode')
        /\ Header0(bytecode', self.mark, Arity(self))
    <3>1. self.mark + 2 * Arity(self) + 1 <= Len(bytecode')
      BY <1>2, <1>3, <1>5, <1>6, <1>11, <1>18
    <3>2. \A x \in size + 1..size + 2 * p : x \in size + 1..Len(bytecode') - 1
      BY <1>2, <1>3, <1>11, <1>18
    <3> QED BY <1>1, <1>2, <1>5, <1>6, <1>12, <3>1, <3>2 DEF Header0
  <2>3. ASSUME NEW d \in 1..Len(stack'), Opened(stack'[d])
        PROVE  /\ Arity(stack'[d]) \in Nat /\ Len(stack'[d].n.ch) > 2
               /\ stack'[d].mark + 2 * Arity(stack'[d]) + 1 <= Len(bytecode')
               /\ Header0(bytecode', stack'[d].mark, Arity(stack'[d]))
    <3>1. CASE d \in 1..n - 1 /\ stack'[d] = stack[d]
      <4>1. d \in 1..n
        BY <1>2, <3>1
      <4> QED BY <2>1, <2>3, <3>1, <4>1
    <3> QED BY <1>8, <1>17, <2>2, <2>3, <3>1
  <2>4. ASSUME NEW x \in 0..Len(bytecode') - 1, Op(bytecode', x) = "LOAD"
        PROVE  \/ \E b \in B : Loads(bytecode', b.start, b.params, x)
               \/ \E d \in 1..Len(stack') :
                     Opened(stack'[d]) /\ Loads(bytecode', stack'[d].mark, Arity(stack'[d]), x)
    <3>1. CASE x \in 0..size - 1
      <4>1. ASSUME NEW d \in 1..n, Opened(stack[d]),
                   Loads(bytecode', stack[d].mark, Arity(stack[d]), x)
            PROVE  \E e \in 1..Len(stack') :
                     Opened(stack'[e]) /\ Loads(bytecode', stack'[e].mark, Arity(stack'[e]), x)
        <5>1. d \in 1..n - 1 /\ d \in 1..Len(stack')
          BY <1>2, <1>9, <4>1 DEF Top
        <5> QED BY <1>9, <4>1, <5>1
      <4> QED BY <2>1, <2>4, <3>1, <4>1
    <3>2. CASE x = size
      BY <1>2, <1>3, <1>11, <1>13, <1>18, <2>4, <3>2
    <3>3. CASE x \in size + 1..Len(bytecode') - 1
      <4>1. To(bytecode', x) <= p /\ x \in size + 1..size + 2 * p
        BY <1>2, <1>3, <1>11, <1>12, <1>18, <2>4, <3>3
      <4>2. Loads(bytecode', self.mark, Arity(self), x)
        BY <1>5, <1>6, <4>1 DEF Loads
      <4>3. n \in 1..Len(stack')
        BY <1>2, <1>9
      <4> QED BY <1>6, <1>9, <4>2, <4>3
    <3> QED BY <1>3, <1>10, <3>1, <3>2, <3>3
  <2> QED BY <2>1, <2>3, <2>4 DEF Headers
<1>19. \A d \in 1..Len(stack') : Slotted(stack'[d])
  <2> SUFFICES ASSUME NEW d \in 1..Len(stack') PROVE Slotted(stack'[d])
    OBVIOUS
  <2>1. CASE d \in 1..n - 1 /\ stack'[d] = stack[d]
    BY <1>2, <1>4, <2>1
  <2> QED BY <1>6, <1>8, <1>17, <2>1
<1>20. Generated(B)'
  BY <1>16, <1>18, <1>19 DEF Generated
<1>21. ASSUME NoneRedefined, Linked(B) PROVE Linked(B)'
  <2>1. /\ Filled(hash_to_function', B) /\ hash_to_function'[FunctionHash] = Declared
        /\ \A d \in 1..n - 1 : Settled(stack[d], hash_to_function')
    BY <1>1, <1>21, TableSet
  <2>2. Enters(bytecode', B)
    <3>1. \A x \in size..Len(bytecode') - 1 : Op(bytecode', x) # "CALL"
      <4> SUFFICES ASSUME NEW x \in size..Len(bytecode') - 1 PROVE Op(bytecode', x) # "CALL"
        OBVIOUS
      <4>1. x = size \/ x \in size + 1..Len(bytecode') - 1
        BY <1>3, <1>10
      <4>2. size < Len(bytecode')
        BY <1>3, <1>10
      <4> QED BY <1>12, <1>13, <4>1, <4>2
    <3>2. Enters(bytecode, B)
      BY <1>21 DEF Linked
    <3> QED BY <1>3, <1>4, <1>10, <1>14, <3>1, <3>2, EntersKept
  <2>3. Settled(self, hash_to_function')
    <3>1. Declared.size = 0 /\ Declared.bytecode_index = size /\ Declared.argument_count = p
      BY <1>3 DEF Declared, p
    <3> QED BY <1>2, <1>5, <1>6, <2>1, <3>1 DEF Settled
  <2>4. Settled(new, hash_to_function')
    BY <1>8 DEF Settled
  <2>5. \A d \in 1..Len(stack') : Settled(stack'[d], hash_to_function')
    BY <1>17, <2>1, <2>3, <2>4
  <2> QED BY <1>21, <2>1, <2>2, <2>5 DEF Linked
<1> QED BY <1>20, <1>21

(* A function is complete. *)
LEMMA FunctionEndAdvance == IInv /\ IInv' /\ FunctionEnd => Advance
PROOF
<1> SUFFICES ASSUME IInv, IInv', FunctionEnd, NEW B, Generated(B)
             PROVE  \E C : Generated(C)' /\ (Linked(B) => Linked(C)')
  BY DEF Advance
<1> DEFINE n == Len(stack)
           size == Len(bytecode)
           code == Append(bytecode, Instr("LEAVE", 0))
           p == Arity(Top)
           new == [start |-> Top.mark, end |-> size + 1, params |-> p]
<1>0. PICK C : C = B \cup {new}
  OBVIOUS
<1>1. /\ AtFunction /\ Top.i > 0 /\ Return
      /\ Write(Patch(code, Top.mark, Len(code)))
      /\ hash_to_function' =
            [hash_to_function EXCEPT ![FunctionHash].size = Len(code) - Top.mark]
  BY DEF FunctionEnd
<1>2. /\ status = "compiling" /\ stack # <<>> /\ Top.n.kind = "N_BUILTIN"
      /\ Unresolved(Top) = {Top.mark} /\ Opened(Top) /\ n \in Nat \ {0} /\ n \in 1..n
      /\ Top.mark \in Nat /\ FunctionHash \in 0..MAX_BUILTIN_SIZE - 1
      /\ FunctionHash = FnHash[Top.n.ch[1].tok]
  BY <1>1, AtFunctionFacts
<1>3. /\ bytecode \in Seq(InstrType) /\ bytecode' \in Seq(InstrType)
      /\ size \in Nat /\ stack \in Seq(ActivationType) /\ stack' \in Seq(ActivationType) /\ Code
  BY DEF IInv, Code, Stacked
<1>4. /\ Layout(bytecode, stack, B) /\ Headers(bytecode, stack, B)
      /\ Closed(bytecode, stack, B) /\ \A d \in 1..n : Slotted(stack[d])
  BY <1>2 DEF Generated, Alive, Layout
<1>5. /\ p \in Nat /\ Top.mark + 2 * p + 1 <= size
      /\ Top.mark \in 0..size - 1 /\ Jump(bytecode, Top.mark) /\ Awaits(stack, Top.mark)
  <2>1. p \in Nat /\ Top.mark + 2 * p + 1 <= size
    BY <1>2, <1>4 DEF Headers, Top
  <2>2. Top.mark \in Unresolved(stack[n])
    BY <1>2 DEF Top
  <2> QED BY <1>2, <1>4, <2>1, <2>2 DEF Layout, Pending, Awaits
<1>6. /\ code \in Seq(InstrType) /\ Len(code) = size + 1 /\ Op(code, size) = "LEAVE"
      /\ \A x \in 0..size - 1 : code[x + 1] = bytecode[x + 1]
  <2>1. Instr("LEAVE", 0) \in InstrType /\ Instr("LEAVE", 0).op = "LEAVE"
    BY DEF Instr, InstrType, Ops
  <2> QED BY <1>3, <2>1 DEF Op
<1> HIDE DEF code, p
<1>7. /\ size <= Len(bytecode') /\ Kept(bytecode, bytecode', stack)
      /\ \A x \in size..Len(bytecode') - 1 :
            x \in 0..Len(code) - 1 /\ Op(bytecode', x) = Op(code, x)
      /\ Alive' =>
            /\ Len(bytecode') = Len(code)
            /\ \A x \in 0..Len(code) - 1 :
                  /\ Op(bytecode', x) = Op(code, x)
                  /\ To(bytecode', x) = IF x = Top.mark THEN Len(code) ELSE To(code, x)
  <2>1. size <= Len(code)
    BY <1>3, <1>6
  <2> QED BY <1>1, <1>2, <1>3, <1>5, <1>6, <2>1, PatchWritten
<1>8. ASSUME NEW x \in size..Len(bytecode') - 1 PROVE Op(bytecode', x) = "LEAVE"
  <2>1. x = size
    BY <1>3, <1>6, <1>7
  <2> QED BY <1>6, <1>7, <2>1
<1>9. /\ Len(stack') = n - 1 /\ \A d \in 1..n - 1 : stack'[d] = stack[d]
  BY <1>1, <1>2, <1>3, AfterReturn
<1>10. ASSUME ~Alive' PROVE Generated(B)' /\ (Linked(B) => Linked(B)')
  <2>1. Generated(B)'
    BY <1>10 DEF Generated
  <2>2. ASSUME Linked(B) PROVE Linked(B)'
    <3>1. Enters(bytecode, B) /\ \A x \in size..Len(bytecode') - 1 : Op(bytecode', x) # "CALL"
      BY <1>8, <2>2 DEF Linked
    <3>2. Enters(bytecode', B)
      BY <1>3, <1>4, <1>7, <3>1, EntersKept
    <3> QED BY <1>10, <2>2, <3>2 DEF Linked
  <2> QED BY <2>1, <2>2
<1>11. ASSUME Alive' PROVE Generated(C)' /\ (Linked(B) => Linked(C)')
  <2>1. Layout(bytecode', stack', C)
    <3>1. Opened(stack[n]) /\ Unresolved(stack[n]) = {stack[n].mark}
      BY <1>2 DEF Top
    <3>2. Len(bytecode') = size + 1 /\ Op(bytecode', size) = "LEAVE"
      BY <1>3, <1>6, <1>7, <1>11
    <3>3. ASSUME NEW x \in 0..size - 1
          PROVE  /\ Op(bytecode', x) = Op(bytecode, x)
                 /\ To(bytecode', x) = IF x = stack[n].mark THEN size + 1 ELSE To(bytecode, x)
      <4>1. x \in 0..Len(code) - 1 /\ code[x + 1] = bytecode[x + 1]
        BY <1>3, <1>6
      <4> QED BY <1>6, <1>7, <1>11, <4>1 DEF Op, To, Top
    <3>4. Layout(bytecode', stack', B \cup {[start |-> stack[n].mark, end |-> size + 1,
                                             params |-> p]})
      BY <1>2, <1>3, <1>4, <1>5, <1>9, <3>1, <3>2, <3>3, ClosedOff
    <3> QED BY <1>0, <3>4 DEF Top
  <2>2. /\ \A b \in B : /\ b.start + 2 * b.params + 2 <= b.end
                        /\ Header0(bytecode', b.start, b.params)
        /\ \A d \in 1..n : Opened(stack[d]) =>
              /\ Arity(stack[d]) \in Nat /\ Len(stack[d].n.ch) > 2
              /\ stack[d].mark + 2 * Arity(stack[d]) + 1 <= Len(bytecode')
              /\ Header0(bytecode', stack[d].mark, Arity(stack[d]))
        /\ \A x \in 0..size - 1 : Op(bytecode', x) = "LOAD" =>
              \/ \E b \in B : Loads(bytecode', b.start, b.params, x)
              \/ \E d \in 1..n :
                    Opened(stack[d]) /\ Loads(bytecode', stack[d].mark, Arity(stack[d]), x)
    <3>1. \A d \in 1..n : stack[d].mark \in Nat
      BY <1>3, ActivationFields
    <3> QED BY <1>3, <1>4, <1>7, <3>1, HeadersGrown
  <2>3. new.start + 2 * new.params + 2 <= new.end /\ Header0(bytecode', new.start, new.params)
    <3>1. Header0(bytecode', Top.mark, p)
      BY <1>2, <2>2 DEF Top, p
    <3> QED BY <1>2, <1>3, <1>5, <3>1
  <2>4. ASSUME NEW x \in 0..Len(bytecode') - 1, Op(bytecode', x) = "LOAD"
        PROVE  \/ \E b \in C : Loads(bytecode', b.start, b.params, x)
               \/ \E d \in 1..Len(stack') :
                     Opened(stack'[d]) /\ Loads(bytecode', stack'[d].mark, Arity(stack'[d]), x)
    <3>1. x \in 0..size - 1
      <4>1. x \in 0..size - 1 \/ x \in size..Len(bytecode') - 1
        BY <1>3, <1>7
      <4> QED BY <1>8, <2>4, <4>1
    <3>2. CASE \E b \in B : Loads(bytecode', b.start, b.params, x)
      BY <1>0, <3>2
    <3>3. ASSUME NEW d \in 1..n, Opened(stack[d]),
                 Loads(bytecode', stack[d].mark, Arity(stack[d]), x)
          PROVE  \/ \E b \in C : Loads(bytecode', b.start, b.params, x)
                 \/ \E e \in 1..Len(stack') :
                     Opened(stack'[e]) /\ Loads(bytecode', stack'[e].mark, Arity(stack'[e]), x)
      <4>1. CASE d = n
        <5>1. Loads(bytecode', new.start, new.params, x)
          BY <3>3, <4>1 DEF Top, p
        <5> QED BY <1>0, <5>1
      <4>2. CASE d \in 1..n - 1
        BY <1>9, <3>3, <4>2
      <4> QED BY <1>2, <4>1, <4>2
    <3> QED BY <2>2, <2>4, <3>1, <3>2, <3>3
  <2>5. Headers(bytecode', stack', C)
    <3>1. ASSUME NEW d \in 1..Len(stack')
          PROVE  stack'[d] = stack[d] /\ d \in 1..n
      BY <1>2, <1>9
    <3>2. \A b \in C : /\ b.start + 2 * b.params + 2 <= b.end
                       /\ Header0(bytecode', b.start, b.params)
      <4> HIDE DEF new
      <4> QED BY <1>0, <2>2, <2>3
    <3> QED BY <2>2, <2>4, <3>1, <3>2 DEF Headers
  <2>6. \A d \in 1..Len(stack') : Slotted(stack'[d])
    BY <1>2, <1>4, <1>9
  <2>7. Generated(C)'
    BY <2>1, <2>5, <2>6 DEF Generated
  <2>8. ASSUME Linked(B) PROVE Linked(C)'
    <3>1. /\ Enters(bytecode, B) /\ Filled(hash_to_function, B)
          /\ \A d \in 1..n : Settled(stack[d], hash_to_function)
      BY <1>2, <2>8 DEF Linked, Alive
    <3>2. Enters(bytecode', C)
      <4>1. \A x \in size..Len(bytecode') - 1 : Op(bytecode', x) # "CALL"
        BY <1>8
      <4>2. B \subseteq C
        BY <1>0
      <4> QED BY <1>3, <1>4, <1>7, <3>1, <4>1, <4>2, EntersKept
    <3> DEFINE old == hash_to_function[FunctionHash]
               done == hash_to_function'[FunctionHash]
    <3>3. /\ old.size = 0 /\ old.bytecode_index = Top.mark /\ old.argument_count = p
          /\ old \in CtxFunction
      <4>1. Settled(Top, hash_to_function)
        BY <1>2, <3>1 DEF Top
      <4> QED BY <1>2, <4>1 DEF Settled, p, IInv, Functions
    <3>4. /\ \A h \in 0..MAX_BUILTIN_SIZE - 1 :
                h # FunctionHash => hash_to_function'[h] = hash_to_function[h]
          /\ done = [old EXCEPT !.size = Len(code) - Top.mark]
      <4>1. hash_to_function \in [0..MAX_BUILTIN_SIZE - 1 -> CtxFunction]
        BY DEF IInv, Functions
      <4> QED BY <1>1, <1>2, <4>1
    <3>5. /\ done.size = size + 1 - Top.mark /\ done.bytecode_index = Top.mark
          /\ done.argument_count = p
      <4>1. Len(code) - Top.mark = size + 1 - Top.mark
        BY <1>2, <1>3, <1>6
      <4> HIDE DEF old, done
      <4> QED BY <3>3, <3>4, <4>1 DEF CtxFunction
    <3> HIDE DEF old, done
    <3>6. Filled(hash_to_function', C)
      <4> SUFFICES ASSUME NEW h \in 0..MAX_BUILTIN_SIZE - 1, hash_to_function'[h].size > 0
                   PROVE  [start |-> hash_to_function'[h].bytecode_index,
                           end |-> hash_to_function'[h].bytecode_index
                                     + hash_to_function'[h].size,
                           params |-> hash_to_function'[h].argument_count] \in C
        BY DEF Filled
      <4>1. CASE h = FunctionHash
        <5>1. Top.mark + (size + 1 - Top.mark) = size + 1
          BY <1>2, <1>3
        <5> QED BY <1>0, <3>5, <4>1, <5>1 DEF done
      <4>2. CASE h # FunctionHash
        BY <1>0, <3>1, <3>4, <4>2 DEF Filled
      <4> QED BY <4>1, <4>2
    <3>7. ASSUME NEW d \in 1..n - 1 PROVE Settled(stack[d], hash_to_function')
      <4>1. d \in 1..n /\ d < n /\ Settled(stack[d], hash_to_function)
        BY <1>2, <3>1
      <4>2. ASSUME Opened(stack[d]) PROVE FnHash[stack[d].n.ch[1].tok] # FunctionHash
        <5>1. stack[d].mark \in Unresolved(stack[d]) /\ Top.mark \in Unresolved(stack[n])
          BY <1>2, <4>2, OpenedAwaits DEF Top
        <5>2. stack[d].mark < Top.mark
          BY <1>2, <1>4, <4>1, <5>1 DEF Layout, Pending
        <5>3. stack[d].mark \in Nat
          BY <1>3, <4>1, ActivationFields
        <5>4. stack[d].mark # Top.mark
          BY <1>2, <5>2, <5>3
        <5> QED BY <3>3, <4>1, <4>2, <5>4 DEF Settled, old
      <4>3. ASSUME Calling(stack[d]) PROVE FnHash[stack[d].n.tok] # FunctionHash
        BY <3>3, <4>1, <4>3 DEF Settled, old
      <4>4. Opened(stack[d]) =>
               hash_to_function'[FnHash[stack[d].n.ch[1].tok]]
                 = hash_to_function[FnHash[stack[d].n.ch[1].tok]]
        BY <1>2, <3>4, <4>1, <4>2, NamesHash
      <4>5. Calling(stack[d]) =>
               hash_to_function'[FnHash[stack[d].n.tok]] = hash_to_function[FnHash[stack[d].n.tok]]
        BY <1>2, <3>4, <4>1, <4>3, NamesHash
      <4> QED BY <4>1, <4>4, <4>5 DEF Settled
    <3>8. \A d \in 1..Len(stack') : Settled(stack'[d], hash_to_function')
      BY <1>9, <3>7
    <3>9. C \subseteq Body
      BY <2>1 DEF Layout, Closed
    <3> QED BY <3>2, <3>6, <3>8, <3>9 DEF Linked
  <2> QED BY <2>7, <2>8
<1> QED BY <1>10, <1>11

(* @function *)
LEMMA FunctionAdvance ==
    IInv /\ IInv' /\ (FunctionEmpty \/ FunctionHeader \/ FunctionBody \/ FunctionEnd) => Advance
  BY FunctionEmptyAdvance, FunctionHeaderAdvance, FunctionBodyAdvance, FunctionEndAdvance

-----------------------------------------------------------------------------
(* The theorems                                                            *)

(* Every step generates code. *)
LEMMA NextAdvance == IInv /\ IInv' /\ Next => Advance
PROOF
<1> SUFFICES ASSUME IInv, IInv', Next PROVE Advance
  OBVIOUS
<1>1. CASE Reject \/ NullToken
  BY <1>1, FailAdvance DEF Reject, NullToken
<1> QED
  BY <1>1, CompileTopAdvance, DoneAdvance, AtomAdvance, OperandAdvance, CallAdvance,
     BuiltinAdvance, MatchAdvance, FunctionAdvance DEF Next

LEMMA StutterAdvance == UNCHANGED ccVars => Advance
  BY DEF Advance, Generated, Linked, Alive, ccVars

(* Nothing generated is code generated so far. *)
LEMMA InitGenerated == Init => Generated({}) /\ Linked({})
PROOF
<1> SUFFICES ASSUME Init PROVE Generated({}) /\ Linked({})
  OBVIOUS
<1>1. stack = <<>> /\ bytecode = <<>> /\ Len(stack) = 0 /\ Len(bytecode) = 0
  BY DEF Init
<1>2. Layout(bytecode, stack, {})
  BY <1>1 DEF Layout, Pending, Landed, Uncrossed, Closed, Sealed, Laminar, Leaving
<1>3. Headers(bytecode, stack, {})
  BY <1>1 DEF Headers
<1>4. Enters(bytecode, {})
  BY <1>1 DEF Enters
<1>5. Filled(hash_to_function, {})
  <2>1. hash_to_function = [h \in 0..MAX_BUILTIN_SIZE - 1 |-> NoFunction]
    BY DEF Init
  <2> QED BY <2>1 DEF Filled, NoFunction
<1> QED BY <1>1, <1>2, <1>3, <1>4, <1>5 DEF Generated, Linked

(* The compiler is through when nothing is left on its stack. *)
Through == status = "done" => stack = <<>>

LEMMA StepThrough == Through /\ [Next]_ccVars => Through'
PROOF
<1> SUFFICES ASSUME Through, [Next]_ccVars PROVE Through'
  OBVIOUS
<1>1. CASE UNCHANGED ccVars
  BY <1>1 DEF Through, ccVars
<1>2. CASE Done
  BY <1>2 DEF Through, Done
<1>3. CASE \E reason : reason # "done" /\ Fail(reason)
  BY <1>3 DEF Through, Fail
<1>4. CASE \E code : status = "compiling" /\ Write(code)
  BY <1>4 DEF Through, Write
<1>5. CASE status = "compiling" /\ UNCHANGED status
  BY <1>5 DEF Through
<1>6. ASSUME CompileTop \/ FunctionEmpty PROVE status = "compiling" /\ UNCHANGED status
  BY <1>6 DEF CompileTop, FunctionEmpty, AtFunction, AtConstruct, At
<1>7. ASSUME \/ OutOfGlobals \/ OutOfRegisters \/ MatchGarbage \/ Reject \/ NullToken
      PROVE \E reason : reason # "done" /\ Fail(reason)
  BY <1>7 DEF OutOfGlobals, OutOfRegisters, MatchGarbage, Reject, NullToken
<1>8. ASSUME \/ CompileBool \/ CompileCached \/ CompileLiteral \/ CompileAggregate
             \/ CompileIdent \/ CompileBin
      PROVE \E code : status = "compiling" /\ Write(code)
  BY <1>8 DEF CompileBool, CompileCached, CompileLiteral, CompileAggregate, CompileIdent,
              CompileBin, IsLiteral, IsEmptyAggregate, Leaf, Emit, At
<1>9. ASSUME \/ StoreOperand \/ EmitBuiltin \/ EmitCall
             \/ CompileNone \/ CompileAssert \/ LetBind
      PROVE \E code : status = "compiling" /\ Write(code)
  BY <1>9 DEF StoreOperand, EmitBuiltin, EmitCall, CompileNone, CompileAssert, LetBind,
              Storing, AtArguments, IsRuntimeCall, Callable, AtConstruct, Leaf, Emit, At
<1>10. ASSUME MatchBody \/ MatchCaseEnd \/ FunctionHeader \/ FunctionEnd
       PROVE \E code : status = "compiling" /\ Write(code)
  BY <1>10 DEF MatchBody, MatchCaseEnd, FunctionHeader, FunctionEnd, AtCase, AtFunction,
               AtConstruct, Emit, At
<1>11. ASSUME \/ NextOperand \/ SingleOperand \/ CompileElidedCall \/ NextArgument
              \/ AssertChild \/ LetValue
       PROVE status = "compiling" /\ UNCHANGED status
  BY <1>11 DEF NextOperand, SingleOperand, CompileElidedCall, NextArgument, AssertChild,
               LetValue, ElidedCall, AtArguments, IsRuntimeCall, Callable, AtConstruct,
               Descend, ReturnOnly, At
<1>12. ASSUME \/ MatchCondition \/ MatchDefault \/ MatchDefaultEnd \/ MatchEnd \/ FunctionBody
       PROVE status = "compiling" /\ UNCHANGED status
  BY <1>12 DEF MatchCondition, MatchDefault, MatchDefaultEnd, MatchEnd, AtMatchEnd,
               FunctionBody, AtCase, AtFunction, AtConstruct, Descend, At
<1> QED
  BY <1>1, <1>2, <1>3, <1>4, <1>5, <1>6, <1>7, <1>8, <1>9, <1>10, <1>11, <1>12 DEF Next

(* The code is code generated so far, for some set of completed bodies.    *)
Laid == \E B : Generated(B)
Tied == \E B : Generated(B) /\ Linked(B)

LEMMA InitLaid == Init => Laid /\ Tied /\ Through
PROOF
<1> SUFFICES ASSUME Init PROVE Laid /\ Tied /\ Through
  OBVIOUS
<1>1. Generated({}) /\ Linked({})
  BY InitGenerated
<1> QED BY <1>1 DEF Laid, Tied, Through, Init

LEMMA StepLaid == IInv /\ IInv' /\ Laid /\ [Next]_ccVars => Laid'
PROOF
<1> SUFFICES ASSUME IInv, IInv', Laid, [Next]_ccVars PROVE Laid'
  OBVIOUS
<1>1. PICK B : Generated(B)
  BY DEF Laid
<1>2. \E C : Generated(C)'
  BY <1>1, NextAdvance, StutterAdvance DEF Advance
<1> QED BY <1>2 DEF Laid

LEMMA StepTied == IInv /\ IInv' /\ NoneRedefined /\ Tied /\ [Next]_ccVars => Tied'
PROOF
<1> SUFFICES ASSUME IInv, IInv', NoneRedefined, Tied, [Next]_ccVars PROVE Tied'
  OBVIOUS
<1>1. PICK B : Generated(B) /\ Linked(B)
  BY DEF Tied
<1>2. \E C : Generated(C)' /\ Linked(C)'
  BY <1>1, NextAdvance, StutterAdvance DEF Advance
<1> QED BY <1>2 DEF Tied

(* Whatever the program and wherever the compiler stands, its code is laid *)
(* out: pending jumps belong to open activations, completed bodies nest    *)
(* and no resolved jump crosses one (cc.c:148-283); nothing is left open   *)
(* when it is done.                                                        *)
THEOREM CodeLaidOut == Spec => [](Laid /\ Through)
PROOF
<1>1. Init => Laid /\ Through
  BY InitLaid
<1>2. IInv /\ IInv' /\ Laid /\ Through /\ [Next]_ccVars => Laid' /\ Through'
  BY StepLaid, StepThrough
<1> QED BY <1>1, <1>2, Invariance, PTL DEF Spec

(* While no function is redefined where it is in use, the calls emitted so *)
(* far and the function table are tied to the completed bodies (cc.c:236,  *)
(* cc.c:283, cc.c:337-358).                                                *)
THEOREM CallsTied == Spec /\ []NoneRedefined => []Tied
PROOF
<1>1. Init => Tied
  BY InitLaid
<1>2. IInv /\ IInv' /\ NoneRedefined /\ Tied /\ [Next]_ccVars => Tied'
  BY StepTied
<1> QED BY <1>1, <1>2, Invariance, PTL DEF Spec

(* Every jump of the finished code has a target, ahead of it and not       *)
(* beyond the end (cc.c:148-214, vm.h:134-137), whatever the program.      *)
THEOREM JumpsHaveTargets == Spec => []JumpsLand
PROOF
<1>1. Laid /\ Through => JumpsLand
  <2> SUFFICES ASSUME Laid, Through, status = "done", NEW a \in Addresses, IsJump(a)
               PROVE  bytecode[a + 1].arg \in a + 1..Len(bytecode)
    BY DEF JumpsLand
  <2>1. PICK B : Generated(B)
    BY DEF Laid
  <2>2. Landed(bytecode, stack) /\ Len(stack) = 0
    BY <2>1 DEF Generated, Layout, Alive, Through
  <2>3. Jump(bytecode, a) /\ a \in 0..Len(bytecode) - 1 /\ ~Awaits(stack, a)
    BY <2>2 DEF IsJump, Jump, Op, Addresses, Awaits
  <2> QED BY <2>2, <2>3 DEF Landed, To
<1> QED BY <1>1, CodeLaidOut, PTL

(* While no function is redefined where it is in use, every call enters a  *)
(* function completed before the call (cc.c:236, cc.c:283), so that no     *)
(* chain of calls comes back to where it started.  The run redefining      *)
(* shows what happens otherwise.                                           *)
THEOREM CallsEnterCompleted == Spec /\ []NoneRedefined => []CallsCompleted
PROOF
<1>1. Tied => CallsCompleted
  <2> SUFFICES ASSUME Tied, NEW a \in Addresses, bytecode[a + 1].op = "CALL"
               PROVE  LET f == bytecode[a + 1].arg
                      IN  /\ f < a
                          /\ bytecode[f + 1].op = "JMP"
                          /\ bytecode[f + 1].arg \in f + 2..a
                          /\ bytecode[bytecode[f + 1].arg].op = "LEAVE"
    BY DEF CallsCompleted
  <2>1. PICK B : Generated(B) /\ Linked(B)
    BY DEF Tied
  <2>2. PICK b \in B : /\ b.start = bytecode[a + 1].arg /\ b.end <= a
                       /\ Framed(bytecode, b)
    BY <2>1 DEF Linked, Enters, Op, To, Addresses
  <2>3. b.start \in Nat /\ b.end \in Nat /\ a \in Nat
    BY <2>1 DEF Linked, Body, Addresses
  <2>4. /\ b.start + 2 <= b.end /\ bytecode[b.start + 1].op = "JMP"
        /\ bytecode[b.start + 1].arg = b.end /\ bytecode[b.end - 1 + 1].op = "LEAVE"
    BY <2>2 DEF Framed, Op, To
  <2>5. b.end - 1 + 1 = b.end /\ b.start < a /\ b.end \in b.start + 2..a
    BY <2>2, <2>3, <2>4
  <2> QED BY <2>2, <2>4, <2>5
<1> QED BY <1>1, CallsTied, PTL

(* While no function is redefined where it is in use, no jump of the       *)
(* finished code leaves a function's body or enters one.                   *)
THEOREM BodiesAreSealed == Spec /\ []NoneRedefined => []BodiesSealed
PROOF
<1>1. IInv /\ Tied /\ Through => BodiesSealed
  <2> SUFFICES ASSUME IInv, Tied, Through, status = "done",
                      NEW h \in DOMAIN hash_to_function, hash_to_function[h].size > 0,
                      NEW a \in Addresses, IsJump(a)
               PROVE  a \in BodyOf(h) <=> bytecode[a + 1].arg \in BodyOf(h)
    BY DEF BodiesSealed
  <2>1. PICK B : Generated(B) /\ Linked(B)
    BY DEF Tied
  <2> DEFINE f == hash_to_function[h]
             b == [start |-> f.bytecode_index, end |-> f.bytecode_index + f.size,
                   params |-> f.argument_count]
  <2>2. /\ Landed(bytecode, stack) /\ Sealed(bytecode, stack, B)
        /\ Filled(hash_to_function, B) /\ Len(stack) = 0
    BY <2>1 DEF Generated, Linked, Layout, Alive, Through
  <2>3. h \in 0..MAX_BUILTIN_SIZE - 1 /\ f.bytecode_index \in Nat /\ f.size \in Nat
    BY DEF IInv, Functions, CtxFunction
  <2>4. b \in B
    BY <2>2, <2>3 DEF Filled
  <2>5. Jump(bytecode, a) /\ a \in 0..Len(bytecode) - 1 /\ ~Awaits(stack, a)
    BY <2>2 DEF IsJump, Jump, Op, Addresses, Awaits
  <2>6. To(bytecode, a) \in Nat /\ a \in Nat
    BY <2>2, <2>5 DEF Landed
  <2>7. In(b, a) <=> In(b, To(bytecode, a))
    <3> HIDE DEF b
    <3> QED BY <2>2, <2>4, <2>5 DEF Sealed
  <2>8. \A x \in Nat : In(b, x) <=> x \in BodyOf(h)
    BY <2>3 DEF In, BodyOf
  <2> QED BY <2>6, <2>7, <2>8 DEF To
<1> QED BY <1>1, CallsTied, CodeLaidOut, Invariance, PTL

-----------------------------------------------------------------------------
(* The operands of the code                                                *)

(* an instruction the machine can execute with g globals *)
Usable(i, g) ==
    /\ i.op = "LOADG" => i.arg \in 0..g - 1
    /\ i.op \in {"VAR", "LOADV"} => i.arg \in 0..VARIABLE_TABLE_SIZE - 1
    /\ i.op \in BinOps \cup {"STORE"} => i.arg \in 0..REGISTERS
    /\ i.op \in {"LOAD", "ARGS"} => i.arg \in Nat
    /\ i.op = "BUILTIN" => \E b \in Runtime : FnHash[b] = i.arg
AllUsable(code, g) ==
    /\ \A x \in 0..Len(code) - 1 : Usable(code[x + 1], g)
    /\ \A x \in 0..Len(code) - 1 : Op(code, x) = "ARGS" =>
          x + 1 < Len(code) /\ Op(code, x + 1) \in {"BUILTIN", "CALL"}

(* Every global an instruction or a bucket names is there, and so are the  *)
(* first three; every register and variable is one of the machine's, every *)
(* builtin is registered, and a count of arguments is for what follows.    *)
Operands ==
    /\ Len(globals) >= 3
    /\ \A h \in 0..GLOBAL_SIZE - 1 : global_hash_buckets[h] <= Len(globals)
    /\ Alive => AllUsable(bytecode, Len(globals))

LEMMA UsableMore ==
    ASSUME NEW code, NEW g \in Nat, NEW h \in Nat, g <= h, AllUsable(code, g)
    PROVE  AllUsable(code, h)
  BY DEF AllUsable, Usable

(* Code is put behind code. *)
LEMMA UsableConcat ==
    ASSUME NEW code \in Seq(InstrType), NEW more \in Seq(InstrType), NEW g,
           AllUsable(code, g), AllUsable(more, g)
    PROVE  AllUsable(code \o more, g)
PROOF
<1> DEFINE all == code \o more
           n == Len(code)
<1>1. /\ Len(all) = n + Len(more) /\ n \in Nat /\ Len(more) \in Nat
      /\ \A a \in 1..n + Len(more) : all[a] = IF a <= n THEN code[a] ELSE more[a - n]
  BY ConcatProperties
<1> HIDE DEF all
<1>2. ASSUME NEW x \in 0..n - 1 PROVE all[x + 1] = code[x + 1]
  BY <1>1
<1>3. ASSUME NEW x \in n..Len(all) - 1
      PROVE x - n \in 0..Len(more) - 1 /\ all[x + 1] = more[x - n + 1]
  <2>1. x + 1 \in 1..n + Len(more) /\ ~(x + 1 <= n) /\ x + 1 - n = x - n + 1
    BY <1>1
  <2> QED BY <1>1, <2>1
<1>4. ASSUME NEW x \in 0..Len(all) - 1 PROVE Usable(all[x + 1], g)
  <2>1. CASE x \in 0..n - 1
    BY <1>2, <2>1 DEF AllUsable
  <2>2. CASE x \in n..Len(all) - 1
    BY <1>3, <2>2 DEF AllUsable
  <2> QED BY <1>1, <2>1, <2>2
<1>5. ASSUME NEW x \in 0..Len(all) - 1, Op(all, x) = "ARGS"
      PROVE x + 1 < Len(all) /\ Op(all, x + 1) \in {"BUILTIN", "CALL"}
  <2>1. CASE x \in 0..n - 1
    <3>1. x + 1 < n /\ Op(code, x + 1) \in {"BUILTIN", "CALL"}
      BY <1>2, <1>5, <2>1 DEF AllUsable, Op
    <3>2. x + 1 \in 0..n - 1
      BY <1>1, <2>1, <3>1
    <3> QED BY <1>1, <1>2, <3>1, <3>2 DEF Op
  <2>2. CASE x \in n..Len(all) - 1
    <3>1. x - n \in 0..Len(more) - 1 /\ Op(more, x - n) = "ARGS"
      BY <1>3, <1>5, <2>2 DEF Op
    <3>2. x - n + 1 < Len(more) /\ Op(more, x - n + 1) \in {"BUILTIN", "CALL"}
      BY <3>1 DEF AllUsable
    <3>3. x + 1 \in n..Len(all) - 1 /\ x + 1 - n = x - n + 1
      BY <1>1, <2>2, <3>2
    <3>4. all[x + 1 + 1] = more[x - n + 1 + 1]
      BY <1>3, <3>3
    <3> QED BY <1>1, <3>2, <3>3, <3>4 DEF Op
  <2> QED BY <1>1, <2>1, <2>2
<1> QED BY <1>4, <1>5 DEF AllUsable, all

(* Jumps are given other targets. *)
LEMMA UsableRetargeted ==
    ASSUME NEW code \in Seq(InstrType), NEW more \in Seq(InstrType), NEW g,
           AllUsable(code, g), Len(more) = Len(code),
           \A x \in 0..Len(code) - 1 :
              /\ Op(more, x) = Op(code, x)
              /\ To(more, x) = To(code, x) \/ Jump(code, x)
    PROVE  AllUsable(more, g)
PROOF
<1>1. ASSUME NEW x \in 0..Len(code) - 1 PROVE Usable(more[x + 1], g)
  <2>1. /\ more[x + 1].op = code[x + 1].op
        /\ more[x + 1].arg = code[x + 1].arg \/ more[x + 1].op \in {"JMP", "JMPF"}
    BY DEF Op, To, Jump
  <2>2. Usable(code[x + 1], g)
    BY DEF AllUsable
  <2>3. CASE more[x + 1].op \in {"JMP", "JMPF"}
    BY <2>3 DEF Usable, BinOps
  <2>4. CASE more[x + 1].arg = code[x + 1].arg
    BY <2>1, <2>2, <2>4 DEF Usable
  <2> QED BY <2>1, <2>3, <2>4
<1>2. ASSUME NEW x \in 0..Len(code) - 1, Op(more, x) = "ARGS"
      PROVE x + 1 < Len(more) /\ Op(more, x + 1) \in {"BUILTIN", "CALL"}
  <2>1. x + 1 < Len(code) /\ Op(code, x + 1) \in {"BUILTIN", "CALL"}
    BY <1>2 DEF AllUsable
  <2>2. x + 1 \in 0..Len(code) - 1
    BY <2>1
  <2> QED BY <2>1, <2>2
<1> QED BY <1>1, <1>2 DEF AllUsable

LEMMA UsableOne ==
    ASSUME NEW i \in InstrType, NEW g, Usable(i, g), i.op # "ARGS"
    PROVE  <<i>> \in Seq(InstrType) /\ AllUsable(<<i>>, g)
  BY DEF AllUsable, Op

(* Code is emitted, and globals are only added. *)
LEMMA OperandsEmitted ==
    ASSUME IInv, status = "compiling", Operands, NEW code \in Seq(InstrType),
           AllUsable(code, Len(globals')), Emit(code),
           globals' \in Seq(Value), Len(globals) <= Len(globals'),
           \A h \in 0..GLOBAL_SIZE - 1 : global_hash_buckets'[h] <= Len(globals')
    PROVE  Operands'
PROOF
<1> DEFINE all == bytecode \o code
<1>1. bytecode \in Seq(InstrType) /\ Len(globals) \in Nat /\ Len(globals') \in Nat
  BY DEF IInv, Code, Pool
<1>2. AllUsable(bytecode, Len(globals'))
  BY <1>1, UsableMore DEF Operands, Alive
<1>3. AllUsable(all, Len(globals'))
  BY <1>1, <1>2, UsableConcat
<1>4. Write(all)
  BY DEF Emit
<1> HIDE DEF all
<1>5. Alive' => bytecode' = all
  BY <1>4 DEF Write, Alive
<1>6. Alive' => AllUsable(bytecode', Len(globals'))
  BY <1>3, <1>5
<1>7. Len(globals') >= 3
  BY <1>1 DEF Operands
<1> QED BY <1>6, <1>7 DEF Operands

LEMMA OperandsOne ==
    ASSUME IInv, status = "compiling", Operands,
           NEW op \in Ops \ {"ARGS"}, NEW arg \in Nat \cup {Placeholder},
           Usable(Instr(op, arg), Len(globals')), Emit(<<Instr(op, arg)>>),
           globals' \in Seq(Value), Len(globals) <= Len(globals'),
           \A h \in 0..GLOBAL_SIZE - 1 : global_hash_buckets'[h] <= Len(globals')
    PROVE  Operands'
PROOF
<1>1. Instr(op, arg) \in InstrType /\ Instr(op, arg).op # "ARGS"
  BY Instruction
<1>2. /\ <<Instr(op, arg)>> \in Seq(InstrType)
      /\ AllUsable(<<Instr(op, arg)>>, Len(globals'))
  BY <1>1, UsableOne
<1> QED BY <1>2, OperandsEmitted

(* Nothing is emitted. *)
LEMMA OperandsSame ==
    ASSUME Operands, status = "compiling", UNCHANGED bytecode, UNCHANGED poolVars
    PROVE  Operands'
  BY DEF Operands, Alive, poolVars

LEMMA AtomOperands ==
    ASSUME IInv, Operands,
           \/ CompileBool \/ CompileCached \/ CompileLiteral \/ CompileAggregate
           \/ CompileIdent
    PROVE  Operands'
PROOF
<1>1. status = "compiling" /\ stack # <<>>
  BY DEF CompileBool, CompileCached, CompileLiteral, CompileAggregate, CompileIdent,
         IsLiteral, IsEmptyAggregate, At
<1>2. Top.n \in Nodes /\ Top.n.tok \in Tokens
  BY <1>1, TopSound, NodeType DEF IInv
<1>3. /\ Bucket[Top.n.tok] \in 0..GLOBAL_SIZE - 1
      /\ VarHash[Top.n.tok] \in 0..VARIABLE_TABLE_SIZE - 1 /\ VarHash[Top.n.tok] \in Nat
      /\ LitValue[Top.n.tok] \in Value
  BY <1>2, HashAssumption, SizeAssumption
<1>4. /\ globals \in Seq(Value) /\ Len(globals) \in Nat /\ Len(globals) >= 3
      /\ global_hash_buckets \in [0..GLOBAL_SIZE - 1 -> Nat]
      /\ \A h \in 0..GLOBAL_SIZE - 1 : global_hash_buckets[h] <= Len(globals)
  BY DEF IInv, Pool, Operands
<1>5. "LOADG" \in Ops \ {"ARGS"} /\ "LOADV" \in Ops \ {"ARGS"}
  BY DEF Ops
<1>6. \A g \in Nat : \A a \in 0..g - 1 : Usable(Instr("LOADG", a), g) /\ a \in Nat
  BY DEF Usable, Instr, BinOps
<1>7. CASE CompileBool
  <2>1. PICK a \in {0, 1} : Leaf(<<Instr("LOADG", a)>>)
    BY <1>7 DEF CompileBool, GLOBAL_TRUE, GLOBAL_FALSE
  <2>2. Emit(<<Instr("LOADG", a)>>) /\ UNCHANGED <<globals, global_hash_buckets>>
    BY <2>1 DEF Leaf, poolVars
  <2>3. a \in 0..Len(globals) - 1
    BY <1>4
  <2> QED BY <1>1, <1>4, <1>5, <1>6, <2>2, <2>3, OperandsOne
<1>8. CASE CompileCached
  <2> DEFINE a == CachedIndex
  <2>1. Emit(<<Instr("LOADG", a)>>) /\ UNCHANGED <<globals, global_hash_buckets>>
    BY <1>8 DEF CompileCached, Leaf, poolVars
  <2>2. a \in 0..Len(globals) - 1
    BY <1>3, <1>4, <1>8 DEF CompileCached, CachedIndex, Cached
  <2> HIDE DEF a
  <2> QED BY <1>1, <1>4, <1>5, <1>6, <2>1, <2>2, OperandsOne
<1>9. CASE CompileLiteral \/ CompileAggregate
  <2> DEFINE a == Len(globals)
  <2>1. PICK v \in Value : globals' = Append(globals, v)
    <3>1. Obj \in Value /\ Array \in Value
      BY DEF Obj, Array, Plain, Value, Types
    <3>2. CASE CompileLiteral
      BY <1>3, <3>2 DEF CompileLiteral
    <3>3. CASE CompileAggregate
      BY <3>1, <3>3 DEF CompileAggregate
    <3> QED BY <1>9, <3>2, <3>3
  <2>2. Emit(<<Instr("LOADG", a)>>)
    BY <1>9 DEF CompileLiteral, CompileAggregate
  <2>3. globals' \in Seq(Value) /\ Len(globals') = Len(globals) + 1
    BY <1>4, <2>1
  <2>4. \A h \in 0..GLOBAL_SIZE - 1 : global_hash_buckets'[h] <= Len(globals')
    <3>1. CASE CompileLiteral
      <4>1. global_hash_buckets' =
              [global_hash_buckets EXCEPT ![Bucket[Top.n.tok]] = Len(globals) + 1]
        BY <3>1 DEF CompileLiteral
      <4>2. ASSUME NEW h \in 0..GLOBAL_SIZE - 1
            PROVE  global_hash_buckets'[h] \in {global_hash_buckets[h], Len(globals) + 1}
        BY <1>4, <4>1
      <4>3. \A h \in 0..GLOBAL_SIZE - 1 : global_hash_buckets[h] \in Nat
        BY <1>4
      <4> QED BY <1>4, <2>3, <4>2, <4>3
    <3>2. CASE CompileAggregate
      <4>1. global_hash_buckets' = global_hash_buckets
        BY <3>2 DEF CompileAggregate
      <4>2. \A h \in 0..GLOBAL_SIZE - 1 : global_hash_buckets[h] \in Nat
        BY <1>4
      <4> QED BY <1>4, <2>3, <4>1, <4>2
    <3> QED BY <1>9, <3>1, <3>2
  <2>5. a \in 0..Len(globals') - 1 /\ Len(globals') \in Nat /\ Len(globals) <= Len(globals')
    BY <1>4, <2>3
  <2> HIDE DEF a
  <2> QED BY <1>1, <1>5, <1>6, <2>2, <2>3, <2>4, <2>5, OperandsOne
<1>10. CASE CompileIdent
  <2> DEFINE a == VarHash[Top.n.tok]
  <2>1. Emit(<<Instr("LOADV", a)>>) /\ UNCHANGED <<globals, global_hash_buckets>>
    BY <1>10 DEF CompileIdent, Leaf, poolVars
  <2>2. Usable(Instr("LOADV", a), Len(globals)) /\ a \in Nat
    BY <1>3 DEF Usable, Instr, BinOps
  <2> HIDE DEF a
  <2> QED BY <1>1, <1>4, <1>5, <2>1, <2>2, OperandsOne
<1> QED BY <1>7, <1>8, <1>9, <1>10

LEMMA OperandOperands ==
    ASSUME IInv, Operands, CompileBin \/ StoreOperand
    PROVE  Operands'
PROOF
<1>1. status = "compiling" /\ stack # <<>>
  BY DEF CompileBin, StoreOperand, Storing, AtArguments, IsRuntimeCall, Callable,
         AtConstruct, At
<1>2. Top.n \in Nodes /\ Top \in ActivationType /\ Sound(Top, Len(bytecode))
  BY <1>1, TopSound DEF IInv
<1>3. /\ globals \in Seq(Value) /\ Len(globals) \in Nat
      /\ \A h \in 0..GLOBAL_SIZE - 1 : global_hash_buckets[h] <= Len(globals)
      /\ register_allocated_count \in 1..REGISTERS /\ REGISTERS \in Nat
  BY SizeAssumption DEF IInv, Pool, Operands, Stacked
<1>4. CASE CompileBin
  <2> DEFINE a == Top.regs[1]
  <2>1. /\ Emit(<<Instr(Top.n.tok, a)>>) /\ UNCHANGED <<globals, global_hash_buckets>>
        /\ Top.n.kind = "N_BIN" /\ Top.i = 2
    BY <1>4 DEF CompileBin, poolVars, At
  <2>2. Top.n.tok \in BinOps /\ Top.n.tok \in Ops \ {"ARGS"}
    BY <1>2, <2>1, NodeType DEF BinOps, Ops
  <2>3. a \in 0..REGISTERS
    <3>1. Len(Top.regs) = 1 /\ Top.base \in Nat /\ Top.regs[1] = Top.base + 1 - 1
      <4>1. Len(stack) \in 1..Len(stack)
        BY <1>1, TopSound DEF IInv
      <4>2. Span(Top)
        BY <4>1 DEF IInv, Stacked, Ordered, Chained, Top
      <4>3. Len(Top.regs) = 1 /\ Top.base \in Nat
        BY <1>2, <2>1, ActivationFields DEF Sound, Shape
      <4>4. 1 \in 1..Len(Top.regs)
        BY <4>3
      <4> QED BY <4>2, <4>3, <4>4 DEF Span
    <3>2. End(stack[Len(stack)]) <= register_allocated_count
      <4>1. Len(stack) \in 1..Len(stack)
        BY <1>1, TopSound DEF IInv
      <4> QED BY <4>1, BelowCount DEF IInv, Stacked
    <3>3. Top.base + Len(Top.regs) <= register_allocated_count
      BY <3>2 DEF End, Top
    <3> QED BY <1>3, <3>1, <3>3
  <2>4. Usable(Instr(Top.n.tok, a), Len(globals)) /\ a \in Nat
    BY <1>3, <2>2, <2>3 DEF Usable, Instr, BinOps
  <2> HIDE DEF a
  <2> QED BY <1>1, <1>3, <2>1, <2>2, <2>4, OperandsOne
<1>5. CASE StoreOperand
  <2> DEFINE a == register_allocated_count
  <2>1. /\ Emit(<<Instr("STORE", a)>>) /\ UNCHANGED <<globals, global_hash_buckets>>
    BY <1>5 DEF StoreOperand, poolVars
  <2>2. Usable(Instr("STORE", a), Len(globals)) /\ a \in Nat /\ "STORE" \in Ops \ {"ARGS"}
    BY <1>3 DEF Usable, Instr, BinOps, Ops
  <2> HIDE DEF a
  <2> QED BY <1>1, <1>3, <2>1, <2>2, OperandsOne
<1> QED BY <1>4, <1>5

(* A call: the count of its arguments, if need be, and the call. *)
LEMMA ArgsUsable ==
    ASSUME NEW n \in Nodes, NEW op \in {"BUILTIN", "CALL"}, NEW arg \in Nat, NEW g,
           op = "BUILTIN" => \E b \in Runtime : FnHash[b] = arg
    PROVE  LET code == Args(n) \o <<Instr(op, arg)>>
           IN  code \in Seq(InstrType) /\ AllUsable(code, g)
PROOF
<1> DEFINE call == Instr(op, arg)
           count == Instr("ARGS", Len(n.ch))
<1>1. Len(n.ch) \in Nat
  BY NodeType
<1>2. call \in InstrType /\ count \in InstrType /\ Usable(call, g) /\ Usable(count, g)
  BY <1>1 DEF InstrType, Instr, Ops, Usable, BinOps
<1>3. call.op = op /\ count.op = "ARGS"
  BY DEF Instr
<1> HIDE DEF call, count
<1>4. ASSUME NEW args \in Seq(InstrType), args \in {<<>>, <<count>>}
      PROVE  args \o <<call>> \in Seq(InstrType) /\ AllUsable(args \o <<call>>, g)
  <2> DEFINE all == args \o <<call>>
  <2>1. <<call>> \in Seq(InstrType) /\ Len(<<call>>) = 1 /\ <<call>>[1] = call
    BY <1>2
  <2>2. /\ all \in Seq(InstrType) /\ Len(all) = Len(args) + 1
        /\ \A k \in 1..Len(args) + 1 : all[k] = IF k <= Len(args) THEN args[k]
                                                ELSE <<call>>[k - Len(args)]
    BY <2>1, ConcatProperties
  <2> HIDE DEF all
  <2>3. CASE args = <<>>
    <3>1. Len(all) = 1 /\ all[1] = call
      BY <2>1, <2>2, <2>3
    <3>2. \A x \in 0..Len(all) - 1 : x + 1 = 1
      BY <3>1
    <3> QED BY <1>2, <1>3, <2>2, <3>1, <3>2 DEF AllUsable, Op, all
  <2>4. CASE args = <<count>>
    <3>1. Len(all) = 2 /\ all[1] = count /\ all[2] = call
      BY <2>1, <2>2, <2>4
    <3>2. \A x \in 0..Len(all) - 1 : x \in {0, 1}
      BY <3>1
    <3>3. 0 + 1 = 1 /\ 1 + 1 = 2
      OBVIOUS
    <3>4. \A x \in 0..Len(all) - 1 : Usable(all[x + 1], g)
      BY <1>2, <3>1, <3>2, <3>3
    <3>5. \A x \in 0..Len(all) - 1 : Op(all, x) = "ARGS" =>
             x + 1 < Len(all) /\ Op(all, x + 1) \in {"BUILTIN", "CALL"}
      BY <1>3, <3>1, <3>2, <3>3 DEF Op
    <3> QED BY <2>2, <3>4, <3>5 DEF AllUsable, all
  <2> QED BY <1>4, <2>3, <2>4
<1>5. Args(n) \in Seq(InstrType) /\ Args(n) \in {<<>>, <<count>>}
  BY <1>2 DEF Args, count
<1>6. Args(n) \o <<call>> \in Seq(InstrType) /\ AllUsable(Args(n) \o <<call>>, g)
  BY <1>4, <1>5
<1> QED BY <1>6 DEF call

LEMMA CallOperands ==
    ASSUME IInv, Operands, EmitBuiltin \/ EmitCall
    PROVE  Operands'
PROOF
<1>1. status = "compiling" /\ stack # <<>>
  BY DEF EmitBuiltin, EmitCall, IsRuntimeCall, Callable, AtConstruct, At
<1>2. Top.n \in Nodes /\ Top.n.tok \in Tokens
  BY <1>1, TopSound, NodeType DEF IInv
<1>3. FnHash[Top.n.tok] \in 0..MAX_BUILTIN_SIZE - 1 /\ FnHash[Top.n.tok] \in Nat
  BY <1>2, HashAssumption, SizeAssumption
<1>4. /\ globals \in Seq(Value) /\ Len(globals) \in Nat
      /\ \A h \in 0..GLOBAL_SIZE - 1 : global_hash_buckets[h] <= Len(globals)
  BY DEF IInv, Pool, Operands
<1>5. CASE EmitBuiltin
  <2> DEFINE a == FnHash[Top.n.tok]
  <2>1. /\ Emit(Args(Top.n) \o <<Instr("BUILTIN", a)>>)
        /\ UNCHANGED <<globals, global_hash_buckets>>
        /\ \E b \in Runtime : FnHash[b] = a
    BY <1>5 DEF EmitBuiltin, IsRuntimeCall, Registered, poolVars
  <2> HIDE DEF a
  <2>2. a \in Nat
    BY <1>3 DEF a
  <2>3. PICK code \in Seq(InstrType) :
          code = Args(Top.n) \o <<Instr("BUILTIN", a)>> /\ AllUsable(code, Len(globals'))
    BY <1>2, <2>1, <2>2, ArgsUsable
  <2>4. Emit(code)
    BY <2>1, <2>3
  <2>5. /\ globals' \in Seq(Value) /\ Len(globals) <= Len(globals')
        /\ \A h \in 0..GLOBAL_SIZE - 1 : global_hash_buckets'[h] <= Len(globals')
    BY <1>4, <2>1
  <2> QED BY <1>1, <2>3, <2>4, <2>5, OperandsEmitted
<1>6. CASE EmitCall
  <2> DEFINE a == Callee(Top.n.tok).bytecode_index
  <2>1. /\ Emit(Args(Top.n) \o <<Instr("CALL", a)>>)
        /\ UNCHANGED <<globals, global_hash_buckets>>
    BY <1>6 DEF EmitCall, poolVars
  <2>2. a \in Nat
    BY <1>3 DEF Callee, IInv, Functions, CtxFunction
  <2> HIDE DEF a
  <2>3. PICK code \in Seq(InstrType) :
          code = Args(Top.n) \o <<Instr("CALL", a)>> /\ AllUsable(code, Len(globals'))
    BY <1>2, <2>2, ArgsUsable
  <2>4. Emit(code)
    BY <2>1, <2>3
  <2>5. /\ globals' \in Seq(Value) /\ Len(globals) <= Len(globals')
        /\ \A h \in 0..GLOBAL_SIZE - 1 : global_hash_buckets'[h] <= Len(globals')
    BY <1>4, <2>1
  <2> QED BY <1>1, <2>3, <2>4, <2>5, OperandsEmitted
<1> QED BY <1>5, <1>6

LEMMA BuiltinOperands ==
    ASSUME IInv, Operands, CompileNone \/ CompileAssert \/ LetBind
    PROVE  Operands'
PROOF
<1>1. status = "compiling" /\ stack # <<>>
  BY DEF CompileNone, CompileAssert, LetBind, AtConstruct, At
<1>2. Top.n \in Nodes
  BY <1>1, TopSound DEF IInv
<1>3. /\ globals \in Seq(Value) /\ Len(globals) \in Nat /\ Len(globals) >= 3
      /\ \A h \in 0..GLOBAL_SIZE - 1 : global_hash_buckets[h] <= Len(globals)
  BY DEF IInv, Pool, Operands
<1>4. PICK op \in Ops \ {"ARGS"}, a \in Nat :
        Leaf(<<Instr(op, a)>>) /\ Usable(Instr(op, a), Len(globals))
  <2>1. CASE CompileNone
    <3>1. Leaf(<<Instr("LOADG", 2)>>)
      BY <2>1 DEF CompileNone, GLOBAL_NONE
    <3>2. Usable(Instr("LOADG", 2), Len(globals))
      BY <1>3 DEF Usable, Instr, BinOps
    <3> QED BY <3>1, <3>2 DEF Ops
  <2>2. CASE CompileAssert
    <3>1. Usable(Instr("ASSERT", 0), Len(globals))
      BY DEF Usable, Instr, BinOps
    <3> QED BY <2>2, <3>1 DEF CompileAssert, Ops
  <2>3. CASE LetBind
    <3> DEFINE a == VarHash[Top.n.ch[1].tok]
    <3>1. Leaf(<<Instr("VAR", a)>>) /\ Len(Top.n.ch) = 2
      BY <2>3 DEF LetBind
    <3>2. a \in 0..VARIABLE_TABLE_SIZE - 1 /\ a \in Nat
      BY <1>2, <3>1, NodeType, HashAssumption, SizeAssumption
    <3> HIDE DEF a
    <3>3. Usable(Instr("VAR", a), Len(globals))
      BY <3>2 DEF Usable, Instr, BinOps
    <3> QED BY <3>1, <3>2, <3>3 DEF Ops
  <2> QED BY <2>1, <2>2, <2>3
<1>5. Emit(<<Instr(op, a)>>) /\ UNCHANGED <<globals, global_hash_buckets>>
  BY <1>4 DEF Leaf, poolVars
<1> QED BY <1>1, <1>3, <1>4, <1>5, OperandsOne

(* Code is written behind the present code and a jump of it is given a     *)
(* target.                                                                 *)
LEMMA OperandsPatched ==
    ASSUME IInv, status = "compiling", Operands, UNCHANGED poolVars,
           NEW more \in Seq(InstrType), AllUsable(more, Len(globals)),
           NEW slot \in 0..Len(bytecode) - 1, Jump(bytecode, slot),
           Write(Patch(bytecode \o more, slot, Len(bytecode \o more)))
    PROVE  Operands'
PROOF
<1> DEFINE code == bytecode \o more
           patched == Patch(code, slot, Len(code))
<1>1. bytecode \in Seq(InstrType) /\ Len(bytecode) \in Nat
  BY DEF IInv, Code
<1>2. AllUsable(bytecode, Len(globals))
  BY DEF Operands, Alive
<1>3. AllUsable(code, Len(globals))
  BY <1>1, <1>2, UsableConcat
<1>4. /\ code \in Seq(InstrType) /\ Len(code) = Len(bytecode) + Len(more)
      /\ \A a \in 1..Len(bytecode) + Len(more) :
            code[a] = IF a <= Len(bytecode) THEN bytecode[a] ELSE more[a - Len(bytecode)]
  BY <1>1, ConcatProperties
<1>5. Write(patched)
  OBVIOUS
<1> HIDE DEF code
<1>6. slot \in 0..Len(code) - 1 /\ Len(code) \in Nat
  BY <1>1, <1>4
<1>7. Jump(code, slot)
  <2>1. slot + 1 \in 1..Len(bytecode) + Len(more) /\ slot + 1 <= Len(bytecode)
    BY <1>1, <1>4
  <2>2. code[slot + 1] = bytecode[slot + 1]
    BY <1>4, <2>1
  <2> QED BY <2>2 DEF Jump, Op
<1>8. /\ patched \in Seq(InstrType) /\ Len(patched) = Len(code)
      /\ \A x \in 0..Len(code) - 1 :
            /\ Op(patched, x) = Op(code, x)
            /\ To(patched, x) = IF x = slot THEN Len(code) ELSE To(code, x)
  BY <1>4, <1>6, PatchedTo
<1> HIDE DEF patched
<1>9. AllUsable(patched, Len(globals))
  <2>1. \A x \in 0..Len(code) - 1 : /\ Op(patched, x) = Op(code, x)
                                    /\ To(patched, x) = To(code, x) \/ Jump(code, x)
    BY <1>7, <1>8
  <2> QED BY <1>3, <1>4, <1>8, <2>1, UsableRetargeted
<1>10. Alive' => bytecode' = patched
  BY <1>5 DEF Write, Alive
<1> QED BY <1>9, <1>10 DEF Operands, poolVars

LEMMA UsableQuiet ==
    ASSUME NEW op \in Ops \ (BinOps \cup {"LOADG", "VAR", "LOADV", "STORE", "LOAD", "ARGS", "BUILTIN"}),
           NEW arg \in Nat \cup {Placeholder}, NEW g
    PROVE  /\ <<Instr(op, arg)>> \in Seq(InstrType)
           /\ AllUsable(<<Instr(op, arg)>>, g)
           /\ Usable(Instr(op, arg), g)
PROOF
<1>1. Instr(op, arg) \in InstrType /\ Instr(op, arg).op = op
  BY Instruction
<1>2. Usable(Instr(op, arg), g)
  BY <1>1 DEF Usable
<1> QED BY <1>1, <1>2, UsableOne

LEMMA MatchOperands ==
    ASSUME IInv, Laid, Operands, MatchBody \/ MatchCaseEnd \/ MatchEnd
    PROVE  Operands'
PROOF
<1>1. PICK B : Generated(B)
  BY DEF Laid
<1>2. AtConstruct("match") /\ stack # <<>> /\ status = "compiling"
  BY DEF MatchBody, MatchCaseEnd, MatchEnd, AtMatchEnd, AtCase, AtConstruct, At
<1>3. /\ Slotted(Top) /\ Top.slots \in Seq(Nat \cup {NoSlot}) /\ Len(Top.slots) = Top.i
      /\ ~Opened(Top) /\ Len(stack) \in 1..Len(stack) /\ Top.i \in Nat
  BY <1>1, <1>2, AtMatch
<1>4. Pending(bytecode, stack)
  BY <1>1, <1>2 DEF Generated, Layout, Alive
<1>5. \A x \in Unresolved(Top) : x \in 0..Len(bytecode) - 1 /\ Jump(bytecode, x)
  BY <1>3, <1>4 DEF Pending, Top
<1>6. /\ bytecode \in Seq(InstrType) /\ Len(bytecode) \in Nat /\ Len0 = Len(bytecode)
      /\ globals \in Seq(Value) /\ Len(globals) \in Nat
      /\ \A h \in 0..GLOBAL_SIZE - 1 : global_hash_buckets[h] <= Len(globals)
  BY DEF IInv, Code, Pool, Operands, Len0
<1>7. "JMPF" \in Ops \ {"ARGS"} /\ Placeholder \in Nat \cup {Placeholder}
  BY DEF Ops
<1>8. CASE MatchBody
  <2>1. Emit(<<Instr("JMPF", Placeholder)>>) /\ UNCHANGED <<globals, global_hash_buckets>>
    BY <1>8 DEF MatchBody, poolVars
  <2>2. Usable(Instr("JMPF", Placeholder), Len(globals))
    BY <1>7, UsableQuiet DEF BinOps
  <2>3. /\ globals' \in Seq(Value) /\ Len(globals) <= Len(globals')
        /\ Usable(Instr("JMPF", Placeholder), Len(globals'))
        /\ \A h \in 0..GLOBAL_SIZE - 1 : global_hash_buckets'[h] <= Len(globals')
    BY <1>6, <2>1, <2>2
  <2>4. "JMPF" \in Ops \ {"ARGS"} /\ Placeholder \in Nat \cup {Placeholder}
    BY <1>7
  <2>5. Emit(<<Instr("JMPF", Placeholder)>>)
    BY <2>1
  <2> QED BY <1>2, <2>3, <2>4, <2>5, OperandsOne
<1>9. CASE MatchCaseEnd
  <2> DEFINE jmp == IF LastCase THEN <<>> ELSE <<Instr("JMP", Placeholder)>>
  <2>1. /\ Write(Patch(bytecode \o jmp, Top.mark, Len(bytecode \o jmp)))
        /\ UNCHANGED poolVars /\ Top.phase = "body"
    BY <1>9 DEF MatchCaseEnd, AtCase
  <2>2. jmp \in Seq(InstrType) /\ AllUsable(jmp, Len(globals))
    <3>1. "JMP" \in Ops \ (BinOps \cup {"LOADG", "VAR", "LOADV", "STORE", "LOAD", "ARGS", "BUILTIN"})
      BY DEF Ops, BinOps
    <3>2. CASE LastCase
      BY <3>2 DEF AllUsable
    <3>3. CASE ~LastCase
      <4>1. jmp = <<Instr("JMP", Placeholder)>>
        BY <3>3
      <4> QED BY <1>7, <3>1, <4>1, UsableQuiet
    <3> QED BY <3>2, <3>3
  <2> HIDE DEF jmp
  <2>3. Top.mark \in 0..Len(bytecode) - 1 /\ Jump(bytecode, Top.mark)
    BY <1>5, <2>1 DEF Unresolved
  <2> QED BY <1>2, <2>1, <2>2, <2>3, OperandsPatched
<1>10. CASE MatchEnd
  <2>1. /\ UNCHANGED <<status, globals, global_hash_buckets>>
        /\ bytecode' = [a \in DOMAIN bytecode |->
                          IF a \in BackfillSlots
                          THEN [bytecode[a] EXCEPT !.arg = Len0] ELSE bytecode[a]]
        /\ Top.i = Len(Top.n.ch)
    BY <1>10 DEF MatchEnd, AtMatchEnd, poolVars
  <2>2. ASSUME NEW x \in 0..Len(bytecode) - 1, x + 1 \in BackfillSlots
        PROVE  Jump(bytecode, x)
    <3>1. PICK k \in 1..Len(Top.n.ch) - 1 : x + 1 = Top.slots[k] + 1
      BY <2>2 DEF BackfillSlots
    <3>2. k \in 1..Len(Top.slots)
      BY <1>3, <2>1
    <3>3. Top.slots[k] \in Nat \cup {NoSlot} /\ x \in Nat
      BY <1>3, <1>6, <3>2
    <3>4. x = Top.slots[k] /\ x # NoSlot
      BY <3>1, <3>3 DEF NoSlot
    <3> QED BY <1>5, <3>2, <3>4 DEF Unresolved
  <2>3. DOMAIN bytecode' = 1..Len(bytecode) /\ DOMAIN bytecode = 1..Len(bytecode)
    BY <1>6, <2>1
  <2>4. ASSUME NEW a \in 1..Len(bytecode)
        PROVE  /\ bytecode'[a] \in InstrType /\ bytecode'[a].op = bytecode[a].op
               /\ bytecode'[a].arg = bytecode[a].arg \/ a \in BackfillSlots
    <3>1. bytecode[a] \in InstrType
      BY <1>6
    <3>2. CASE a \in BackfillSlots
      <4>1. bytecode'[a] = [bytecode[a] EXCEPT !.arg = Len(bytecode)]
        BY <1>6, <2>1, <2>3, <3>2
      <4> QED BY <1>6, <3>1, <3>2, <4>1 DEF InstrType
    <3>3. CASE a \notin BackfillSlots
      <4>1. bytecode'[a] = bytecode[a]
        BY <2>1, <2>3, <3>3
      <4> QED BY <3>1, <4>1
    <3> QED BY <3>2, <3>3
  <2>5. bytecode' \in Seq(InstrType) /\ Len(bytecode') = Len(bytecode)
    <3>1. bytecode' = [a \in 1..Len(bytecode) |-> bytecode'[a]]
      BY <2>1, <2>3
    <3> QED BY <1>6, <2>4, <3>1
  <2>6. ASSUME NEW x \in 0..Len(bytecode) - 1
        PROVE  /\ Op(bytecode', x) = Op(bytecode, x)
               /\ To(bytecode', x) = To(bytecode, x) \/ Jump(bytecode, x)
    <3>1. x + 1 \in 1..Len(bytecode)
      BY <1>6
    <3> QED BY <2>2, <2>4, <3>1 DEF Op, To
  <2>7. AllUsable(bytecode, Len(globals))
    BY <1>2 DEF Operands, Alive
  <2>8. AllUsable(bytecode', Len(globals))
    BY <1>6, <2>5, <2>6, <2>7, UsableRetargeted
  <2> QED BY <2>1, <2>8 DEF Operands
<1> QED BY <1>8, <1>9, <1>10

LEMMA FunctionOperands ==
    ASSUME IInv, Laid, Operands, FunctionHeader \/ FunctionEnd
    PROVE  Operands'
PROOF
<1>1. PICK B : Generated(B)
  BY DEF Laid
<1>2. AtFunction /\ stack # <<>> /\ status = "compiling"
  BY DEF FunctionHeader, FunctionEnd, AtFunction, AtConstruct, At
<1>3. /\ Top.n \in Nodes /\ Len(Top.n.ch) >= 2 /\ Top.i \in Nat
      /\ Unresolved(Top) = IF Top.i > 0 THEN {Top.mark} ELSE {}
      /\ Len(stack) \in 1..Len(stack)
  BY <1>1, <1>2, AtFunctionFacts
<1>4. Pending(bytecode, stack)
  BY <1>1, <1>2 DEF Generated, Layout, Alive
<1>5. /\ globals \in Seq(Value) /\ Len(globals) \in Nat
      /\ \A h \in 0..GLOBAL_SIZE - 1 : global_hash_buckets[h] <= Len(globals)
  BY DEF IInv, Pool, Operands
<1> DEFINE quiet == Ops \ (BinOps \cup {"LOADG", "VAR", "LOADV", "STORE", "LOAD", "ARGS", "BUILTIN"})
<1>6. "JMP" \in quiet /\ "LEAVE" \in quiet /\ Placeholder \in Nat \cup {Placeholder}
      /\ 0 \in Nat \cup {Placeholder}
  BY DEF Ops, BinOps
<1>7. CASE FunctionHeader
  <2> DEFINE jmp == <<Instr("JMP", Placeholder)>>
             loads == Header(Top.n)
             p == Len(Params(Top.n))
  <2>1. jmp \in Seq(InstrType) /\ AllUsable(jmp, Len(globals))
    BY <1>6, UsableQuiet
  <2>2. loads \in Seq(InstrType) /\ p \in Nat
    BY <1>3, HeaderTyped
  <2>3. \A k \in 1..p : Params(Top.n)[k] \in Nodes
    BY <1>3, NodeType DEF Params
  <2>4. Len(loads) = 2 * p
    <3>1. DOMAIN loads = 1..2 * p
      BY DEF Header
    <3> QED BY <2>2, <3>1
  <2>5. ASSUME NEW k \in 1..2 * p
        PROVE  Usable(loads[k], Len(globals)) /\ loads[k].op # "ARGS"
    <3>1. loads[k] = IF k % 2 = 1 THEN Instr("LOAD", (k + 1) \div 2)
                     ELSE Instr("VAR", VarHash[Params(Top.n)[k \div 2].tok])
      BY DEF Header
    <3>2. CASE k % 2 = 1
      <4>1. (k + 1) \div 2 \in Nat
        BY <2>2, <3>2
      <4> QED BY <3>1, <3>2, <4>1 DEF Usable, Instr, BinOps
    <3>3. CASE k % 2 # 1
      <4>1. k \div 2 \in 1..p
        BY <2>2, <3>3
      <4>2. VarHash[Params(Top.n)[k \div 2].tok] \in 0..VARIABLE_TABLE_SIZE - 1
        BY <2>3, <4>1, NodeType, HashAssumption
      <4> QED BY <3>1, <3>3, <4>2 DEF Usable, Instr, BinOps
    <3> QED BY <3>2, <3>3
  <2>6. Emit(jmp \o loads) /\ UNCHANGED <<globals, global_hash_buckets>>
    BY <1>7 DEF FunctionHeader, poolVars
  <2> HIDE DEF jmp, loads, p
  <2>7. AllUsable(loads, Len(globals))
    <3>1. \A x \in 0..Len(loads) - 1 : x + 1 \in 1..2 * p
      BY <2>2, <2>4
    <3> QED BY <2>5, <3>1 DEF AllUsable, Op
  <2>8. PICK code \in Seq(InstrType) : code = jmp \o loads /\ AllUsable(code, Len(globals))
    <3>1. jmp \o loads \in Seq(InstrType)
      BY <2>1, <2>2, ConcatProperties
    <3> QED BY <2>1, <2>2, <2>7, <3>1, UsableConcat
  <2>9. Emit(code)
    BY <2>6, <2>8
  <2>10. /\ globals' \in Seq(Value) /\ Len(globals) <= Len(globals')
         /\ \A h \in 0..GLOBAL_SIZE - 1 : global_hash_buckets'[h] <= Len(globals')
         /\ AllUsable(code, Len(globals'))
    BY <1>5, <2>6, <2>8
  <2> QED BY <1>2, <2>8, <2>9, <2>10, OperandsEmitted
<1>8. CASE FunctionEnd
  <2> DEFINE leave == <<Instr("LEAVE", 0)>>
  <2>1. leave \in Seq(InstrType) /\ AllUsable(leave, Len(globals))
    BY <1>6, UsableQuiet
  <2>2. Append(bytecode, Instr("LEAVE", 0)) = bytecode \o leave
    <3>1. bytecode \in Seq(InstrType) /\ Instr("LEAVE", 0) \in InstrType
      BY Instruction DEF IInv, Code, Ops
    <3> QED BY <3>1, AppendIsConcat
  <2>3. /\ Write(Patch(bytecode \o leave, Top.mark, Len(bytecode \o leave)))
        /\ UNCHANGED poolVars /\ Top.i > 0
    BY <1>8, <2>2 DEF FunctionEnd
  <2> HIDE DEF leave
  <2>4. Top.mark \in Unresolved(stack[Len(stack)])
    BY <1>3, <2>3 DEF Top
  <2>5. Top.mark \in 0..Len(bytecode) - 1 /\ Jump(bytecode, Top.mark)
    BY <1>3, <1>4, <2>4 DEF Pending
  <2> QED BY <1>2, <2>1, <2>3, <2>5, OperandsPatched
<1> QED BY <1>7, <1>8

LEMMA StepOperands == IInv /\ Laid /\ Operands /\ [Next]_ccVars => Operands'
PROOF
<1> SUFFICES ASSUME IInv, Laid, Operands, [Next]_ccVars PROVE Operands'
  OBVIOUS
<1>1. CASE UNCHANGED ccVars
  BY <1>1 DEF Operands, Alive, ccVars
<1>2. CASE \E reason : reason \notin {"compiling", "done"} /\ Fail(reason)
  BY <1>2 DEF Operands, Alive, Fail
<1>3. CASE status = "compiling" /\ UNCHANGED bytecode /\ UNCHANGED poolVars
  BY <1>3, OperandsSame
<1>4. ASSUME \/ OutOfGlobals \/ OutOfRegisters \/ MatchGarbage \/ Reject \/ NullToken
      PROVE \E reason : reason \notin {"compiling", "done"} /\ Fail(reason)
  BY <1>4 DEF OutOfGlobals, OutOfRegisters, MatchGarbage, Reject, NullToken
<1>5. ASSUME CompileTop \/ FunctionEmpty \/ Done
      PROVE  status = "compiling" /\ UNCHANGED bytecode /\ UNCHANGED poolVars
  BY <1>5 DEF CompileTop, FunctionEmpty, Done, AtFunction, AtConstruct, At
<1>6. ASSUME \/ NextOperand \/ SingleOperand \/ CompileElidedCall \/ NextArgument
             \/ AssertChild \/ LetValue
      PROVE  status = "compiling" /\ UNCHANGED bytecode /\ UNCHANGED poolVars
  BY <1>6 DEF NextOperand, SingleOperand, CompileElidedCall, NextArgument, AssertChild,
              LetValue, ElidedCall, AtArguments, IsRuntimeCall, Callable, AtConstruct,
              Descend, ReturnOnly, At
<1>7. ASSUME MatchCondition \/ MatchDefault \/ MatchDefaultEnd \/ FunctionBody
      PROVE  status = "compiling" /\ UNCHANGED bytecode /\ UNCHANGED poolVars
  BY <1>7 DEF MatchCondition, MatchDefault, MatchDefaultEnd, FunctionBody, AtCase,
              AtFunction, AtConstruct, Descend, At
<1> QED
  BY <1>1, <1>2, <1>3, <1>4, <1>5, <1>6, <1>7, AtomOperands, OperandOperands, CallOperands,
     BuiltinOperands, MatchOperands, FunctionOperands DEF Next

LEMMA InitOperands == Init => Operands
PROOF
<1> SUFFICES ASSUME Init PROVE Operands
  OBVIOUS
<1>1. bytecode = <<>> /\ Len(globals) = 3
  BY DEF Init
<1>2. \A h \in 0..GLOBAL_SIZE - 1 : global_hash_buckets[h] = 0
  BY DEF Init
<1> QED BY <1>1, <1>2 DEF Operands, AllUsable

(* Whatever the program, no instruction names a global, a register, a      *)
(* variable or a builtin the machine does not have (cc.c:52-70, 108-136),  *)
(* and ARGS is followed by the call it counts for (cc.c:316-358).          *)
THEOREM OperandsExist == Spec => []Operands
PROOF
<1>1. IInv /\ Laid /\ Operands /\ [Next]_ccVars => Operands'
  BY StepOperands
<1> QED BY <1>1, InitOperands, CodeLaidOut, Invariance, PTL DEF Spec

-----------------------------------------------------------------------------
(* Literals.  The compiler compares buckets, not values (cc.c:108-123), so *)
(* that a literal loads itself is true as far as no two of the literals    *)
(* the trees hold share a bucket.  Two spellings of one value may.         *)
IsBool(tok) == LitValue[tok].type \in {"True", "False"}
AtomTokens == {n.tok : n \in {m \in Nodes : m.kind = "N_ATOM"}}
BucketsDiffer ==
    \A s, t \in AtomTokens : ~IsBool(s) /\ ~IsBool(t) /\ Bucket[s] = Bucket[t]
                                => LitValue[s] = LitValue[t]
(* token_to_value gives the two booleans no payload (common.c). *)
OneTrueOneFalse ==
    \A t \in AtomTokens : IsBool(t) => LitValue[t] = Plain(LitValue[t].type)

(* What a bucket remembers is a literal of that bucket. *)
Remembered(h) ==
    /\ global_hash_buckets[h] \in 1..Len(globals)
    /\ \E t \in AtomTokens :
          ~IsBool(t) /\ Bucket[t] = h /\ LitValue[t] = globals[global_hash_buckets[h]]
Cache ==
    /\ Len(globals) >= 2 /\ globals[1] = False /\ globals[2] = True
    /\ \A h \in 0..GLOBAL_SIZE - 1 : global_hash_buckets[h] # 0 => Remembered(h)

(* What the instruction just emitted loads. *)
Fetches(v) ==
    LET load == bytecode'[Len(bytecode')]
    IN  load.op = "LOADG" /\ load.arg < Len(globals') /\ globals'[load.arg + 1] = v

LEMMA LoadEmitted ==
    ASSUME IInv, IInv', status' = "compiling", NEW a \in Nat, Emit(<<Instr("LOADG", a)>>),
           a < Len(globals')
    PROVE  Fetches(globals'[a + 1])
PROOF
<1>1. bytecode \in Seq(InstrType) /\ Instr("LOADG", a) \in InstrType
  BY Instruction DEF IInv, Code, Ops
<1>2. bytecode' = bytecode \o <<Instr("LOADG", a)>>
  BY DEF Emit, Write
<1>3. Len(bytecode') = Len(bytecode) + 1 /\ bytecode'[Len(bytecode')] = Instr("LOADG", a)
  BY <1>1, <1>2
<1> QED BY <1>3 DEF Fetches, Instr

(* What the innermost activation compiles, when it is a literal. *)
LEMMA AtAtom ==
    ASSUME IInv, At("N_ATOM")
    PROVE  /\ Top.n.tok \in AtomTokens /\ Top.n.tok \in Tokens
           /\ Bucket[Top.n.tok] \in 0..GLOBAL_SIZE - 1
           /\ LitValue[Top.n.tok] \in Value
PROOF
<1>1. stack # <<>> /\ Top.n.kind = "N_ATOM"
  BY DEF At
<1>2. Top.n \in Nodes /\ Top.n.tok \in Tokens
  BY <1>1, TopSound, NodeType DEF IInv
<1> QED BY <1>1, <1>2, HashAssumption DEF AtomTokens

LEMMA PoolFacts ==
    ASSUME IInv
    PROVE  /\ globals \in Seq(Value) /\ Len(globals) \in Nat
           /\ global_hash_buckets \in [0..GLOBAL_SIZE - 1 -> Nat]
  BY DEF IInv, Pool

(* The pool grows; the buckets that are not written remember as before. *)
LEMMA RememberedLonger ==
    ASSUME IInv, Cache, NEW v \in Value, globals' = Append(globals, v),
           NEW h \in 0..GLOBAL_SIZE - 1, global_hash_buckets'[h] = global_hash_buckets[h],
           global_hash_buckets[h] # 0
    PROVE  Remembered(h)'
PROOF
<1>1. Len(globals') = Len(globals) + 1
      /\ \A g \in 1..Len(globals) : globals'[g] = globals[g]
  BY PoolFacts
<1>2. Remembered(h)
  BY DEF Cache
<1> QED BY <1>1, <1>2, PoolFacts DEF Remembered

LEMMA CacheGrows ==
    ASSUME IInv, Cache, NEW v \in Value, globals' = Append(globals, v)
    PROVE  Len(globals') >= 2 /\ globals'[1] = False /\ globals'[2] = True
PROOF
<1>1. Len(globals') = Len(globals) + 1
      /\ \A g \in 1..Len(globals) : globals'[g] = globals[g]
  BY PoolFacts
<1> QED BY <1>1, PoolFacts DEF Cache

LEMMA LiteralCached == IInv /\ Cache /\ CompileLiteral => Cache'
PROOF
<1> SUFFICES ASSUME IInv, Cache, CompileLiteral PROVE Cache'
  OBVIOUS
<1> DEFINE tok == Top.n.tok
<1>1. IsLiteral /\ At("N_ATOM") /\ ~IsBool(tok)
  BY DEF CompileLiteral, IsLiteral, IsBool
<1>2. tok \in AtomTokens /\ Bucket[tok] \in 0..GLOBAL_SIZE - 1 /\ LitValue[tok] \in Value
  BY <1>1, AtAtom
<1>3. /\ global_hash_buckets' = [global_hash_buckets EXCEPT ![Bucket[tok]] = Len(globals) + 1]
      /\ globals' = Append(globals, LitValue[tok])
  BY DEF CompileLiteral
<1> HIDE DEF tok
<1>4. PICK b \in 0..GLOBAL_SIZE - 1 : b = Bucket[tok]
  BY <1>2
<1>5. ASSUME NEW h \in 0..GLOBAL_SIZE - 1, h # b, global_hash_buckets'[h] # 0
      PROVE  Remembered(h)'
  <2>1. global_hash_buckets'[h] = global_hash_buckets[h]
    BY <1>3, <1>4, <1>5, PoolFacts
  <2> QED BY <1>2, <1>3, <1>5, <2>1, RememberedLonger
<1>6. Remembered(b)'
  <2>1. global_hash_buckets'[b] = Len(globals) + 1
    BY <1>3, <1>4, PoolFacts
  <2>2. Len(globals') = Len(globals) + 1 /\ globals'[Len(globals) + 1] = LitValue[tok]
    BY <1>2, <1>3, PoolFacts
  <2> QED BY <1>1, <1>2, <1>4, <2>1, <2>2, PoolFacts DEF Remembered
<1> QED BY <1>2, <1>3, <1>5, <1>6, CacheGrows DEF Cache

LEMMA AggregateCached == IInv /\ Cache /\ CompileAggregate => Cache'
PROOF
<1> SUFFICES ASSUME IInv, Cache, CompileAggregate PROVE Cache'
  OBVIOUS
<1>0. Obj \in Value /\ Array \in Value
  BY DEF Obj, Array, Plain, Value, Types
<1>1. PICK v \in Value : globals' = Append(globals, v)
  BY <1>0 DEF CompileAggregate
<1>2. global_hash_buckets' = global_hash_buckets
  BY DEF CompileAggregate
<1> QED BY <1>1, <1>2, RememberedLonger, CacheGrows DEF Cache

LEMMA StepCached == IInv /\ Cache /\ [Next]_ccVars => Cache'
PROOF
<1> SUFFICES ASSUME IInv, Cache, [Next]_ccVars PROVE Cache'
  OBVIOUS
<1>1. CASE UNCHANGED poolVars
  BY <1>1 DEF Cache, Remembered, poolVars
<1>2. ASSUME UNCHANGED ccVars \/ \E reason : Fail(reason) PROVE UNCHANGED poolVars
  BY <1>2 DEF ccVars, Fail, poolVars
<1>3. ASSUME \/ OutOfGlobals \/ OutOfRegisters \/ MatchGarbage \/ Reject \/ NullToken
      PROVE \E reason : Fail(reason)
  BY <1>3 DEF OutOfGlobals, OutOfRegisters, MatchGarbage, Reject, NullToken
<1>4. ASSUME \/ CompileTop \/ Done \/ CompileBool \/ CompileCached \/ CompileIdent
             \/ NextOperand \/ SingleOperand \/ CompileBin \/ CompileElidedCall
             \/ NextArgument \/ StoreOperand \/ EmitBuiltin \/ EmitCall
      PROVE  UNCHANGED poolVars
  BY <1>4 DEF CompileTop, Done, CompileBool, CompileCached, CompileIdent, NextOperand,
              SingleOperand, CompileBin, CompileElidedCall, NextArgument, StoreOperand,
              EmitBuiltin, EmitCall, Leaf, Descend, ReturnOnly
<1>5. ASSUME \/ CompileNone \/ AssertChild \/ CompileAssert \/ LetValue \/ LetBind
             \/ MatchCondition \/ MatchBody \/ MatchCaseEnd \/ MatchDefault
             \/ MatchDefaultEnd \/ MatchEnd
             \/ FunctionEmpty \/ FunctionHeader \/ FunctionBody \/ FunctionEnd
      PROVE  UNCHANGED poolVars
  BY <1>5 DEF CompileNone, AssertChild, CompileAssert, LetValue, LetBind, MatchCondition,
              MatchBody, MatchCaseEnd, MatchDefault, MatchDefaultEnd, MatchEnd,
              FunctionEmpty, FunctionHeader, FunctionBody, FunctionEnd,
              Leaf, Descend, ReturnOnly
<1> QED BY <1>1, <1>2, <1>3, <1>4, <1>5, LiteralCached, AggregateCached DEF Next

(* A step at a literal is one of three, or the end of the run. *)
LEMMA AtLiteral ==
    ASSUME At("N_ATOM"), Next, status' = "compiling"
    PROVE  CompileBool \/ CompileCached \/ CompileLiteral
PROOF
<1>1. stack # <<>> /\ Top.n.kind = "N_ATOM"
  BY DEF At
<1>2. ~\E reason : reason # "compiling" /\ Fail(reason)
  BY DEF Fail
<1>3. ~(OutOfGlobals \/ OutOfRegisters \/ MatchGarbage \/ Reject \/ NullToken)
  BY <1>2 DEF OutOfGlobals, OutOfRegisters, MatchGarbage, Reject, NullToken
<1>4. ~(CompileTop \/ Done)
  BY <1>1 DEF CompileTop, Done
<1>5. ~(CompileAggregate \/ CompileIdent \/ NextOperand \/ SingleOperand \/ CompileBin)
  BY <1>1 DEF CompileAggregate, IsEmptyAggregate, CompileIdent, NextOperand,
              SingleOperand, CompileBin, At
<1>6. ~AtArguments /\ ~Callable /\ ~IsRuntimeCall /\ ~Storing
  BY <1>1 DEF AtArguments, Callable, IsRuntimeCall, AtConstruct, Storing, At
<1>7. ~(CompileElidedCall \/ NextArgument \/ StoreOperand \/ EmitBuiltin \/ EmitCall)
  BY <1>6 DEF CompileElidedCall, ElidedCall, NextArgument, StoreOperand, EmitBuiltin,
              EmitCall
<1>8. \A c : ~AtConstruct(c)
  BY <1>1 DEF AtConstruct, At
<1>9. ~(CompileNone \/ AssertChild \/ CompileAssert \/ LetValue \/ LetBind)
  BY <1>8 DEF CompileNone, AssertChild, CompileAssert, LetValue, LetBind
<1>10. ~(\/ MatchCondition \/ MatchBody \/ MatchCaseEnd \/ MatchDefault
         \/ MatchDefaultEnd \/ MatchEnd)
  BY <1>8 DEF MatchCondition, MatchBody, MatchCaseEnd, MatchDefault, MatchDefaultEnd,
              MatchEnd, AtMatchEnd, AtCase
<1>11. ~(FunctionEmpty \/ FunctionHeader \/ FunctionBody \/ FunctionEnd)
  BY <1>8 DEF FunctionEmpty, FunctionHeader, FunctionBody, FunctionEnd, AtFunction
<1> QED BY <1>3, <1>4, <1>5, <1>7, <1>9, <1>10, <1>11 DEF Next

LEMMA AtomLoads ==
    ASSUME OneTrueOneFalse, BucketsDiffer, IInv, IInv', Cache, At("N_ATOM"),
           status' = "compiling", CompileBool \/ CompileCached \/ CompileLiteral
    PROVE  Fetches(LitValue[Top.n.tok])
PROOF
<1> DEFINE tok == Top.n.tok
<1>1. /\ tok \in AtomTokens /\ Bucket[tok] \in 0..GLOBAL_SIZE - 1
      /\ LitValue[tok] \in Value
  BY AtAtom
<1>2. CASE CompileBool
  <2>1. PICK a \in {0, 1} : /\ Leaf(<<Instr("LOADG", a)>>)
                            /\ a = IF LitValue[tok].type = "True" THEN 1 ELSE 0
    BY <1>2 DEF CompileBool, GLOBAL_TRUE, GLOBAL_FALSE
  <2>2. Emit(<<Instr("LOADG", a)>>) /\ globals' = globals
    BY <2>1 DEF Leaf, poolVars
  <2>3. IsBool(tok) /\ LitValue[tok].type \in {"True", "False"}
    BY <1>2 DEF CompileBool, IsBool
  <2>4. LitValue[tok] = IF LitValue[tok].type = "True" THEN True ELSE False
    BY <1>1, <2>3 DEF OneTrueOneFalse, True, False
  <2>5. globals'[a + 1] = LitValue[tok] /\ a < Len(globals') /\ a \in Nat
    BY <2>1, <2>2, <2>4, PoolFacts DEF Cache
  <2> QED BY <2>2, <2>5, LoadEmitted
<1>3. CASE CompileCached
  <2>1. ~IsBool(tok) /\ Cached # 0 /\ Leaf(<<Instr("LOADG", CachedIndex)>>)
    BY <1>3 DEF CompileCached, IsLiteral, IsBool
  <2>2. Cached = global_hash_buckets[Bucket[tok]] /\ CachedIndex = Cached - 1
    BY DEF Cached, CachedIndex
  <2>3. Remembered(Bucket[tok])
    BY <1>1, <2>1, <2>2 DEF Cache
  <2>4. PICK t \in AtomTokens : ~IsBool(t) /\ Bucket[t] = Bucket[tok]
                                  /\ LitValue[t] = globals[Cached]
    BY <2>2, <2>3 DEF Remembered
  <2>5. LitValue[t] = LitValue[tok]
    BY <1>1, <2>1, <2>4 DEF BucketsDiffer
  <2>6. PICK a \in Nat : a = CachedIndex /\ a + 1 = Cached /\ a < Len(globals)
    BY <2>2, <2>3, PoolFacts DEF Remembered
  <2>7. Emit(<<Instr("LOADG", a)>>) /\ globals' = globals
    BY <2>1, <2>6 DEF Leaf, poolVars
  <2>8. Fetches(globals'[a + 1])
    BY <2>6, <2>7, LoadEmitted
  <2>9. globals'[a + 1] = LitValue[tok]
    BY <2>4, <2>5, <2>6, <2>7
  <2> QED BY <2>8, <2>9
<1>4. CASE CompileLiteral
  <2>1. /\ globals' = Append(globals, LitValue[tok])
        /\ Emit(<<Instr("LOADG", Len(globals))>>)
    BY <1>4 DEF CompileLiteral
  <2>2. /\ Len(globals) \in Nat /\ Len(globals) < Len(globals')
        /\ globals'[Len(globals) + 1] = LitValue[tok]
    BY <1>1, <2>1, PoolFacts
  <2> HIDE DEF tok
  <2>3. Fetches(globals'[Len(globals) + 1])
    BY <2>1, <2>2, LoadEmitted
  <2> QED BY <2>2, <2>3 DEF tok
<1> QED BY <1>2, <1>3, <1>4

LEMMA InitCached == Init => Cache
  BY DEF Init, Cache

(* What a bucket remembers is a literal of that bucket, for every program. *)
THEOREM BucketsRemember == Spec => []Cache
PROOF
<1>1. IInv /\ Cache /\ [Next]_ccVars => Cache'
  BY StepCached
<1> QED BY <1>1, InitCached, Invariance, PTL DEF Spec

(* The instruction emitted for a literal loads that literal, found in a    *)
(* bucket or not (cc.c:77-136), for every program whose literals share no  *)
(* bucket unless they are the same value.                                  *)
THEOREM LiteralsLoadThemselves ==
    ASSUME BucketsDiffer, OneTrueOneFalse
    PROVE  Spec => LiteralsLoaded
PROOF
<1>1. IInv /\ IInv' /\ Cache /\ [Next]_ccVars =>
        [At("N_ATOM") /\ status' = "compiling" =>
          LET load == bytecode'[Len(bytecode')]
          IN  /\ load.op = "LOADG"
              /\ load.arg < Len(globals')
              /\ globals'[load.arg + 1] = LitValue[Top.n.tok]]_ccVars
  <2>1. ASSUME IInv, IInv', Cache, Next, At("N_ATOM"), status' = "compiling"
        PROVE  Fetches(LitValue[Top.n.tok])
    BY <2>1, AtLiteral, AtomLoads
  <2> QED BY <2>1 DEF Fetches
<1> QED BY <1>1, BucketsRemember, Invariance, PTL DEF Spec, LiteralsLoaded

-----------------------------------------------------------------------------
(* Programs that redefine no function where it is in use.  What the trees  *)
(* have to satisfy for it: D gives each node the hashes of the functions   *)
(* defined in its tree; none defined in the body of a function is that     *)
(* function, and none defined in an argument of a call the one called.     *)
IsFunction(n) == n.kind = "N_BUILTIN" /\ Construct(n.tok) = "function"
Parts(n) == IF IsFunction(n) THEN 3..Len(n.ch) ELSE 1..Len(n.ch)
Defines(D) ==
    \A n \in Nodes :
        /\ \A k \in 1..Len(n.ch) : D[n.ch[k]] \subseteq D[n]
        /\ IsFunction(n) /\ Len(n.ch) >= 2 => FnHash[n.ch[1].tok] \in D[n]
KeepsFunctions(D) ==
    \A n \in Nodes : \A k \in Parts(n) :
        /\ IsFunction(n) => FnHash[n.ch[1].tok] \notin D[n.ch[k]]
        /\ n.kind = "N_CALL" => FnHash[n.tok] \notin D[n.ch[k]]

(* What a node further in defines, a part of the node further out defines. *)
Beneath(D, n, m) ==
    /\ D[m] \subseteq D[n]
    /\ IsFunction(n) \/ n.kind = "N_CALL" => \E k \in Parts(n) : D[m] \subseteq D[n.ch[k]]
Nested(D, s) == \A d, e \in 1..Len(s) : d < e => Beneath(D, s[d].n, s[e].n)

LEMMA ChildBeneath ==
    ASSUME NEW D, Defines(D), NEW n \in Nodes, NEW k \in Parts(n)
    PROVE  Beneath(D, n, n.ch[k])
PROOF
<1>1. k \in 1..Len(n.ch)
  BY NodeType DEF Parts
<1> QED BY <1>1 DEF Beneath, Defines

LEMMA ShrinksNested ==
    ASSUME NEW D, Nested(D, stack), Len(stack) \in Nat,
           Len(stack') \in Nat, Len(stack') <= Len(stack),
           \A d \in 1..Len(stack') : stack'[d].n = stack[d].n
    PROVE  Nested(D, stack)'
PROOF
<1> SUFFICES ASSUME NEW d \in 1..Len(stack'), NEW e \in 1..Len(stack'), d < e
             PROVE  Beneath(D, stack'[d].n, stack'[e].n)
  BY DEF Nested
<1>1. d \in 1..Len(stack) /\ e \in 1..Len(stack)
  OBVIOUS
<1> QED BY <1>1 DEF Nested

LEMMA CompileNested ==
    ASSUME NEW D, IInv, stack # <<>>, Nested(D, stack),
           NEW child, NEW self, self.n = Top.n, Beneath(D, Top.n, child), Compile(child, self)
    PROVE  Nested(D, stack)'
PROOF
<1>1. stack \in Seq(ActivationType) /\ Len(stack) \in Nat \ {0}
  BY DEF IInv, Stacked
<1>2. PICK act : act = Activation(child)
  OBVIOUS
<1>3. PICK low : low = [stack EXCEPT ![Len(stack)] = self]
  OBVIOUS
<1>4. stack' = Append(low, act)
  BY <1>2, <1>3 DEF Compile
<1>5. /\ Len(low) = Len(stack)
      /\ \A d \in 1..Len(stack) : low[d].n = stack[d].n
  BY <1>1, <1>3 DEF Top
<1>6. \E T : low \in Seq(T)
  <2>1. stack \in [1..Len(stack) -> ActivationType]
    BY <1>1
  <2>2. low \in [1..Len(stack) -> ActivationType \cup {self}]
    BY <1>3, <2>1
  <2>3. low \in Seq(ActivationType \cup {self})
    BY <1>1, <2>2, SeqDef
  <2> QED BY <2>3
<1>7. /\ Len(stack') = Len(stack) + 1 /\ stack'[Len(stack) + 1].n = child
      /\ \A d \in 1..Len(stack) : stack'[d].n = stack[d].n
  <2>1. PICK T : low \in Seq(T)
    BY <1>6
  <2>2. act.n = child
    BY <1>2 DEF Activation
  <2>3. Len(stack') = Len(low) + 1 /\ stack'[Len(low) + 1] = act
        /\ \A d \in 1..Len(low) : stack'[d] = low[d]
    BY <1>4, <2>1
  <2> QED BY <1>5, <2>2, <2>3
<1> SUFFICES ASSUME NEW d \in 1..Len(stack'), NEW e \in 1..Len(stack'), d < e
             PROVE  Beneath(D, stack'[d].n, stack'[e].n)
  BY DEF Nested
<1>8. d \in 1..Len(stack)
  BY <1>1, <1>7
<1>9. CASE e \in 1..Len(stack)
  BY <1>7, <1>8, <1>9 DEF Nested
<1>10. CASE e = Len(stack) + 1
  <2>1. d = Len(stack) \/ Beneath(D, stack[d].n, Top.n)
    BY <1>1, <1>8 DEF Nested, Top
  <2>2. D[child] \subseteq D[Top.n]
    BY DEF Beneath
  <2>3. CASE d = Len(stack)
    BY <1>7, <1>8, <1>10, <2>3 DEF Top
  <2>4. CASE Beneath(D, stack[d].n, Top.n)
    <3>1. Beneath(D, stack[d].n, child)
      BY <2>2, <2>4 DEF Beneath
    <3> QED BY <1>7, <1>8, <1>10, <3>1
  <2> QED BY <2>1, <2>3, <2>4
<1> QED BY <1>1, <1>7, <1>9, <1>10

(* compile is called for a part of the node, or of a part of it. *)
LEMMA DescendNested ==
    ASSUME NEW D, Defines(D), IInv, Nested(D, stack),
           \/ NextOperand \/ NextArgument \/ AssertChild \/ LetValue \/ MatchCondition
           \/ MatchBody \/ MatchDefault \/ FunctionHeader \/ FunctionBody
    PROVE  Nested(D, stack)'
PROOF
<1>1. stack # <<>>
  BY DEF NextOperand, NextArgument, AssertChild, LetValue, MatchCondition, MatchBody,
         MatchDefault, FunctionHeader, FunctionBody, AtArguments, IsRuntimeCall, Callable,
         AtCase, AtFunction, AtConstruct, At
<1>2. /\ Top \in ActivationType /\ Top.n \in Nodes /\ Top.i \in Nat /\ Len(Top.n.ch) \in Nat
      /\ DOMAIN Top = DOMAIN [n |-> 0, i |-> 0, regs |-> 0, mark |-> 0, slots |-> 0,
                              default |-> 0, phase |-> 0, base |-> 0]
  BY <1>1, TopSound, ActivationFields, NodeType DEF IInv, ActivationType
<1>3. \A i, phase, mark :
          /\ [Top EXCEPT !.i = i].n = Top.n
          /\ [Top EXCEPT !.phase = phase].n = Top.n
          /\ [Top EXCEPT !.phase = phase, !.mark = mark].n = Top.n
          /\ [Top EXCEPT !.i = i, !.mark = mark].n = Top.n
  BY <1>2
<1>4. SUFFICES \E child, self : /\ Compile(child, self) /\ self.n = Top.n
                                /\ Beneath(D, Top.n, child)
  BY <1>1, CompileNested
<1>5. CASE NextOperand \/ AssertChild \/ NextArgument
  <2>1. /\ Compile(Top.n.ch[Top.i + 1], [Top EXCEPT !.i = @ + 1])
        /\ Top.i < Len(Top.n.ch) /\ ~IsFunction(Top.n)
    BY <1>5 DEF NextOperand, AssertChild, NextArgument, Descend, AtArguments, IsRuntimeCall,
                Callable, AtConstruct, At, IsFunction
  <2>2. Top.i + 1 \in Parts(Top.n)
    BY <1>2, <2>1 DEF Parts
  <2>3. Beneath(D, Top.n, Top.n.ch[Top.i + 1])
    BY <1>2, <2>2, ChildBeneath
  <2> QED BY <1>3, <2>1, <2>3
<1>6. CASE LetValue
  <2>1. /\ Compile(Top.n.ch[2], [Top EXCEPT !.i = 1])
        /\ Len(Top.n.ch) = 2 /\ ~IsFunction(Top.n)
    BY <1>6 DEF LetValue, Descend, AtConstruct, At, IsFunction
  <2>2. 2 \in Parts(Top.n)
    BY <1>2, <2>1 DEF Parts
  <2>3. Beneath(D, Top.n, Top.n.ch[2])
    BY <1>2, <2>2, ChildBeneath
  <2> QED BY <1>3, <2>1, <2>3
<1>7. CASE MatchCondition \/ MatchBody \/ MatchDefault
  <2>1. /\ AtConstruct("match") /\ Top.i < Len(Top.n.ch)
        /\ ~IsFunction(Top.n) /\ Top.n.kind # "N_CALL"
    BY <1>7 DEF MatchCondition, MatchBody, MatchDefault, AtCase, AtConstruct, At, IsFunction
  <2>2. Case \in Nodes /\ Len(Case.ch) \in Nat
    BY <1>2, <2>1, CaseNode DEF IInv
  <2>3. Top.i + 1 \in Parts(Top.n)
    BY <1>2, <2>1 DEF Parts
  <2>4. Beneath(D, Top.n, Case)
    BY <1>2, <2>3, ChildBeneath DEF Case
  <2>5. \A k \in 1..Len(Case.ch) : D[Case.ch[k]] \subseteq D[Case]
    BY <2>2 DEF Defines
  <2>6. \A k \in 1..Len(Case.ch) : Beneath(D, Top.n, Case.ch[k])
    BY <2>1, <2>4, <2>5 DEF Beneath
  <2>7. CASE MatchDefault
    BY <1>3, <2>4, <2>7 DEF MatchDefault, Descend
  <2>8. CASE MatchCondition
    <3>1. 1 \in 1..Len(Case.ch)
      BY <2>2, <2>8 DEF MatchCondition, Conditional
    <3>2. PICK self : self = [Top EXCEPT !.phase = "condition"]
      OBVIOUS
    <3>3. Compile(Case.ch[1], self)
      BY <2>8, <3>2 DEF MatchCondition, Descend
    <3>4. self.n = Top.n
      BY <1>3, <3>2
    <3> QED BY <2>6, <3>1, <3>3, <3>4
  <2>9. CASE MatchBody
    <3>1. Conditional
      BY <1>1, <2>1, <2>9, TopSound DEF IInv, MatchBody, AtCase, Sound, Matching, Conditional, Case
    <3>2. 2 \in 1..Len(Case.ch)
      BY <2>2, <3>1 DEF Conditional
    <3>3. PICK self : self = [Top EXCEPT !.phase = "body", !.mark = Len0]
      OBVIOUS
    <3>4. Compile(Case.ch[2], self)
      BY <2>9, <3>3 DEF MatchBody
    <3>5. self.n = Top.n
      BY <1>3, <3>3
    <3> QED BY <2>6, <3>2, <3>4, <3>5
  <2> QED BY <1>7, <2>7, <2>8, <2>9
<1>8. CASE FunctionHeader
  <2>1. /\ Compile(Top.n.ch[3], [Top EXCEPT !.i = 1, !.mark = Len0])
        /\ Len(Top.n.ch) > 2 /\ IsFunction(Top.n)
    BY <1>8 DEF FunctionHeader, AtFunction, AtConstruct, At, IsFunction
  <2>2. 3 \in Parts(Top.n)
    BY <1>2, <2>1 DEF Parts
  <2>3. Beneath(D, Top.n, Top.n.ch[3])
    BY <1>2, <2>2, ChildBeneath
  <2> QED BY <1>3, <2>1, <2>3
<1>9. CASE FunctionBody
  <2>1. /\ Compile(Top.n.ch[Top.i + 3], [Top EXCEPT !.i = @ + 1])
        /\ Top.i > 0 /\ Top.i + 2 < Len(Top.n.ch) /\ IsFunction(Top.n)
    BY <1>9 DEF FunctionBody, Descend, AtFunction, AtConstruct, At, IsFunction
  <2>2. Top.i + 3 \in Parts(Top.n)
    BY <1>2, <2>1 DEF Parts
  <2>3. Beneath(D, Top.n, Top.n.ch[Top.i + 3])
    BY <1>2, <2>2, ChildBeneath
  <2> QED BY <1>3, <2>1, <2>3
<1> QED BY <1>5, <1>6, <1>7, <1>8, <1>9

(* Every other step leaves the nodes on the stack, or takes the last off. *)
LEMMA StepNested ==
    ASSUME NEW D, Defines(D), IInv, Nested(D, stack), [Next]_ccVars
    PROVE  Nested(D, stack)'
PROOF
<1>1. stack \in Seq(ActivationType) /\ Len(stack) \in Nat
  BY DEF IInv, Stacked
<1>2. CASE UNCHANGED stack
  BY <1>1, <1>2, ShrinksNested
<1>3. CASE stack # <<>> /\ Return
  <2>1. /\ Len(stack') = Len(stack) - 1 /\ Len(stack') \in Nat
        /\ \A d \in 1..Len(stack') : stack'[d] = stack[d]
    BY <1>1, <1>3, AfterReturn
  <2> QED BY <1>1, <2>1, ShrinksNested
<1>4. ASSUME NEW self, stack # <<>>, self.n = Top.n, Continue(self)
      PROVE  Nested(D, stack)'
  <2>1. /\ Len(stack') = Len(stack)
        /\ \A d \in 1..Len(stack') : stack'[d].n = stack[d].n
    BY <1>1, <1>4 DEF Continue, Top
  <2> QED BY <1>1, <2>1, ShrinksNested
<1>5. CASE CompileTop
  <2>1. stack' = <<Activation(program[next + 1])>>
    BY <1>5 DEF CompileTop
  <2>2. Len(stack') = 1
    BY <2>1
  <2> QED BY <2>2 DEF Nested
<1>6. CASE StoreOperand \/ MatchCaseEnd \/ MatchDefaultEnd
  <2>1. stack # <<>>
    BY <1>6 DEF StoreOperand, Storing, AtArguments, IsRuntimeCall, Callable, MatchCaseEnd,
                MatchDefaultEnd, AtCase, AtConstruct, At
  <2>2. Top \in ActivationType
    BY <2>1, TopSound DEF IInv
  <2>3. \A regs, i, slots :
          /\ [Top EXCEPT !.regs = regs].n = Top.n
          /\ [Top EXCEPT !.i = i, !.phase = "start", !.slots = slots].n = Top.n
          /\ [Top EXCEPT !.i = i, !.phase = "start", !.default = TRUE, !.slots = slots].n = Top.n
    BY <2>2 DEF ActivationType
  <2>4. CASE StoreOperand
    BY <1>4, <2>1, <2>3, <2>4 DEF StoreOperand
  <2>5. CASE MatchCaseEnd
    BY <1>4, <2>1, <2>3, <2>5 DEF MatchCaseEnd
  <2>6. CASE MatchDefaultEnd
    BY <1>4, <2>1, <2>3, <2>6 DEF MatchDefaultEnd
  <2> QED BY <1>6, <2>4, <2>5, <2>6
<1>7. ASSUME \/ CompileBool \/ CompileCached \/ CompileLiteral \/ CompileAggregate
             \/ CompileIdent \/ SingleOperand \/ CompileBin
      PROVE  stack # <<>> /\ Return
  BY <1>7 DEF CompileBool, CompileCached, CompileLiteral, CompileAggregate, CompileIdent,
              SingleOperand, CompileBin, IsLiteral, IsEmptyAggregate, Leaf, ReturnOnly, At
<1>8. ASSUME \/ CompileElidedCall \/ EmitBuiltin \/ EmitCall \/ CompileNone
             \/ CompileAssert \/ LetBind \/ MatchEnd \/ FunctionEmpty \/ FunctionEnd
      PROVE  stack # <<>> /\ Return
  BY <1>8 DEF CompileElidedCall, ElidedCall, EmitBuiltin, EmitCall, CompileNone,
              CompileAssert, LetBind, MatchEnd, AtMatchEnd, FunctionEmpty, FunctionEnd,
              IsRuntimeCall, Callable, AtFunction, AtConstruct, Leaf, ReturnOnly, At
<1>9. ASSUME \/ Done \/ OutOfGlobals \/ OutOfRegisters \/ MatchGarbage \/ Reject
             \/ NullToken \/ UNCHANGED ccVars
      PROVE  UNCHANGED stack
  BY <1>9 DEF Done, OutOfGlobals, OutOfRegisters, MatchGarbage, Reject, NullToken, Fail, ccVars
<1> QED BY <1>2, <1>3, <1>5, <1>6, <1>7, <1>8, <1>9, DescendNested DEF Next

LEMMA NestedKeeps ==
    ASSUME NEW D, Defines(D), KeepsFunctions(D), IInv, Nested(D, stack)
    PROVE  NoneRedefined
PROOF
<1> SUFFICES ASSUME AtFunction, NEW d \in 1..Len(stack) - 1,
                    Opened(stack[d]) \/ Calling(stack[d])
             PROVE  Names(stack[d]) # FunctionHash
  BY DEF NoneRedefined
<1>1. /\ stack \in Seq(ActivationType) /\ Len(stack) \in Nat \ {0} /\ stack # <<>>
      /\ d \in 1..Len(stack) /\ Len(stack) \in 1..Len(stack) /\ d < Len(stack)
  BY DEF IInv, Stacked
<1>2. Top.n \in Nodes /\ stack[d].n \in Nodes
  BY <1>1, ActivationFields DEF Top
<1>3. FunctionHash \in D[Top.n]
  BY <1>2 DEF AtFunction, AtConstruct, At, IsFunction, Defines, FunctionHash
<1>4. Beneath(D, stack[d].n, Top.n)
  BY <1>1 DEF Nested, Top
<1>5. IsFunction(stack[d].n) \/ stack[d].n.kind = "N_CALL"
  BY DEF Opened, Calling, IsFunction
<1>6. PICK k \in Parts(stack[d].n) : FunctionHash \in D[stack[d].n.ch[k]]
  BY <1>3, <1>4, <1>5 DEF Beneath
<1> QED BY <1>2, <1>6 DEF KeepsFunctions, Names, Calling, Opened, IsFunction

(* A program whose trees keep their functions redefines none that is in    *)
(* use (cc.c:236, cc.c:337-358).  This is what the theorems on calls, and  *)
(* on the machine, take for granted of a behaviour.                        *)
THEOREM TreesRedefineNone ==
    ASSUME NEW D, Defines(D), KeepsFunctions(D)
    PROVE  Spec => []NoneRedefined
PROOF
<1>1. Init => Nested(D, stack)
  BY DEF Init, Nested
<1>2. IInv /\ Nested(D, stack) /\ [Next]_ccVars => Nested(D, stack)'
  BY StepNested
<1>3. IInv /\ Nested(D, stack) => NoneRedefined
  BY NestedKeeps
<1> QED BY <1>1, <1>2, <1>3, Invariance, PTL DEF Spec
=============================================================================
