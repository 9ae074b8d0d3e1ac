------------------------- MODULE PurpleGardenProofs -------------------------
(***************************************************************************)
(* The machine on compiled code, proved for every program: frames and free *)
(* list partition the frames there are, each call returns into the body    *)
(* that made it, and the frames implement the abstract stack of scopes.    *)
(*                                                                         *)
(* The code's properties speak of lists that hang off a variable; what is  *)
(* inductive is that two sequences of frames lie behind those lists, and   *)
(* that each active frame executes inside the function it was entered for  *)
(* and in no function within that one.                                     *)
(***************************************************************************)
EXTENDS PurpleGarden, CcCodeProofs, FiniteSetTheorems, WellFoundedInduction

(* a frame whose variables have values in V *)
FrameOf(V) == [prev : Nat, return_to_bytecode : Nat,
               variable_table : [0..VARIABLE_TABLE_SIZE - 1 -> V]]

(* s lists n of the frames fs, from the last one on prev's way to top *)
Listed(fs, top, n, s) ==
    /\ n \in Nat /\ s \in [1..n -> 1..Len(fs)]
    /\ \A j, k \in 1..n : s[j] = s[k] => j = k
    /\ top = IF n = 0 THEN 0 ELSE s[n]
    /\ \A k \in 1..n : fs[s[k]].prev = IF k = 1 THEN 0 ELSE s[k - 1]

(* every frame is in exactly one of two lists *)
Divided(fs, n, s, m, t) ==
    /\ n + m = Len(fs)
    /\ \A j \in 1..n, k \in 1..m : s[j] # t[k]
    /\ \A f \in 1..Len(fs) : (\E j \in 1..n : s[j] = f) \/ (\E k \in 1..m : t[k] = f)

Pushed(n, s, f) == [k \in 1..n + 1 |-> IF k = n + 1 THEN f ELSE s[k]]
Popped(n, s) == [k \in 1..n - 1 |-> s[k]]

-----------------------------------------------------------------------------
(* Lists of frames                                                         *)

(* A frame is put on top of a list. *)
LEMMA PushListed ==
    ASSUME NEW fs, NEW gs, NEW top, NEW n, NEW s, Listed(fs, top, n, s),
           Len(fs) \in Nat, Len(gs) \in Nat, Len(fs) <= Len(gs), NEW f \in 1..Len(gs),
           \A k \in 1..n : s[k] # f /\ gs[s[k]].prev = fs[s[k]].prev,
           gs[f].prev = top
    PROVE  Listed(gs, f, n + 1, Pushed(n, s, f))
PROOF
<1> DEFINE u == Pushed(n, s, f)
<1>1. n \in Nat /\ \A k \in 1..n : s[k] \in 1..Len(fs)
  BY DEF Listed
<1>2. u = [k \in 1..n + 1 |-> IF k = n + 1 THEN f ELSE s[k]]
  BY DEF Pushed
<1> HIDE DEF u
<1>3. u[n + 1] = f /\ \A k \in 1..n : u[k] = s[k]
  BY <1>1, <1>2
<1>4. u \in [1..n + 1 -> 1..Len(gs)]
  BY <1>1, <1>2
<1>5. ASSUME NEW j \in 1..n + 1, NEW k \in 1..n + 1, u[j] = u[k] PROVE j = k
  <2>1. CASE j \in 1..n /\ k \in 1..n
    BY <1>3, <1>5, <2>1 DEF Listed
  <2>2. CASE j = n + 1 \/ k = n + 1
    BY <1>1, <1>3, <1>5, <2>2
  <2> QED BY <1>1, <2>1, <2>2
<1>6. ASSUME NEW k \in 1..n + 1
      PROVE gs[u[k]].prev = IF k = 1 THEN 0 ELSE u[k - 1]
  <2>1. CASE k \in 1..n
    <3>1. gs[u[k]].prev = fs[s[k]].prev
      BY <1>3, <2>1
    <3>2. k # 1 => k - 1 \in 1..n /\ u[k - 1] = s[k - 1]
      BY <1>1, <1>3, <2>1
    <3> QED BY <2>1, <3>1, <3>2 DEF Listed
  <2>2. CASE k = n + 1
    <3>1. gs[u[k]].prev = top
      BY <1>3, <2>2
    <3>2. n # 0 => n \in 1..n /\ u[n] = s[n]
      BY <1>1, <1>3
    <3>3. top = IF n = 0 THEN 0 ELSE s[n]
      BY DEF Listed
    <3>4. k - 1 = n /\ (k = 1 <=> n = 0)
      BY <1>1, <2>2
    <3> QED BY <3>1, <3>2, <3>3, <3>4
  <2> QED BY <1>1, <2>1, <2>2
<1>7. f = IF n + 1 = 0 THEN 0 ELSE u[n + 1]
  BY <1>1, <1>3
<1> QED BY <1>1, <1>4, <1>5, <1>6, <1>7 DEF Listed, u

(* The frame on top is taken off. *)
LEMMA PopListed ==
    ASSUME NEW fs, NEW gs, NEW top, NEW n, NEW s, Listed(fs, top, n, s), n > 0,
           Len(fs) \in Nat, Len(gs) = Len(fs),
           \A k \in 1..n - 1 : gs[s[k]].prev = fs[s[k]].prev
    PROVE  Listed(gs, fs[top].prev, n - 1, Popped(n, s))
PROOF
<1> DEFINE u == Popped(n, s)
<1>1. n \in Nat \ {0} /\ n - 1 \in Nat /\ \A k \in 1..n : s[k] \in 1..Len(fs)
  BY DEF Listed
<1>2. u = [k \in 1..n - 1 |-> s[k]]
  BY DEF Popped
<1> HIDE DEF u
<1>3. \A k \in 1..n - 1 : k \in 1..n /\ u[k] = s[k]
  BY <1>1, <1>2
<1>4. u \in [1..n - 1 -> 1..Len(gs)]
  BY <1>1, <1>2, <1>3
<1>5. \A j, k \in 1..n - 1 : u[j] = u[k] => j = k
  BY <1>3 DEF Listed
<1>6. ASSUME NEW k \in 1..n - 1
      PROVE gs[u[k]].prev = IF k = 1 THEN 0 ELSE u[k - 1]
  <2>1. gs[u[k]].prev = fs[s[k]].prev /\ k \in 1..n
    BY <1>3
  <2>2. k # 1 => u[k - 1] = s[k - 1]
    BY <1>1, <1>3
  <2> QED BY <2>1, <2>2 DEF Listed
<1>7. fs[top].prev = IF n - 1 = 0 THEN 0 ELSE u[n - 1]
  <2>1. top = s[n] /\ n \in 1..n
    BY <1>1 DEF Listed
  <2>2. fs[s[n]].prev = IF n = 1 THEN 0 ELSE s[n - 1]
    BY <2>1 DEF Listed
  <2>3. n # 1 => n - 1 \in 1..n - 1
    BY <1>1
  <2> QED BY <1>1, <1>3, <2>1, <2>2, <2>3
<1> QED BY <1>1, <1>4, <1>5, <1>6, <1>7 DEF Listed, u

(* Frames change without their links. *)
LEMMA KeepListed ==
    ASSUME NEW fs, NEW gs, NEW top, NEW n, NEW s, Listed(fs, top, n, s),
           Len(fs) \in Nat, Len(gs) \in Nat, Len(fs) <= Len(gs),
           \A k \in 1..n : gs[s[k]].prev = fs[s[k]].prev
    PROVE  Listed(gs, top, n, s)
PROOF
<1>1. s \in [1..n -> 1..Len(gs)]
  BY DEF Listed
<1> QED BY <1>1 DEF Listed

(* the frames fs: n active ones from top on, m free ones from hd on *)
Lists(fs, top, hd, n, s, m, t) ==
    Listed(fs, top, n, s) /\ Listed(fs, hd, m, t) /\ Divided(fs, n, s, m, t)

LEMMA DividedBothWays ==
    ASSUME NEW fs, NEW n \in Nat, NEW m \in Nat, NEW s, NEW t, Divided(fs, n, s, m, t)
    PROVE  Divided(fs, m, t, n, s)
  BY DEF Divided

(* A frame moves from the top of one list to the top of the other. *)
LEMMA Moved ==
    ASSUME NEW fs, NEW gs, NEW n, NEW s, NEW m, NEW t,
           NEW top, NEW hd, Lists(fs, top, hd, n, s, m, t), m > 0,
           Len(fs) \in Nat, Len(gs) = Len(fs)
    PROVE  Divided(gs, n + 1, Pushed(n, s, t[m]), m - 1, Popped(m, t))
PROOF
<1> DEFINE u == Pushed(n, s, t[m])
           v == Popped(m, t)
<1>1. /\ n \in Nat /\ m \in Nat \ {0} /\ n + 1 \in Nat /\ m - 1 \in Nat
      /\ m \in 1..m /\ n + m = Len(fs)
  BY DEF Lists, Listed, Divided
<1>2. u = [k \in 1..n + 1 |-> IF k = n + 1 THEN t[m] ELSE s[k]]
  BY DEF Pushed
<1>3. v = [k \in 1..m - 1 |-> t[k]]
  BY DEF Popped
<1> HIDE DEF u, v
<1>4. n + 1 \in 1..n + 1 /\ u[n + 1] = t[m] /\ \A k \in 1..n : k \in 1..n + 1 /\ u[k] = s[k]
  BY <1>1, <1>2
<1>5. \A k \in 1..m - 1 : k \in 1..m /\ k # m /\ v[k] = t[k]
  BY <1>1, <1>3
<1>6. ASSUME NEW j \in 1..n + 1, NEW k \in 1..m - 1 PROVE u[j] # v[k]
  <2>1. CASE j \in 1..n
    BY <1>4, <1>5, <2>1 DEF Lists, Divided
  <2>2. CASE j = n + 1
    BY <1>1, <1>4, <1>5, <2>2 DEF Lists, Listed
  <2> QED BY <1>1, <2>1, <2>2
<1>7. ASSUME NEW f \in 1..Len(gs)
      PROVE (\E j \in 1..n + 1 : u[j] = f) \/ (\E k \in 1..m - 1 : v[k] = f)
  <2>1. (\E j \in 1..n : s[j] = f) \/ (\E k \in 1..m : t[k] = f)
    BY DEF Lists, Divided
  <2>2. CASE \E j \in 1..n : s[j] = f
    BY <1>4, <2>2
  <2>3. CASE \E k \in 1..m : t[k] = f
    <3>1. PICK k \in 1..m : t[k] = f
      BY <2>3
    <3>2. CASE k = m
      BY <1>4, <3>1, <3>2
    <3>3. CASE k # m
      <4>1. k \in 1..m - 1
        BY <1>1, <3>3
      <4> QED BY <1>5, <3>1, <4>1
    <3> QED BY <3>2, <3>3
  <2> QED BY <2>1, <2>2, <2>3
<1>8. n + 1 + (m - 1) = Len(gs)
  BY <1>1
<1> QED BY <1>6, <1>7, <1>8 DEF Divided, u, v

(* A frame is requested from the allocator and put on top of a list. *)
LEMMA MovedIn ==
    ASSUME NEW fs, NEW gs, NEW n, NEW s, NEW m, NEW t,
           NEW top, NEW hd, Lists(fs, top, hd, n, s, m, t),
           Len(fs) \in Nat, Len(gs) = Len(fs) + 1
    PROVE  Divided(gs, n + 1, Pushed(n, s, Len(gs)), m, t)
PROOF
<1> DEFINE f0 == Len(gs)
           u == Pushed(n, s, f0)
<1>1. n \in Nat /\ m \in Nat /\ n + 1 \in Nat /\ n + m = Len(fs) /\ f0 = Len(fs) + 1
  BY DEF Lists, Listed, Divided
<1>2. u = [k \in 1..n + 1 |-> IF k = n + 1 THEN f0 ELSE s[k]]
  BY DEF Pushed
<1>3. /\ \A k \in 1..n : s[k] \in 1..Len(fs)
      /\ \A k \in 1..m : t[k] \in 1..Len(fs)
  BY DEF Lists, Listed
<1> HIDE DEF u
<1>4. n + 1 \in 1..n + 1 /\ u[n + 1] = f0 /\ \A k \in 1..n : k \in 1..n + 1 /\ u[k] = s[k]
  BY <1>1, <1>2
<1>5. ASSUME NEW j \in 1..n + 1, NEW k \in 1..m PROVE u[j] # t[k]
  <2>1. CASE j \in 1..n
    BY <1>4, <2>1 DEF Lists, Divided
  <2>2. CASE j = n + 1
    BY <1>1, <1>3, <1>4, <2>2
  <2> QED BY <1>1, <2>1, <2>2
<1>6. ASSUME NEW f \in 1..Len(gs)
      PROVE (\E j \in 1..n + 1 : u[j] = f) \/ (\E k \in 1..m : t[k] = f)
  <2>1. CASE f \in 1..Len(fs)
    BY <1>4, <2>1 DEF Lists, Divided
  <2>2. CASE f = f0
    BY <1>4, <2>2
  <2> QED BY <1>1, <2>1, <2>2
<1>7. n + 1 + m = Len(gs)
  BY <1>1
<1> QED BY <1>5, <1>6, <1>7 DEF Divided, u

-----------------------------------------------------------------------------
(* What the machine does to the lists.  relinked: the frames gs are fs but *)
(* for the link of f.                                                      *)
Relinked(fs, gs, f, prev) ==
    /\ Len(gs) = Len(fs) /\ gs[f].prev = prev
    /\ \A x \in 1..Len(fs) : x # f => gs[x].prev = fs[x].prev

(* OP_CALL with a free frame: the first free frame becomes the top one. *)
LEMMA CallFromList ==
    ASSUME NEW fs, NEW gs, NEW n, NEW s, NEW m, NEW t,
           NEW top, NEW hd, Lists(fs, top, hd, n, s, m, t), hd # 0,
           Len(fs) \in Nat, Relinked(fs, gs, hd, top)
    PROVE  /\ hd \in 1..Len(fs) /\ m > 0 /\ hd = t[m]
           /\ Lists(gs, hd, fs[hd].prev, n + 1, Pushed(n, s, hd), m - 1, Popped(m, t))
PROOF
<1>1. m \in Nat \ {0} /\ m \in 1..m /\ hd = t[m] /\ n \in Nat
  BY DEF Lists, Listed
<1>2. hd \in 1..Len(fs) /\ m > 0 /\ Len(gs) = Len(fs)
  BY <1>1 DEF Lists, Listed, Relinked
<1>3. \A k \in 1..n : s[k] # hd /\ s[k] \in 1..Len(fs)
  BY <1>1 DEF Lists, Listed, Divided
<1>4. \A k \in 1..m - 1 : t[k] # hd /\ t[k] \in 1..Len(fs)
  <2> TAKE k \in 1..m - 1
  <2>1. k \in 1..m /\ k # m
    BY <1>1
  <2> QED BY <1>1, <2>1 DEF Lists, Listed
<1>5. Listed(gs, hd, n + 1, Pushed(n, s, hd))
  BY <1>2, <1>3, PushListed DEF Lists, Relinked
<1>6. Listed(gs, fs[hd].prev, m - 1, Popped(m, t))
  BY <1>2, <1>4, PopListed DEF Lists, Relinked
<1>7. Divided(gs, n + 1, Pushed(n, s, hd), m - 1, Popped(m, t))
  BY <1>1, <1>2, Moved
<1> QED BY <1>1, <1>2, <1>5, <1>6, <1>7 DEF Lists

(* OP_CALL without one: the allocator's frame becomes the top one. *)
LEMMA CallFromHeap ==
    ASSUME NEW fs, NEW gs, NEW n, NEW s, NEW m, NEW t,
           NEW top, Lists(fs, top, 0, n, s, m, t),
           Len(fs) \in Nat, Len(gs) = Len(fs) + 1, gs[Len(gs)].prev = top,
           \A x \in 1..Len(fs) : gs[x].prev = fs[x].prev
    PROVE  Lists(gs, Len(gs), 0, n + 1, Pushed(n, s, Len(gs)), m, t)
PROOF
<1>1. Len(gs) \in 1..Len(gs) /\ Len(gs) \in Nat /\ Len(fs) <= Len(gs)
  OBVIOUS
<1>2. /\ \A k \in 1..n : s[k] \in 1..Len(fs)
      /\ \A k \in 1..m : t[k] \in 1..Len(fs)
  BY DEF Lists, Listed
<1>3. \A k \in 1..n : s[k] # Len(gs) /\ gs[s[k]].prev = fs[s[k]].prev
  BY <1>2
<1>4. Listed(gs, Len(gs), n + 1, Pushed(n, s, Len(gs)))
  BY <1>1, <1>3, PushListed DEF Lists
<1>5. Listed(gs, 0, m, t)
  BY <1>1, <1>2, KeepListed DEF Lists
<1>6. Divided(gs, n + 1, Pushed(n, s, Len(gs)), m, t)
  BY MovedIn
<1> QED BY <1>4, <1>5, <1>6 DEF Lists

(* OP_LEAVE: the top frame becomes the first free one. *)
LEMMA LeaveToList ==
    ASSUME NEW fs, NEW gs, NEW n, NEW s, NEW m, NEW t,
           NEW top, NEW hd, Lists(fs, top, hd, n, s, m, t), n > 0,
           Len(fs) \in Nat, Relinked(fs, gs, top, hd)
    PROVE  Lists(gs, fs[top].prev, top, n - 1, Popped(n, s), m + 1, Pushed(m, t, top))
PROOF
<1>1. Lists(fs, hd, top, m, t, n, s)
  BY DividedBothWays DEF Lists, Listed
<1>2. n \in 1..n /\ top = s[n] /\ top # 0
  BY DEF Lists, Listed
<1>3. Lists(gs, top, fs[top].prev, m + 1, Pushed(m, t, top), n - 1, Popped(n, s))
  BY <1>1, <1>2, CallFromList
<1>4. n - 1 \in Nat /\ m + 1 \in Nat
  BY DEF Lists, Listed
<1> QED BY <1>3, <1>4, DividedBothWays DEF Lists

-----------------------------------------------------------------------------
(* The code the machine executes                                           *)

(* The finished code, with completed bodies B. *)
Executable(B) ==
    /\ B \subseteq Body /\ Laminar(B)
    /\ \A b \in B : Framed(bytecode, b)
    /\ \A x \in Addresses : Jump(bytecode, x) =>
          /\ To(bytecode, x) \in x + 1..Len(bytecode)
          /\ \A b \in B : In(b, x) <=> In(b, To(bytecode, x))
    /\ Leaving(bytecode, B) /\ Enters(bytecode, B)

(* Each of them starts by loading its parameters, and nothing else loads.  *)
Headed(B) ==
    /\ \A b \in B : /\ b.start + 2 * b.params + 2 <= b.end
                    /\ Header0(bytecode, b.start, b.params)
    /\ \A x \in Addresses : Op(bytecode, x) = "LOAD" =>
          \E b \in B : Loads(bytecode, b.start, b.params, x)

(* Execution at x, in the function whose jump is at e (-1: in none): in no *)
(* function defined in that one.                                           *)
Inside(B, e, x) ==
    /\ \A c \in B : In(c, x) => c.start <= e
    /\ e # -1 => \E b \in B : b.start = e /\ b.params <= REGISTERS /\ In(b, x)

LEMMA CodeExecutable ==
    ASSUME Tied, Through, status = "done"
    PROVE  \E B : Executable(B) /\ Headed(B)
PROOF
<1>1. PICK B : Generated(B) /\ Linked(B)
  BY DEF Tied
<1>2. stack = <<>> /\ Len(stack) = 0
  BY DEF Through
<1>3. Layout(bytecode, stack, B) /\ B \subseteq Body /\ Enters(bytecode, B)
  BY <1>1 DEF Generated, Linked, Alive
<1>4. \A x : ~Awaits(stack, x)
  BY <1>2 DEF Awaits
<1>5. ASSUME NEW x \in Addresses, Jump(bytecode, x)
      PROVE  /\ To(bytecode, x) \in x + 1..Len(bytecode)
             /\ \A b \in B : In(b, x) <=> In(b, To(bytecode, x))
  BY <1>3, <1>4, <1>5 DEF Layout, Landed, Sealed, Addresses
<1>6. Headed(B)
  BY <1>1, <1>2 DEF Generated, Alive, Headers, Headed, Addresses
<1> QED BY <1>3, <1>5, <1>6 DEF Executable, Layout, Closed

(* The next instruction is in the same function, unless this one leaves it *)
(* or jumps around the next function.                                      *)
LEMMA Onward ==
    ASSUME NEW B, Executable(B), NEW e, NEW x \in Addresses, Inside(B, e, x),
           Op(bytecode, x) \notin {"JMP", "LEAVE"}
    PROVE  Inside(B, e, x + 1)
PROOF
<1>1. x \in Nat
  BY DEF Addresses
<1>2. ASSUME NEW c \in B
      PROVE /\ c.start \in Nat /\ c.end \in Nat /\ c.start # x /\ c.end # x + 1
  <2>1. c.start \in Nat /\ c.end \in Nat /\ Framed(bytecode, c)
    BY DEF Executable, Body
  <2>2. c.end = x + 1 => c.end - 1 = x
    BY <1>1, <2>1
  <2> QED BY <2>1, <2>2 DEF Framed
<1>3. ASSUME NEW c \in B PROVE In(c, x + 1) <=> In(c, x)
  BY <1>1, <1>2 DEF In
<1> QED BY <1>3 DEF Inside

(* So is the target of a jump. *)
LEMMA JumpedTo ==
    ASSUME NEW B, Executable(B), NEW e, NEW x \in Addresses, Inside(B, e, x),
           Jump(bytecode, x)
    PROVE  /\ Inside(B, e, To(bytecode, x))
           /\ To(bytecode, x) \in 0..Len(bytecode)
PROOF
<1>1. \A b \in B : In(b, x) <=> In(b, To(bytecode, x))
  BY DEF Executable
<1>2. To(bytecode, x) \in x + 1..Len(bytecode) /\ x \in Nat
  BY DEF Executable, Addresses
<1>3. To(bytecode, x) \in 0..Len(bytecode)
  BY <1>2
<1> QED BY <1>1, <1>3 DEF Inside

(* A call enters its function. *)
LEMMA CallEnters ==
    ASSUME NEW B, Executable(B), NEW x \in Addresses, Op(bytecode, x) = "CALL",
           bytecode \in Seq(InstrType)
    PROVE  /\ Inside(B, To(bytecode, x), To(bytecode, x) + 1)
           /\ To(bytecode, x) \in Nat /\ To(bytecode, x) + 1 \in 0..Len(bytecode)
PROOF
<1>1. PICK b \in B : /\ b.start = To(bytecode, x) /\ b.end <= x
                     /\ b.params <= REGISTERS /\ Framed(bytecode, b)
  BY DEF Executable, Enters, Addresses
<1>2. b.start \in Nat /\ b.end \in Nat /\ Len(bytecode) \in Nat
  BY DEF Executable, Body
<1>3. b.start + 2 <= b.end /\ b.end <= Len(bytecode)
  BY <1>1 DEF Framed
<1>4. In(b, b.start + 1)
  BY <1>2, <1>3 DEF In
<1>5. ASSUME NEW c \in B, In(c, b.start + 1) PROVE c.start <= b.start
  <2>1. c.start \in Nat
    BY DEF Executable, Body
  <2> QED BY <1>2, <1>5, <2>1 DEF In
<1>6. b.start + 1 \in 0..Len(bytecode)
  BY <1>2, <1>3
<1> QED BY <1>1, <1>2, <1>4, <1>5, <1>6 DEF Inside

(* There is no LEAVE outside the functions. *)
LEMMA LeaveInside ==
    ASSUME NEW B, Executable(B), NEW x \in Addresses, Inside(B, -1, x)
    PROVE  Op(bytecode, x) # "LEAVE"
PROOF
<1> SUFFICES ASSUME Op(bytecode, x) = "LEAVE" PROVE FALSE
  OBVIOUS
<1>1. x \in Nat /\ x \in 0..Len(bytecode) - 1
  BY DEF Addresses
<1>2. PICK b \in B : b.end = x + 1
  BY <1>1 DEF Executable, Leaving
<1>3. b.start \in Nat /\ b.start + 2 <= b.end
  BY DEF Executable, Body, Framed
<1>4. In(b, x)
  BY <1>1, <1>2, <1>3 DEF In
<1>5. b.start <= -1
  BY <1>4 DEF Inside
<1> QED BY <1>3, <1>5

-----------------------------------------------------------------------------
(* The invariant of the machine                                            *)

(* where the k-th active frame executes, and the jump of the function it   *)
(* was entered for                                                         *)
Here(n, s, k) == IF k = n THEN pc ELSE frames[s[k + 1]].return_to_bytecode
Entry(s, k) == IF k = 1 THEN -1 ELSE To(bytecode, frames[s[k]].return_to_bytecode)

(* The active frames s: each but the root was entered by a call in the     *)
(* function the one before executes.                                       *)
Placed(B, n, s) ==
    /\ n > 0 /\ pc \in 0..Len(bytecode)
    /\ \A k \in 2..n : LET call == frames[s[k]].return_to_bytecode
                       IN  call \in Addresses /\ Op(bytecode, call) = "CALL"
    /\ \A k \in 1..n : Inside(B, Entry(s, k), Here(n, s, k))

Machine(B, V, n, s, m, t) ==
    /\ Executable(B)
    /\ None \in V /\ frames \in Seq(FrameOf(V))
    /\ Lists(frames, frame, head, n, s, m, t)
    /\ Placed(B, n, s)

MachineInv ==
    IF vm_status = "idle" THEN VM!Init
    ELSE status = "done" /\ \E B, V, n, s, m, t : Machine(B, V, n, s, m, t)

(* A step that leaves the frames alone. *)
Simple ==
    /\ UNCHANGED <<frames, frame, head, bytecode>>
    /\ \/ pc' = pc
       \/ pc \in Addresses /\ Op(bytecode, pc) \notin {"JMP", "LEAVE"} /\ pc' = pc + 1
       \/ pc \in Addresses /\ Jump(bytecode, pc) /\ pc' = To(bytecode, pc)

LEMMA Fetched ==
    ASSUME Code, pc \in Nat, NEW op, VM!Fetch(op)
    PROVE  /\ pc \in Addresses /\ Op(bytecode, pc) = op
           /\ VM!Arg = To(bytecode, pc)
           /\ pc + 1 \in 0..Len(bytecode) /\ vm_status = "running"
PROOF
<1>1. pc < Len(bytecode) /\ Len(bytecode) \in Nat
  BY DEF VM!Fetch, VM!Running, Code
<1> QED BY <1>1 DEF VM!Fetch, VM!Running, VM!Arg, Op, To, Addresses

(* What an arithmetic instruction and a builtin can end with. *)
Endings == {"ok", "error", "abort", "trap"}

LEMMA ArithEnds ==
    ASSUME NEW op, NEW a, NEW b
    PROVE  VM!Arith(op, a, b).status \in Endings
PROOF
<1>1. \A st, v : VM!Outcome(st, v).status = st
  BY DEF VM!Outcome
<1>2. CASE op = "ADD" /\ a.type = "Str" /\ b.type = "Str"
  BY <1>1, <1>2 DEF VM!Arith, Endings
<1>3. CASE ~(op = "ADD" /\ a.type = "Str" /\ b.type = "Str") /\ "Double" \in {a.type, b.type}
  BY <1>1, <1>3 DEF VM!Arith, Endings
<1>4. CASE /\ ~(op = "ADD" /\ a.type = "Str" /\ b.type = "Str")
           /\ "Double" \notin {a.type, b.type}
           /\ a.type = "Int" /\ b.type = "Int"
  BY <1>1, <1>4 DEF VM!Arith, Endings
<1>5. CASE /\ ~(op = "ADD" /\ a.type = "Str" /\ b.type = "Str")
           /\ "Double" \notin {a.type, b.type}
           /\ ~(a.type = "Int" /\ b.type = "Int")
  BY <1>1, <1>5 DEF VM!Arith, Endings
<1> QED BY <1>2, <1>3, <1>4, <1>5

LEMMA BuiltinEnds ==
    ASSUME NEW b \in Runtime \ {"print", "println"}
    PROVE  VM!BuiltinOutcome(b).status \in Endings
PROOF
<1>1. \A st, v : VM!Outcome(st, v).status = st
  BY DEF VM!Outcome
<1>2. \A v : /\ VM!builtin_len(v).status \in Endings
             /\ VM!builtin_type(v).status \in Endings
             /\ VM!builtin_Some(v).status \in Endings
  BY <1>1 DEF VM!builtin_len, VM!builtin_type, VM!builtin_Some, Endings
<1>3. b \in {"len", "type", "Some"}
  BY DEF Runtime
<1>4. VM!Outcome("abort", VM!None).status \in Endings
  BY <1>1 DEF Endings
<1> QED BY <1>2, <1>3, <1>4 DEF VM!BuiltinOutcome

(* The builtin an instruction names is the one registered. *)
LEMMA BuiltinNamed ==
    ASSUME AllUsable(bytecode, Len(globals)), NEW x \in Addresses, Op(bytecode, x) = "BUILTIN"
    PROVE  Vm_builtins[To(bytecode, x)] \in Runtime
PROOF
<1>1. PICK b \in Runtime : FnHash[b] = To(bytecode, x)
  BY DEF AllUsable, Usable, Op, To, Addresses
<1>2. To(bytecode, x) \in 0..MAX_BUILTIN_SIZE - 1
  BY <1>1, HashAssumption
<1> QED BY <1>1, <1>2 DEF Vm_builtins

LEMMA PlainSteps ==
    ASSUME Code, AllUsable(bytecode, Len(globals)), pc \in Nat, UNCHANGED <<bytecode, globals>>,
           \/ VM!LoadG \/ VM!Load \/ VM!LoadV \/ VM!Store \/ VM!Arithmetic \/ VM!Eq
           \/ VM!Args \/ VM!Assert \/ VM!Jmp \/ VM!JmpF
           \/ VM!WriteArguments \/ VM!CallBuiltin \/ VM!Halt
    PROVE  Simple /\ vm_status # "idle" /\ vm_status' # "idle"
PROOF
<1> USE DEF VM!Advance, VM!Result, VM!Stop, VM!frameVars, Simple
<1>1. CASE VM!LoadG
  BY <1>1, Fetched DEF VM!LoadG
<1>2. CASE VM!Load
  BY <1>2, Fetched DEF VM!Load
<1>3. CASE VM!LoadV
  BY <1>3, Fetched DEF VM!LoadV
<1>4. CASE VM!Store
  BY <1>4, Fetched DEF VM!Store
<1>5. CASE VM!Arithmetic
  <2>1. PICK op \in {"ADD", "SUB", "MUL", "DIV"}, st \in Endings :
          /\ VM!Fetch(op)
          /\ IF st = "ok"
             THEN pc' = pc + 1 /\ UNCHANGED <<frames, frame, head, vm_status>>
             ELSE pc' = pc /\ UNCHANGED <<frames, frame, head>> /\ vm_status' = st
    BY <1>5, ArithEnds DEF VM!Arithmetic
  <2>2. vm_status' # "idle" /\ UNCHANGED <<frames, frame, head>> /\ pc' \in {pc, pc + 1}
    BY <2>1, Fetched DEF Endings
  <2> QED BY <2>1, <2>2, Fetched
<1>6. CASE VM!Eq
  BY <1>6, Fetched DEF VM!Eq
<1>7. CASE VM!Args
  BY <1>7, Fetched DEF VM!Args
<1>8. CASE VM!Assert
  BY <1>8, Fetched DEF VM!Assert
<1>9. CASE VM!Jmp
  BY <1>9, Fetched DEF VM!Jmp, Jump
<1>10. CASE VM!JmpF
  BY <1>10, Fetched DEF VM!JmpF, Jump
<1>11. CASE VM!WriteArguments
  BY <1>11, Fetched DEF VM!WriteArguments
<1>12. CASE VM!CallBuiltin
  <2>1. /\ pc \in Addresses /\ Op(bytecode, pc) = "BUILTIN" /\ vm_status = "running"
        /\ VM!Arg = To(bytecode, pc) /\ Vm_builtins[VM!Arg] \notin {"print", "println"}
    BY <1>12, Fetched DEF VM!CallBuiltin
  <2>2. VM!BuiltinOutcome(Vm_builtins[VM!Arg]).status \in Endings
    BY <2>1, BuiltinNamed, BuiltinEnds
  <2>3. PICK st \in Endings :
          IF st = "ok"
          THEN pc' = pc + 1 /\ UNCHANGED <<frames, frame, head, vm_status>>
          ELSE pc' = pc /\ UNCHANGED <<frames, frame, head>> /\ vm_status' = st
    BY <1>12, <2>2 DEF VM!CallBuiltin
  <2>4. vm_status' # "idle" /\ UNCHANGED <<frames, frame, head>> /\ pc' \in {pc, pc + 1}
    BY <2>1, <2>3 DEF Endings
  <2> QED BY <2>1, <2>4
<1>13. CASE VM!Halt
  BY <1>13 DEF VM!Halt
<1> QED
  BY <1>1, <1>2, <1>3, <1>4, <1>5, <1>6, <1>7, <1>8, <1>9, <1>10, <1>11, <1>12, <1>13

LEMMA MachineFacts ==
    ASSUME NEW B, NEW V, NEW n, NEW s, NEW m, NEW t, Machine(B, V, n, s, m, t)
    PROVE  /\ Len(frames) \in Nat /\ \A f \in 1..Len(frames) : frames[f] \in FrameOf(V)
           /\ n \in Nat \ {0} /\ n \in 1..n /\ frame = s[n] /\ frame \in 1..Len(frames)
           /\ \A k \in 1..n : s[k] \in 1..Len(frames)
           /\ m \in Nat /\ \A k \in 1..m : t[k] \in 1..Len(frames)
           /\ frames[frame].prev = IF n = 1 THEN 0 ELSE s[n - 1]
PROOF
<1>1. n \in Nat \ {0} /\ n \in 1..n /\ m \in Nat
  BY DEF Machine, Lists, Listed, Placed
<1>2. Listed(frames, frame, n, s) /\ Listed(frames, head, m, t)
  BY DEF Machine, Lists
<1>3. /\ \A k \in 1..n : s[k] \in 1..Len(frames)
      /\ \A k \in 1..m : t[k] \in 1..Len(frames)
  BY <1>2 DEF Listed
<1>4. frame = s[n] /\ frames[s[n]].prev = IF n = 1 THEN 0 ELSE s[n - 1]
  BY <1>1, <1>2 DEF Listed
<1>5. Len(frames) \in Nat /\ \A f \in 1..Len(frames) : frames[f] \in FrameOf(V)
  BY DEF Machine
<1> QED BY <1>1, <1>3, <1>4, <1>5

(* The machine's names for what the compiler and this module name too. *)
LEMMA Names0 ==
    /\ VM!NULL = 0 /\ VM!None = None
    /\ VM!Zeroed = [prev |-> 0, return_to_bytecode |-> 0,
                    variable_table |-> [h \in 0..VARIABLE_TABLE_SIZE - 1 |-> None]]
BY DEF VM!NULL, VM!None, None, VM!Plain, Plain, VM!Zeroed, VM!Hashes

LEMMA SimpleMachine ==
    ASSUME NEW B, NEW V, NEW n, NEW s, NEW m, NEW t, Machine(B, V, n, s, m, t),
           Simple, Code
    PROVE  Machine(B, V, n, s, m, t)'
PROOF
<1>1. /\ n \in Nat \ {0} /\ n \in 1..n /\ Executable(B) /\ Placed(B, n, s)
      /\ pc \in 0..Len(bytecode) /\ Len(bytecode) \in Nat
  BY MachineFacts DEF Machine, Placed, Code
<1>2. Inside(B, Entry(s, n), pc)
  BY <1>1 DEF Placed, Here
<1>3. Inside(B, Entry(s, n), pc') /\ pc' \in 0..Len(bytecode)
  <2>1. CASE pc' = pc
    BY <1>1, <1>2, <2>1
  <2>2. CASE pc \in Addresses /\ Op(bytecode, pc) \notin {"JMP", "LEAVE"} /\ pc' = pc + 1
    <3>1. Inside(B, Entry(s, n), pc + 1)
      BY <1>1, <1>2, <2>2, Onward
    <3>2. pc + 1 \in 0..Len(bytecode)
      BY <1>1, <2>2 DEF Addresses
    <3> QED BY <2>2, <3>1, <3>2
  <2>3. CASE pc \in Addresses /\ Jump(bytecode, pc) /\ pc' = To(bytecode, pc)
    BY <1>1, <1>2, <2>3, JumpedTo
  <2> QED BY <2>1, <2>2, <2>3 DEF Simple
<1>4. UNCHANGED <<frames, frame, head, bytecode>>
  BY DEF Simple
<1>5. Executable(B)'
  BY <1>1, <1>4 DEF Executable, Addresses, Body, Laminar, Framed, Jump, Leaving, Enters, Op, To, In
<1>6. Placed(B, n, s)'
  <2>1. ASSUME NEW k \in 1..n
        PROVE  Inside(B, Entry(s, k), Here(n, s, k))'
    <3>1. Entry(s, k)' = Entry(s, k)
      BY <1>4 DEF Entry, To
    <3>2. k # n => Here(n, s, k)' = Here(n, s, k)
      BY <1>4 DEF Here
    <3>3. Here(n, s, n)' = pc'
      BY DEF Here
    <3>4. Inside(B, Entry(s, k), Here(n, s, k))
      BY <1>1 DEF Placed
    <3> QED BY <1>3, <3>1, <3>2, <3>3, <3>4 DEF Inside
  <2> QED BY <1>1, <1>3, <1>4, <2>1 DEF Placed, Addresses, Op
<1>7. Lists(frames, frame, head, n, s, m, t)'
  BY <1>4 DEF Machine, Lists, Listed, Divided
<1> QED BY <1>4, <1>5, <1>6, <1>7 DEF Machine

LEMMA Wider ==
    ASSUME NEW B, NEW V, NEW W, NEW n, NEW s, NEW m, NEW t, Machine(B, V, n, s, m, t),
           V \subseteq W
    PROVE  Machine(B, W, n, s, m, t)
PROOF
<1>1. FrameOf(V) \subseteq FrameOf(W)
  BY DEF FrameOf
<1>2. frames \in Seq(FrameOf(W))
  BY <1>1 DEF Machine
<1> QED BY <1>2 DEF Machine

(* A step to frames with the same links and the same returns, the machine  *)
(* going on to the next instruction: OP_VAR.                               *)
LEMMA VarMachine ==
    ASSUME NEW B, NEW V, NEW n, NEW s, NEW m, NEW t, Machine(B, V, n, s, m, t),
           r[0] \in V, Code, UNCHANGED bytecode, VM!Var
    PROVE  Machine(B, V, n, s, m, t)'
PROOF
<1>1. pc \in Nat
  BY DEF Machine, Placed, Code
<1>2. /\ pc \in Addresses /\ Op(bytecode, pc) = "VAR"
      /\ frames' = [frames EXCEPT ![frame].variable_table[VM!Arg] = r[0]]
      /\ frame' = frame /\ head' = head /\ pc' = pc + 1 /\ pc + 1 \in 0..Len(bytecode)
  BY <1>1, Fetched DEF VM!Var, VM!Advance
<1>3. /\ Len(frames) \in Nat /\ \A f \in 1..Len(frames) : frames[f] \in FrameOf(V)
      /\ n \in Nat \ {0} /\ n \in 1..n /\ frame \in 1..Len(frames)
      /\ \A k \in 1..n : s[k] \in 1..Len(frames)
      /\ \A k \in 1..m : t[k] \in 1..Len(frames)
  BY MachineFacts
<1>4. PICK gs : gs = [frames EXCEPT ![frame].variable_table[VM!Arg] = r[0]]
  OBVIOUS
<1>5. gs \in Seq(FrameOf(V)) /\ Len(gs) = Len(frames)
  <2>1. [frames[frame] EXCEPT !.variable_table[VM!Arg] = r[0]] \in FrameOf(V)
    BY <1>3 DEF FrameOf
  <2>2. gs = [frames EXCEPT ![frame] = [frames[frame] EXCEPT !.variable_table[VM!Arg] = r[0]]]
    BY <1>4
  <2> QED BY <1>3, <2>1, <2>2 DEF Machine
<1>6. \A f \in 1..Len(frames) : /\ gs[f].prev = frames[f].prev
                                /\ gs[f].return_to_bytecode = frames[f].return_to_bytecode
  BY <1>3, <1>4 DEF FrameOf, Machine
<1>7. Executable(B)'
  BY DEF Machine, Executable, Addresses, Body, Laminar, Framed, Jump, Leaving, Enters, Op, To, In
<1>8. Lists(gs, frame, head, n, s, m, t)
  BY <1>3, <1>5, <1>6 DEF Machine, Lists, Listed, Divided
<1>9. Placed(B, n, s)'
  <2>1. \A k \in 1..n : frames'[s[k]].return_to_bytecode = frames[s[k]].return_to_bytecode
    BY <1>2, <1>3, <1>4, <1>6
  <2>2. Inside(B, Entry(s, n), pc + 1)
    BY <1>2, <1>3, Onward DEF Machine, Placed, Here
  <2>3. ASSUME NEW k \in 1..n
        PROVE  Inside(B, Entry(s, k), Here(n, s, k))'
    <3>1. Entry(s, k)' = Entry(s, k)
      BY <2>1 DEF Entry, To
    <3>2. k # n => Here(n, s, k)' = Here(n, s, k)
      <4>1. k # n => k + 1 \in 1..n
        BY <1>3
      <4> QED BY <2>1, <4>1 DEF Here
    <3>3. Here(n, s, n)' = pc + 1
      BY <1>2 DEF Here
    <3>4. Inside(B, Entry(s, k), Here(n, s, k))
      BY DEF Machine, Placed
    <3> QED BY <2>2, <3>1, <3>2, <3>3, <3>4 DEF Inside
  <2>4. \A k \in 2..n : LET call == frames[s[k]].return_to_bytecode
                        IN  call \in Addresses /\ Op(bytecode, call) = "CALL"
    BY DEF Machine, Placed
  <2>5. \A k \in 2..n : k \in 1..n
    BY <1>3
  <2> QED BY <1>2, <1>3, <2>1, <2>3, <2>4, <2>5 DEF Placed, Addresses, Op
<1> QED BY <1>2, <1>4, <1>5, <1>7, <1>8, <1>9 DEF Machine

(* A frame is entered whose links and return are as OP_CALL sets them.     *)
LEMMA CalledPlaced ==
    ASSUME NEW B, NEW V, NEW n, NEW s, NEW m, NEW t, Machine(B, V, n, s, m, t),
           Code, UNCHANGED bytecode, pc \in Addresses, Op(bytecode, pc) = "CALL",
           NEW f, frames'[f].return_to_bytecode = pc,
           \A k \in 1..n : frames'[s[k]].return_to_bytecode = frames[s[k]].return_to_bytecode,
           pc' = To(bytecode, pc) + 1
    PROVE  Placed(B, n + 1, Pushed(n, s, f))'
PROOF
<1> DEFINE u == Pushed(n, s, f)
<1>1. n \in Nat \ {0} /\ n \in 1..n
  BY MachineFacts
<1>2. u[n + 1] = f /\ \A k \in 1..n : u[k] = s[k]
  BY <1>1 DEF Pushed
<1> HIDE DEF u
<1>3. Executable(B) /\ bytecode \in Seq(InstrType)
  BY DEF Machine, Code
<1>4. /\ Inside(B, To(bytecode, pc), pc')
      /\ pc' \in 0..Len(bytecode)
  BY <1>3, CallEnters
<1>5. \A k \in 1..n + 1 :
        frames'[u[k]].return_to_bytecode
            = IF k = n + 1 THEN pc ELSE frames[s[k]].return_to_bytecode
  <2> TAKE k \in 1..n + 1
  <2>1. k \in 1..n \/ k = n + 1
    BY <1>1
  <2>2. ~(n + 1 \in 1..n)
    BY <1>1
  <2> QED BY <1>2, <2>1, <2>2
<1>6. ASSUME NEW k \in 2..n + 1
      PROVE  LET call == frames'[u[k]].return_to_bytecode
             IN  call \in Addresses /\ Op(bytecode, call) = "CALL"
  <2>1. CASE k = n + 1
    BY <1>1, <1>5, <2>1
  <2>2. CASE k # n + 1
    <3>1. k \in 2..n /\ k \in 1..n + 1
      BY <1>1, <2>2
    <3> QED BY <1>5, <2>2, <3>1 DEF Machine, Placed
  <2> QED BY <2>1, <2>2
<1>7. ASSUME NEW k \in 1..n + 1
      PROVE  Inside(B, Entry(u, k), Here(n + 1, u, k))'
  <2>1. CASE k = n + 1
    <3>1. Here(n + 1, u, k)' = pc'
      BY <2>1 DEF Here
    <3>2. Entry(u, k)' = To(bytecode, pc)
      BY <1>1, <1>5, <2>1 DEF Entry, To
    <3> QED BY <1>4, <3>1, <3>2 DEF Inside
  <2>2. CASE k # n + 1
    <3>1. k \in 1..n /\ k + 1 \in 1..n + 1 /\ (k = n <=> k + 1 = n + 1)
      BY <1>1, <2>2
    <3>2. Here(n + 1, u, k)' = Here(n, s, k)
      BY <1>5, <2>2, <3>1 DEF Here
    <3>3. Entry(u, k)' = Entry(s, k)
      BY <1>5, <2>2, <3>1 DEF Entry, To
    <3>4. Inside(B, Entry(s, k), Here(n, s, k))
      BY <3>1 DEF Machine, Placed
    <3> QED BY <3>2, <3>3, <3>4 DEF Inside
  <2> QED BY <2>1, <2>2
<1>8. n + 1 > 0
  BY <1>1
<1> QED BY <1>4, <1>6, <1>7, <1>8 DEF Placed, u, Addresses, Op

(* The link and the return of a frame are assigned. *)
Linking(fs, f, p, q) == [fs EXCEPT ![f].prev = p, ![f].return_to_bytecode = q]

LEMMA LinkSet ==
    ASSUME NEW V, NEW fs \in Seq(FrameOf(V)), NEW f \in 1..Len(fs), NEW p \in Nat, NEW q \in Nat,
           NEW gs, gs = Linking(fs, f, p, q)
    PROVE  /\ gs \in Seq(FrameOf(V)) /\ Len(gs) = Len(fs)
           /\ gs[f].prev = p /\ gs[f].return_to_bytecode = q
           /\ gs[f].variable_table = fs[f].variable_table
           /\ \A x \in 1..Len(fs) : x # f => gs[x] = fs[x]
PROOF
<1>1. fs[f] \in FrameOf(V) /\ Len(fs) \in Nat
  OBVIOUS
<1>2. PICK a : a = [fs[f] EXCEPT !.prev = p]
  OBVIOUS
<1>3. a \in FrameOf(V) /\ a.prev = p /\ a.variable_table = fs[f].variable_table
  BY <1>1, <1>2 DEF FrameOf
<1>4. PICK hs : hs = [fs EXCEPT ![f] = a]
  OBVIOUS
<1>5. /\ hs \in Seq(FrameOf(V)) /\ Len(hs) = Len(fs) /\ hs[f] = a
      /\ \A x \in 1..Len(fs) : x # f => hs[x] = fs[x]
  BY <1>1, <1>3, <1>4
<1>6. gs = [hs EXCEPT ![f].return_to_bytecode = q]
  BY <1>2, <1>4 DEF Linking
<1>7. PICK b : b = [a EXCEPT !.return_to_bytecode = q]
  OBVIOUS
<1>8. /\ b \in FrameOf(V) /\ b.prev = p /\ b.return_to_bytecode = q
      /\ b.variable_table = fs[f].variable_table
  BY <1>3, <1>7 DEF FrameOf
<1>9. gs = [hs EXCEPT ![f] = b]
  BY <1>5, <1>6, <1>7
<1>10. /\ gs \in Seq(FrameOf(V)) /\ Len(gs) = Len(fs) /\ gs[f] = b
       /\ \A x \in 1..Len(fs) : x # f => gs[x] = hs[x]
  BY <1>1, <1>5, <1>8, <1>9
<1> QED BY <1>5, <1>8, <1>10

LEMMA CallMachine ==
    ASSUME NEW B, NEW V, NEW n, NEW s, NEW m, NEW t, Machine(B, V, n, s, m, t),
           Code, UNCHANGED bytecode, VM!Call
    PROVE  /\ \E f, l, u : f = frame' /\ Machine(B, V, n + 1, Pushed(n, s, f), l, u)'
           /\ \A k \in 1..n : s[k] # frame' /\ frames'[s[k]] = frames[s[k]]
PROOF
<1>1. pc \in Nat
  BY DEF Machine, Placed, Code
<1>2. /\ pc \in Addresses /\ Op(bytecode, pc) = "CALL" /\ VM!Arg = To(bytecode, pc)
      /\ To(bytecode, pc) \in Nat
      /\ pc' = To(bytecode, pc) + 1
  BY <1>1, Fetched, CallEnters DEF VM!Call, Machine, Code
<1>3. /\ Len(frames) \in Nat /\ \A f \in 1..Len(frames) : frames[f] \in FrameOf(V)
      /\ n \in Nat \ {0} /\ n \in 1..n /\ frame \in 1..Len(frames)
      /\ \A k \in 1..n : s[k] \in 1..Len(frames)
      /\ m \in Nat /\ \A k \in 1..m : t[k] \in 1..Len(frames)
      /\ frames \in Seq(FrameOf(V)) /\ None \in V
  BY MachineFacts DEF Machine
<1>4. Executable(B)'
  BY DEF Machine, Executable, Addresses, Body, Laminar, Framed, Jump, Leaving, Enters, Op, To, In
<1>5. Lists(frames, frame, head, n, s, m, t)
  BY DEF Machine
<1>6. CASE head = 0
  <2>0. PICK f, z, fs : f = Len(frames) + 1 /\ z = VM!Zeroed /\ fs = Append(frames, z)
    OBVIOUS
  <2>1. /\ frames' = Linking(fs, f, frame, pc) /\ frame' = f /\ head' = 0
    BY <1>6, <2>0, Names0 DEF VM!Call, VM!Pop, Linking
  <2>2. z \in FrameOf(V)
    BY <1>3, <2>0, Names0 DEF FrameOf
  <2>3. /\ fs \in Seq(FrameOf(V)) /\ Len(fs) = f /\ f \in 1..Len(fs)
        /\ \A x \in 1..Len(frames) : x \in 1..Len(fs) /\ x # f /\ fs[x] = frames[x]
    BY <1>3, <2>0, <2>2
  <2>4. frame \in Nat /\ pc \in Nat
    BY <1>1, <1>3
  <2>5. /\ frames' \in Seq(FrameOf(V)) /\ Len(frames') = Len(fs)
        /\ frames'[f].prev = frame /\ frames'[f].return_to_bytecode = pc
        /\ \A x \in 1..Len(fs) : x # f => frames'[x] = fs[x]
    BY <2>1, <2>3, <2>4, LinkSet
  <2>7. \A x \in 1..Len(frames) : x # f /\ frames'[x] = frames[x]
    BY <2>3, <2>5
  <2>8. Lists(frames', f, 0, n + 1, Pushed(n, s, f), m, t)
    <3>1. Lists(frames, frame, 0, n, s, m, t)
      BY <1>5, <1>6
    <3>2. /\ Len(frames) \in Nat /\ Len(frames') = Len(frames) + 1 /\ f = Len(frames')
          /\ frames'[Len(frames')].prev = frame
          /\ \A x \in 1..Len(frames) : frames'[x].prev = frames[x].prev
      BY <1>3, <2>0, <2>3, <2>5, <2>7
    <3> QED BY <3>1, <3>2, CallFromHeap
  <2>9. \A k \in 1..n : s[k] # f /\ frames'[s[k]] = frames[s[k]]
    BY <1>3, <2>7
  <2>10. frames'[f].return_to_bytecode = pc
    BY <2>5
  <2>11. Placed(B, n + 1, Pushed(n, s, f))'
    BY <1>2, <2>9, <2>10, CalledPlaced
  <2>12. Machine(B, V, n + 1, Pushed(n, s, f), m, t)'
    BY <1>3, <1>4, <2>1, <2>5, <2>8, <2>11 DEF Machine
  <2> QED BY <2>1, <2>9, <2>12
<1>7. CASE head # 0
  <2>0. PICK hd : hd = head
    OBVIOUS
  <2>1. /\ frames' = [[frames EXCEPT ![hd].prev = 0]
                          EXCEPT ![hd].prev = frame, ![hd].return_to_bytecode = pc]
        /\ frame' = hd /\ head' = frames[hd].prev
    BY <1>7, <2>0, Names0 DEF VM!Call, VM!Pop
  <2>2. hd \in 1..Len(frames) /\ frame \in Nat /\ pc \in Nat
    BY <1>1, <1>3, <1>5, <1>7, <2>0 DEF Lists, Listed
  <2>3. PICK fs : fs = [frames EXCEPT ![hd].prev = 0]
    OBVIOUS
  <2>4. /\ fs \in Seq(FrameOf(V)) /\ Len(fs) = Len(frames)
        /\ \A x \in 1..Len(frames) : x # hd => fs[x] = frames[x]
    <3>1. PICK a : a = [frames[hd] EXCEPT !.prev = 0]
      OBVIOUS
    <3>2. a \in FrameOf(V) /\ fs = [frames EXCEPT ![hd] = a]
      BY <1>3, <2>2, <2>3, <3>1 DEF FrameOf
    <3> QED BY <1>3, <2>2, <3>2
  <2>5. /\ frames' \in Seq(FrameOf(V)) /\ Len(frames') = Len(fs)
        /\ frames'[hd].prev = frame /\ frames'[hd].return_to_bytecode = pc
        /\ \A x \in 1..Len(fs) : x # hd => frames'[x] = fs[x]
    <3>1. frames' = Linking(fs, hd, frame, pc)
      BY <2>1, <2>3 DEF Linking
    <3>2. hd \in 1..Len(fs)
      BY <2>2, <2>4
    <3> QED BY <2>2, <2>4, <3>1, <3>2, LinkSet
  <2>6. /\ Len(frames') = Len(frames)
        /\ \A x \in 1..Len(frames) : x # hd => frames'[x] = frames[x]
    BY <2>4, <2>5
  <2>7. Relinked(frames, frames', hd, frame)
    BY <2>5, <2>6 DEF Relinked
  <2>8. Lists(frames', hd, frames[hd].prev, n + 1, Pushed(n, s, hd), m - 1, Popped(m, t))
        /\ m > 0 /\ hd = t[m]
    BY <1>3, <1>5, <1>7, <2>0, <2>7, CallFromList
  <2>9. \A k \in 1..n : s[k] # hd /\ frames'[s[k]] = frames[s[k]]
    <3>1. m \in 1..m
      BY <1>3, <2>8
    <3>2. \A k \in 1..n : s[k] # hd
      BY <1>5, <2>8, <3>1 DEF Lists, Divided
    <3> QED BY <1>3, <2>6, <3>2
  <2>10. Placed(B, n + 1, Pushed(n, s, hd))'
    BY <1>2, <2>5, <2>6, <2>9, CalledPlaced
  <2>11. Machine(B, V, n + 1, Pushed(n, s, hd), m - 1, Popped(m, t))'
    BY <1>3, <1>4, <2>1, <2>5, <2>8, <2>10 DEF Machine
  <2> QED BY <2>1, <2>9, <2>11
<1> QED BY <1>6, <1>7

(* OP_LEAVE is inside a call: it takes the top frame off and goes on       *)
(* behind the instruction the frame was entered by.                        *)
LEMMA LeaveNested ==
    ASSUME NEW B, NEW V, NEW n, NEW s, NEW m, NEW t, Machine(B, V, n, s, m, t),
           Code, VM!Fetch("LEAVE")
    PROVE  n > 1 /\ frames[frame].prev = s[n - 1] /\ s[n - 1] \in 1..Len(frames)
PROOF
<1>1. /\ n \in Nat \ {0} /\ n \in 1..n /\ Executable(B)
      /\ frames[frame].prev = IF n = 1 THEN 0 ELSE s[n - 1]
      /\ \A k \in 1..n : s[k] \in 1..Len(frames)
  BY MachineFacts DEF Machine
<1>2. pc \in Addresses /\ Op(bytecode, pc) = "LEAVE"
  BY Fetched DEF Machine, Placed, Code
<1>3. Inside(B, Entry(s, n), pc)
  BY <1>1 DEF Machine, Placed, Here
<1>4. n # 1
  BY <1>1, <1>2, <1>3, LeaveInside DEF Entry
<1>5. n - 1 \in 1..n
  BY <1>1, <1>4
<1> QED BY <1>1, <1>4, <1>5

LEMMA LeaveMachine ==
    ASSUME NEW B, NEW V, NEW n, NEW s, NEW m, NEW t, Machine(B, V, n, s, m, t),
           Code, UNCHANGED bytecode, VM!Leave
    PROVE  /\ n > 1
           /\ \E l, u : Machine(B, V, n - 1, Popped(n, s), l, u)'
           /\ \A k \in 1..n - 1 : frames'[s[k]] = frames[s[k]]
PROOF
<1>1. pc \in Nat /\ VM!Fetch("LEAVE")
  BY DEF Machine, Placed, Code, VM!Leave
<1>2. /\ Len(frames) \in Nat /\ \A x \in 1..Len(frames) : frames[x] \in FrameOf(V)
      /\ n \in Nat \ {0} /\ n \in 1..n /\ frame \in 1..Len(frames) /\ frame = s[n]
      /\ \A k \in 1..n : s[k] \in 1..Len(frames)
      /\ m \in Nat /\ frames \in Seq(FrameOf(V))
  BY MachineFacts DEF Machine
<1>3. n > 1 /\ frames[frame].prev = s[n - 1] /\ s[n - 1] \in 1..Len(frames)
  BY <1>1, LeaveNested
<1>4. PICK f, h, q : f = frame /\ h = head /\ q = frames[frame].prev
  OBVIOUS
<1>5. /\ pc' = frames[f].return_to_bytecode + 1 /\ frame' = q /\ head' = f
      /\ frames' = Linking(frames, f, h, 0)
  BY <1>2, <1>3, <1>4, Names0 DEF VM!Leave, VM!Push, Linking
<1>6. Lists(frames, f, h, n, s, m, t)
  BY <1>4 DEF Machine
<1>7. h \in Nat
  BY <1>2, <1>6 DEF Lists, Listed
<1>8. /\ frames' \in Seq(FrameOf(V)) /\ Len(frames') = Len(frames)
      /\ frames'[f].prev = h
      /\ \A x \in 1..Len(frames) : x # f => frames'[x] = frames[x]
  BY <1>2, <1>4, <1>5, <1>7, LinkSet
<1>9. Relinked(frames, frames', f, h)
  BY <1>8 DEF Relinked
<1>10. Lists(frames', q, f, n - 1, Popped(n, s), m + 1, Pushed(m, t, f))
  BY <1>2, <1>4, <1>6, <1>9, LeaveToList
<1>11. \A k \in 1..n - 1 : k \in 1..n /\ s[k] # f
  BY <1>2, <1>4, <1>6 DEF Lists, Listed
<1>12. \A k \in 1..n - 1 : frames'[s[k]] = frames[s[k]]
  BY <1>2, <1>8, <1>11
<1>13. Executable(B)'
  BY DEF Machine, Executable, Addresses, Body, Laminar, Framed, Jump, Leaving, Enters, Op, To, In
<1> DEFINE u == Popped(n, s)
<1>14. \A k \in 1..n - 1 : u[k] = s[k]
  BY <1>2 DEF Popped
<1> HIDE DEF u
<1>15. /\ frames[f].return_to_bytecode \in Addresses
       /\ Op(bytecode, frames[f].return_to_bytecode) = "CALL"
  <2>1. n \in 2..n
    BY <1>2, <1>3
  <2> QED BY <1>2, <1>4, <2>1 DEF Machine, Placed
<1>16. /\ Inside(B, Entry(s, n - 1), pc')
       /\ pc' \in 0..Len(bytecode)
  <2>1. n - 1 \in 1..n /\ n - 1 # n /\ n - 1 + 1 = n
    BY <1>2, <1>3
  <2>2. Here(n, s, n - 1) = frames[f].return_to_bytecode
    BY <1>2, <1>4, <2>1 DEF Here
  <2>3. Inside(B, Entry(s, n - 1), frames[f].return_to_bytecode)
    BY <2>1, <2>2 DEF Machine, Placed
  <2>4. Inside(B, Entry(s, n - 1), frames[f].return_to_bytecode + 1)
    BY <1>15, <2>3, Onward DEF Machine
  <2>5. frames[f].return_to_bytecode + 1 \in 0..Len(bytecode)
    BY <1>15 DEF Addresses, Code
  <2> QED BY <1>5, <2>4, <2>5
<1>17. Placed(B, n - 1, u)'
  <2>1. ASSUME NEW k \in 1..n - 1
        PROVE  Inside(B, Entry(u, k), Here(n - 1, u, k))'
    <3>1. Entry(u, k)' = Entry(s, k)
      BY <1>12, <1>14 DEF Entry, To
    <3>2. CASE k = n - 1
      <4>1. Here(n - 1, u, k)' = pc'
        BY <3>2 DEF Here
      <4> QED BY <1>16, <3>1, <3>2, <4>1 DEF Inside
    <3>3. CASE k # n - 1
      <4>1. k + 1 \in 1..n - 1 /\ k # n /\ k \in 1..n
        BY <1>2, <3>3
      <4>2. Here(n - 1, u, k)' = Here(n, s, k)
        BY <1>12, <1>14, <3>3, <4>1 DEF Here
      <4>3. Inside(B, Entry(s, k), Here(n, s, k))
        BY <4>1 DEF Machine, Placed
      <4> QED BY <3>1, <4>2, <4>3 DEF Inside
    <3> QED BY <3>2, <3>3
  <2>2. ASSUME NEW k \in 2..n - 1
        PROVE  LET call == frames'[u[k]].return_to_bytecode
               IN  call \in Addresses /\ Op(bytecode, call) = "CALL"
    <3>1. k \in 2..n /\ k \in 1..n - 1
      BY <1>2
    <3> QED BY <1>12, <1>14, <3>1 DEF Machine, Placed
  <2>3. n - 1 > 0
    BY <1>2, <1>3
  <2> QED BY <1>16, <2>1, <2>2, <2>3 DEF Placed, Addresses, Op
<1>18. Machine(B, V, n - 1, u, m + 1, Pushed(m, t, f))'
  BY <1>5, <1>8, <1>10, <1>13, <1>17 DEF Machine, u
<1> QED BY <1>3, <1>12, <1>18 DEF u

LEMMA FunctionSeq ==
    ASSUME NEW X, NEW n \in Nat, NEW q \in [1..n -> X]
    PROVE  q \in Seq(X) /\ Len(q) = n
OBVIOUS

(* Vm_run starts with the root frame, every other preallocated one free.   *)
LEMMA BootMachine ==
    ASSUME NEW B, NEW V, None \in V, Executable(B), Code, UNCHANGED bytecode, VM!Init, VM!Boot
    PROVE  \E s, m, t : Machine(B, V, 1, s, m, t)'
PROOF
<1>0. PICK empty : empty = [h \in 0..VARIABLE_TABLE_SIZE - 1 |-> None]
  OBVIOUS
<1> DEFINE N == PREALLOCATE_FREELIST_SIZE
           Fresh0(p) == [prev |-> p, return_to_bytecode |-> 0, variable_table |-> empty]
<1>1. N \in Nat
  BY SizeAssumption
<1>2. \A p \in Nat : Fresh0(p) \in FrameOf(V) /\ Fresh0(p).prev = p
  BY <1>0 DEF FrameOf
<1>3. \A p \in Nat : [VM!Zeroed EXCEPT !.prev = p] = Fresh0(p)
  <2>1. VM!Zeroed = [prev |-> 0, return_to_bytecode |-> 0, variable_table |-> empty]
    BY <1>0, Names0
  <2> QED BY <2>1
<1>4. VM!Zeroed = Fresh0(0)
  BY <1>0, Names0
<1> HIDE DEF N, Fresh0
<1>5. PICK f, s, m, t, fs :
        /\ f = IF N = 0 THEN 1 ELSE N
        /\ s = [k \in 1..1 |-> f]
        /\ m = IF N = 0 THEN 0 ELSE N - 1
        /\ t = [k \in 1..m |-> k]
        /\ fs = [x \in 1..f |-> IF x = f THEN Fresh0(0) ELSE Fresh0(x - 1)]
  OBVIOUS
<1>6. f \in Nat \ {0} /\ m \in Nat /\ m + 1 = f
  BY <1>1, <1>5
<1>7. /\ fs \in Seq(FrameOf(V)) /\ Len(fs) = f
      /\ \A x \in 1..f : fs[x].prev = IF x = f THEN 0 ELSE x - 1
  <2>1. ASSUME NEW x \in 1..f PROVE fs[x] \in FrameOf(V)
    <3>1. x - 1 \in Nat /\ Fresh0(0) \in FrameOf(V) /\ Fresh0(x - 1) \in FrameOf(V)
      BY <1>2, <1>6
    <3>2. fs[x] = IF x = f THEN Fresh0(0) ELSE Fresh0(x - 1)
      BY <1>5
    <3> QED BY <3>1, <3>2
  <2>2. fs \in [1..f -> FrameOf(V)]
    BY <1>5, <2>1
  <2>3. fs \in Seq(FrameOf(V)) /\ Len(fs) = f
    BY <1>6, <2>2, FunctionSeq
  <2>4. \A x \in 1..f : fs[x].prev = IF x = f THEN 0 ELSE x - 1
    BY <1>2, <1>5, <1>6
  <2> QED BY <2>3, <2>4
<1>8. frames' = fs /\ frame' = f /\ head' = m
  <2>1. PICK ps : ps = [x \in 1..N |-> Fresh0(x - 1)]
    OBVIOUS
  <2>2. VM!Preallocated = ps
    BY <1>1, <1>3, <2>1 DEF VM!Preallocated, N
  <2>3. ps \in Seq(FrameOf(V)) /\ Len(ps) = N
    <3>1. ps \in [1..N -> FrameOf(V)]
      BY <1>1, <1>2, <2>1
    <3> QED BY <1>1, <3>1, FunctionSeq
  <2>4. CASE N = 0
    <3>1. frames' = Append(ps, Fresh0(0)) /\ frame' = N + 1 /\ head' = 0
      BY <1>4, <2>2, <2>3, <2>4, Names0 DEF VM!Boot, VM!Pop, N
    <3>2. Append(ps, Fresh0(0)) = [x \in 1..1 |-> Fresh0(0)]
      BY <1>2, <2>3, <2>4
    <3>3. fs = [x \in 1..1 |-> Fresh0(0)]
      BY <1>5, <2>4
    <3> QED BY <1>5, <2>4, <3>1, <3>2, <3>3
  <2>5. CASE N # 0
    <3>1. frames' = [ps EXCEPT ![N].prev = 0] /\ frame' = N /\ head' = ps[N].prev
      BY <2>2, <2>5, Names0 DEF VM!Boot, VM!Pop, N
    <3>2. ps[N] = Fresh0(N - 1) /\ ps[N].prev = N - 1
      BY <1>1, <1>2, <2>1, <2>5
    <3>3. [Fresh0(N - 1) EXCEPT !.prev = 0] = Fresh0(0)
      BY DEF Fresh0
    <3>4. [ps EXCEPT ![N].prev = 0] = [ps EXCEPT ![N] = Fresh0(0)]
      BY <3>2, <3>3
    <3>5. [ps EXCEPT ![N] = Fresh0(0)] = fs
      BY <1>1, <1>5, <2>1, <2>5
    <3> QED BY <1>5, <2>5, <3>1, <3>2, <3>4, <3>5
  <2> QED BY <2>4, <2>5
<1>9. Lists(fs, f, m, 1, s, m, t)
  <2>0. /\ \A k \in 1..1 : k = 1 /\ s[k] = f
        /\ \A k \in 1..m : t[k] = k /\ k \in 1..f /\ k # f
        /\ s \in [1..1 -> 1..f] /\ t \in [1..m -> 1..f] /\ 1 \in 1..1 /\ f \in 1..f
    BY <1>5, <1>6
  <2>1. Listed(fs, f, 1, s)
    BY <1>7, <2>0 DEF Listed
  <2>2. Listed(fs, m, m, t)
    <3>1. \A k \in 1..m : fs[t[k]].prev = IF k = 1 THEN 0 ELSE t[k - 1]
      <4> TAKE k \in 1..m
      <4>1. fs[k].prev = k - 1 /\ t[k] = k
        BY <1>7, <2>0
      <4>2. k # 1 => k - 1 \in 1..m
        BY <1>6
      <4>3. k # 1 => t[k - 1] = k - 1
        BY <2>0, <4>2
      <4> QED BY <1>6, <4>1, <4>3
    <3>2. m = IF m = 0 THEN 0 ELSE t[m]
      <4>1. m # 0 => m \in 1..m
        BY <1>6
      <4> QED BY <2>0, <4>1
    <3>3. \A j, k \in 1..m : t[j] = t[k] => j = k
      BY <2>0
    <3> QED BY <1>6, <1>7, <2>0, <3>1, <3>2, <3>3 DEF Listed
  <2>3. Divided(fs, 1, s, m, t)
    <3>1. \A x \in 1..f : x = f \/ x \in 1..m
      BY <1>6
    <3>2. \A x \in 1..f : (\E j \in 1..1 : s[j] = x) \/ (\E k \in 1..m : t[k] = x)
      BY <2>0, <3>1
    <3>3. 1 + m = Len(fs)
      BY <1>6, <1>7
    <3>4. \A j \in 1..1, k \in 1..m : s[j] # t[k]
      BY <2>0
    <3> QED BY <1>7, <3>2, <3>3, <3>4 DEF Divided
  <2> QED BY <2>1, <2>2, <2>3 DEF Lists
<1>10. Executable(B)'
  BY DEF Executable, Addresses, Body, Laminar, Framed, Jump, Leaving, Enters, Op, To, In
<1>11. Placed(B, 1, s)'
  <2>1. pc' = 0
    BY DEF VM!Init, VM!Boot
  <2>2. \A c \in B : ~In(c, 0)
    BY DEF In, Executable, Body
  <2>3. Inside(B, -1, 0)
    BY <2>2 DEF Inside
  <2>4. \A k \in 1..1 : k = 1
    OBVIOUS
  <2>5. Inside(B, Entry(s, 1), Here(1, s, 1))'
    BY <2>1, <2>3 DEF Inside, Entry, Here
  <2>6. pc' \in 0..Len(bytecode') /\ 2..1 = {}
    BY <2>1 DEF Code
  <2> QED BY <2>4, <2>5, <2>6 DEF Placed
<1> QED BY <1>7, <1>8, <1>9, <1>10, <1>11 DEF Machine

-----------------------------------------------------------------------------
(* Every step keeps the invariant                                          *)

(* what is proved of the compiler *)
CodeInv == IInv /\ Laid /\ Tied /\ Through /\ Operands

LEMMA NextCompiles == Next => status = "compiling"
PROOF
<1> USE DEF At, AtConstruct
<1>1. CompileTop \/ Done \/ CompileBool => status = "compiling"
  BY DEF CompileTop, Done, CompileBool
<1>2. CompileCached \/ CompileLiteral \/ CompileAggregate \/ OutOfGlobals \/ CompileIdent
      => status = "compiling"
  BY DEF CompileCached, CompileLiteral, IsLiteral, CompileAggregate, IsEmptyAggregate,
         OutOfGlobals, CompileIdent
<1>3. NextOperand \/ SingleOperand \/ CompileBin => status = "compiling"
  BY DEF NextOperand, SingleOperand, CompileBin
<1>4. CompileElidedCall \/ NextArgument \/ StoreOperand \/ OutOfRegisters
      \/ EmitBuiltin \/ EmitCall => status = "compiling"
  BY DEF CompileElidedCall, ElidedCall, Callable, NextArgument, AtArguments, IsRuntimeCall,
         StoreOperand, Storing, OutOfRegisters, EmitBuiltin, EmitCall
<1>5. CompileNone \/ AssertChild \/ CompileAssert \/ LetValue \/ LetBind
      => status = "compiling"
  BY DEF CompileNone, AssertChild, CompileAssert, LetValue, LetBind
<1>6. MatchCondition \/ MatchBody \/ MatchCaseEnd \/ MatchDefault \/ MatchDefaultEnd
      \/ MatchEnd \/ MatchGarbage => status = "compiling"
  BY DEF MatchCondition, MatchBody, MatchCaseEnd, MatchDefault, MatchDefaultEnd,
         MatchEnd, MatchGarbage, AtCase, AtMatchEnd
<1>7. FunctionEmpty \/ FunctionHeader \/ FunctionBody \/ FunctionEnd => status = "compiling"
  BY DEF FunctionEmpty, FunctionHeader, FunctionBody, FunctionEnd, AtFunction
<1>8. Reject \/ NullToken => status = "compiling"
  BY DEF Reject, Rejected, IsLiteral, AtFunction, AtCase, NullToken
<1> QED BY <1>1, <1>2, <1>3, <1>4, <1>5, <1>6, <1>7, <1>8 DEF Next

(* Until the machine runs only the compiler does, and never afterwards. *)
LEMMA MainSteps ==
    ASSUME MachineInv, [MainNext]_vars
    PROVE  /\ [Next]_ccVars
           /\ \/ UNCHANGED machineVars /\ (vm_status # "idle" => UNCHANGED ccVars)
              \/ Vm_run
PROOF
<1>1. CASE cc
  BY <1>1, NextCompiles DEF cc, MachineInv
<1>2. CASE Vm_run
  BY <1>2 DEF Vm_run
<1>3. CASE UNCHANGED vars
  BY <1>3 DEF vars
<1> QED BY <1>1, <1>2, <1>3 DEF MainNext

LEMMA StepCode ==
    ASSUME CodeInv, NoneRedefined, [Next]_ccVars
    PROVE  CodeInv'
PROOF
<1>1. IInv'
  <2>1. CASE Next
    BY <2>1, NextStep DEF Step, CodeInv
  <2>2. CASE UNCHANGED ccVars
    BY <2>2, StutterStep DEF Step, CodeInv
  <2> QED BY <2>1, <2>2
<1>2. Laid' /\ Tied' /\ Through' /\ Operands'
  BY <1>1, StepLaid, StepTied, StepThrough, StepOperands DEF CodeInv
<1> QED BY <1>1, <1>2 DEF CodeInv

(* What a step of the machine is to the frames. *)
LEMMA VmSteps ==
    ASSUME CodeInv, MachineInv, Vm_run
    PROVE  /\ status = "done" /\ UNCHANGED <<ccVars, bytecode, globals>> /\ Code
           /\ AllUsable(bytecode, Len(globals))
           /\ \/ vm_status = "idle" /\ VM!Init /\ VM!Boot
              \/ /\ \E B, V, n, s, m, t : Machine(B, V, n, s, m, t)
                 /\ vm_status # "idle" /\ vm_status' # "idle"
                 /\ Simple \/ VM!Var \/ VM!Call \/ VM!Leave
PROOF
<1>1. /\ status = "done" /\ UNCHANGED <<ccVars, bytecode, globals>> /\ Code
      /\ AllUsable(bytecode, Len(globals)) /\ VM!Next
  BY DEF Vm_run, CodeInv, IInv, Operands, Alive, ccVars
<1>2. CASE VM!Boot
  BY <1>1, <1>2 DEF VM!Boot, MachineInv
<1>3. CASE ~VM!Boot
  <2>1. vm_status = "running"
    BY <1>1, <1>3 DEF VM!Next, VM!LoadG, VM!Load, VM!LoadV, VM!Store, VM!Var, VM!Arithmetic,
       VM!Eq, VM!Args, VM!Assert, VM!Jmp, VM!JmpF, VM!WriteArguments, VM!CallBuiltin,
       VM!Call, VM!Leave, VM!Halt, VM!Fetch, VM!Running
  <2>2. \E B, V, n, s, m, t : Machine(B, V, n, s, m, t)
    BY <2>1 DEF MachineInv
  <2>3. pc \in Nat
    BY <1>1, <2>2 DEF Machine, Placed, Code
  <2>4. CASE VM!Var \/ VM!Call \/ VM!Leave
    BY <1>1, <2>1, <2>2, <2>4 DEF VM!Var, VM!Call, VM!Leave
  <2>5. CASE ~(VM!Var \/ VM!Call \/ VM!Leave)
    <3>1. Simple /\ vm_status' # "idle"
      BY <1>1, <1>3, <2>3, <2>5, PlainSteps DEF VM!Next
    <3> QED BY <1>1, <2>1, <2>2, <3>1
  <2> QED BY <2>4, <2>5
<1> QED BY <1>2, <1>3

LEMMA StepMachine ==
    ASSUME CodeInv, MachineInv, [MainNext]_vars
    PROVE  MachineInv'
PROOF
<1>1. CASE UNCHANGED machineVars /\ vm_status = "idle"
  BY <1>1 DEF machineVars, MachineInv, VM!Init
<1>2. CASE UNCHANGED machineVars /\ UNCHANGED ccVars /\ vm_status # "idle"
  <2>1. PICK B, V, n, s, m, t : Machine(B, V, n, s, m, t)
    BY <1>2 DEF MachineInv
  <2>2. Simple /\ Code
    BY <1>2 DEF Simple, machineVars, ccVars, CodeInv, IInv
  <2>3. Machine(B, V, n, s, m, t)'
    BY <2>1, <2>2, SimpleMachine
  <2> QED BY <1>2, <2>3 DEF MachineInv, machineVars, ccVars
<1>3. CASE Vm_run
  <2>1. status' = "done" /\ UNCHANGED bytecode /\ Code
    BY <1>3, VmSteps DEF ccVars
  <2>2. CASE VM!Init /\ VM!Boot
    <3>0. None \in {None}
      OBVIOUS
    <3>1. PICK B : Executable(B)
      BY <1>3, VmSteps, CodeExecutable DEF CodeInv
    <3>2. \E s, m, t : Machine(B, {None}, 1, s, m, t)'
      BY <2>1, <2>2, <3>1, <3>0, BootMachine
    <3> QED BY <2>1, <2>2, <3>2 DEF MachineInv, VM!Boot
  <2>3. CASE ~(VM!Init /\ VM!Boot)
    <3>1. /\ vm_status' # "idle"
          /\ Simple \/ VM!Var \/ VM!Call \/ VM!Leave
          /\ \E B, V, n, s, m, t : Machine(B, V, n, s, m, t)
      BY <1>3, <2>3, VmSteps
    <3>2. PICK B, V0, n, s, m, t : Machine(B, V0, n, s, m, t)
      BY <3>1
    <3>3. PICK V : V = V0 \cup {r[0]}
      OBVIOUS
    <3>4. Machine(B, V, n, s, m, t) /\ r[0] \in V
      BY <3>2, <3>3, Wider
    <3>5. CASE Simple
      <4>1. Machine(B, V, n, s, m, t)'
        BY <2>1, <3>4, <3>5, SimpleMachine
      <4> QED BY <2>1, <3>1, <4>1 DEF MachineInv
    <3>6. CASE VM!Var
      <4>1. Machine(B, V, n, s, m, t)'
        BY <2>1, <3>4, <3>6, VarMachine
      <4> QED BY <2>1, <3>1, <4>1 DEF MachineInv
    <3>7. CASE VM!Call
      <4>1. \E f, l, u : Machine(B, V, n + 1, Pushed(n, s, f), l, u)'
        BY <2>1, <3>4, <3>7, CallMachine
      <4> QED BY <2>1, <3>1, <4>1 DEF MachineInv
    <3>8. CASE VM!Leave
      <4>1. \E l, u : Machine(B, V, n - 1, Popped(n, s), l, u)'
        BY <2>1, <3>4, <3>8, LeaveMachine
      <4> QED BY <2>1, <3>1, <4>1 DEF MachineInv
    <3> QED BY <3>1, <3>5, <3>6, <3>7, <3>8
  <2> QED BY <2>2, <2>3
<1> QED BY <1>1, <1>2, <1>3, MainSteps

(* The invariant of the program, of every theorem below.                   *)
THEOREM MachineKept == MainSpec /\ []NoneRedefined => [](CodeInv /\ MachineInv)
PROOF
<1>1. MainInit => CodeInv /\ MachineInv
  <2> SUFFICES ASSUME MainInit PROVE CodeInv /\ MachineInv
    OBVIOUS
  <2>1. Init /\ VM!Init
    BY DEF MainInit
  <2>2. CodeInv
    BY <2>1, InitInvariant, InitLaid, InitOperands DEF CodeInv
  <2> QED BY <2>1, <2>2 DEF MachineInv, VM!Init
<1>2. CodeInv /\ MachineInv /\ NoneRedefined /\ [MainNext]_vars => CodeInv' /\ MachineInv'
  <2> SUFFICES ASSUME CodeInv, MachineInv, NoneRedefined, [MainNext]_vars
               PROVE  CodeInv' /\ MachineInv'
    OBVIOUS
  <2>1. [Next]_ccVars
    BY MainSteps
  <2> QED BY <2>1, StepCode, StepMachine
<1> QED BY <1>1, <1>2, PTL DEF MainSpec

(* The hypothesis of all of them holds if the trees of the program keep    *)
(* their functions (cc.c:236, cc.c:337-358).                               *)
THEOREM MachineRedefinesNone ==
    ASSUME NEW D, Defines(D), KeepsFunctions(D)
    PROVE  MainSpec => []NoneRedefined
PROOF
<1>1. MainInit => CodeInv /\ MachineInv /\ Nested(D, stack)
  <2> SUFFICES ASSUME MainInit PROVE CodeInv /\ MachineInv /\ Nested(D, stack)
    OBVIOUS
  <2>1. Init /\ VM!Init
    BY DEF MainInit
  <2>2. CodeInv
    BY <2>1, InitInvariant, InitLaid, InitOperands DEF CodeInv
  <2>3. Nested(D, stack)
    BY <2>1 DEF Init, Nested
  <2> QED BY <2>1, <2>2, <2>3 DEF MachineInv, VM!Init
<1>2. CodeInv /\ Nested(D, stack) => NoneRedefined
  BY NestedKeeps DEF CodeInv
<1>3. CodeInv /\ MachineInv /\ Nested(D, stack) /\ [MainNext]_vars
        => CodeInv' /\ MachineInv' /\ Nested(D, stack)'
  <2> SUFFICES ASSUME CodeInv, MachineInv, Nested(D, stack), [MainNext]_vars
               PROVE  CodeInv' /\ MachineInv' /\ Nested(D, stack)'
    OBVIOUS
  <2>1. [Next]_ccVars
    BY MainSteps
  <2>2. NoneRedefined
    BY <1>2
  <2>3. Nested(D, stack)'
    BY <2>1, StepNested DEF CodeInv
  <2> QED BY <2>1, <2>2, <2>3, StepCode, StepMachine
<1> QED BY <1>1, <1>2, <1>3, PTL DEF MainSpec

-----------------------------------------------------------------------------
(* Chains                                                                  *)

(* Numbers with a property have a least one. *)
LEMMA Least ==
    ASSUME NEW T \in SUBSET Nat, T # {}
    PROVE  \E x \in T : \A y \in T : x <= y
PROOF
<1>1. IsWellFoundedOn(OpToRel(<, Nat), Nat)
  BY NatLessThanWellFounded
<1>2. PICK x \in T : \A y \in T : ~(<<y, x>> \in OpToRel(<, Nat))
  BY <1>1, WFMin
<1>3. \A y \in T : ~(y < x)
  BY <1>2 DEF OpToRel
<1> QED BY <1>3

(* prev's way from f, as long as it can be without a cycle *)
ChainEq(w, f) ==
    w = [k \in 1..Len(frames) + 1 |->
            IF k = 1 THEN f ELSE IF w[k - 1] = 0 THEN 0 ELSE frames[w[k - 1]].prev]

LEMMA ChainIs ==
    ASSUME NEW f, NEW w, ChainEq(w, f)
    PROVE  ChainEq(VM!Chain(f), f)
PROOF
<1>1. VM!NULL = 0
  BY DEF VM!NULL
<1> QED BY <1>1 DEF VM!Chain, ChainEq

(* The chain from a list's top is the list, backwards, and then NULL. *)
LEMMA ChainListed ==
    ASSUME NEW f, NEW n, NEW s, Listed(frames, f, n, s), Len(frames) \in Nat
    PROVE  /\ VM!Chain(f) = [k \in 1..Len(frames) + 1 |-> VM!Chain(f)[k]]
           /\ \A k \in 1..Len(frames) + 1 : VM!Chain(f)[k] = IF k <= n THEN s[n + 1 - k] ELSE 0
PROOF
<1>1. PICK D, w : /\ D = 1..Len(frames) + 1
                  /\ w = [k \in D |-> IF k <= n THEN s[n + 1 - k] ELSE 0]
  OBVIOUS
<1>2. n \in Nat /\ \A k \in 1..n : s[k] \in 1..Len(frames)
  BY DEF Listed
<1>3. ASSUME NEW k \in D
      PROVE  w[k] = IF k = 1 THEN f ELSE IF w[k - 1] = 0 THEN 0 ELSE frames[w[k - 1]].prev
  <2>1. CASE k = 1
    <3>1. w[1] = IF 1 <= n THEN s[n] ELSE 0
      BY <1>1, <1>2, <2>1
    <3>2. f = IF n = 0 THEN 0 ELSE s[n]
      BY DEF Listed
    <3> QED BY <1>2, <2>1, <3>1, <3>2
  <2>2. CASE k # 1
    <3>1. k - 1 \in D /\ k \in Nat
      BY <1>1, <2>2
    <3>2. /\ w[k] = IF k <= n THEN s[n + 1 - k] ELSE 0
          /\ w[k - 1] = IF k - 1 <= n THEN s[n + 2 - k] ELSE 0
      <4>1. n + 1 - (k - 1) = n + 2 - k
        BY <1>2, <3>1
      <4> QED BY <1>1, <3>1, <4>1
    <3>3. CASE k - 1 <= n
      <4>1. n + 2 - k \in 1..n /\ n + 2 - k - 1 = n + 1 - k
            /\ (n + 2 - k = 1 <=> ~(k <= n))
        BY <1>1, <1>2, <2>2, <3>1, <3>3
      <4>2. frames[s[n + 2 - k]].prev = IF k <= n THEN s[n + 1 - k] ELSE 0
        <5>1. PICK j \in 1..n : j = n + 2 - k
          BY <4>1
        <5>2. frames[s[j]].prev = IF j = 1 THEN 0 ELSE s[j - 1]
          BY DEF Listed
        <5>3. j - 1 = n + 1 - k /\ (j = 1 <=> ~(k <= n))
          BY <1>2, <3>1, <4>1, <5>1
        <5> QED BY <5>1, <5>2, <5>3
      <4>3. w[k - 1] # 0 /\ w[k - 1] = s[n + 2 - k]
        BY <1>2, <3>2, <3>3, <4>1
      <4> QED BY <2>2, <3>2, <4>2, <4>3
    <3>4. CASE ~(k - 1 <= n)
      <4>1. ~(k <= n)
        BY <1>2, <3>1, <3>4
      <4> QED BY <2>2, <3>2, <3>4, <4>1
    <3> QED BY <3>3, <3>4
  <2> QED BY <2>1, <2>2
<1>4. ChainEq(w, f)
  <2>1. w = [k \in D |-> w[k]]
    BY <1>1
  <2> QED BY <1>1, <1>3, <2>1 DEF ChainEq
<1>5. PICK c : c = VM!Chain(f)
  OBVIOUS
<1>6. ChainEq(c, f)
  BY <1>4, <1>5, ChainIs
<1>7. \A k \in D : c[k] = w[k]
  <2> DEFINE T == {k \in D : c[k] # w[k]}
  <2> SUFFICES ASSUME T # {} PROVE FALSE
    OBVIOUS
  <2>1. T \in SUBSET Nat
    BY <1>1
  <2>2. PICK x \in T : \A y \in T : x <= y
    BY <2>1, Least
  <2>3. x \in D /\ c[x] # w[x] /\ x \in Nat
    BY <1>1, <2>2
  <2>4. c[x] = IF x = 1 THEN f ELSE IF c[x - 1] = 0 THEN 0 ELSE frames[c[x - 1]].prev
    BY <1>1, <1>6, <2>3 DEF ChainEq
  <2>5. w[x] = IF x = 1 THEN f ELSE IF w[x - 1] = 0 THEN 0 ELSE frames[w[x - 1]].prev
    BY <1>3, <2>3
  <2>6. x # 1 /\ c[x - 1] # w[x - 1]
    BY <2>3, <2>4, <2>5
  <2>7. x - 1 \in D
    BY <1>1, <2>3, <2>6
  <2>8. x <= x - 1
    BY <2>2, <2>6, <2>7
  <2> QED BY <2>3, <2>8
<1>8. c = [k \in D |-> c[k]]
  BY <1>1, <1>6 DEF ChainEq
<1>9. \A k \in D : c[k] = IF k <= n THEN s[n + 1 - k] ELSE 0
  BY <1>1, <1>7
<1> QED BY <1>1, <1>5, <1>8, <1>9

(* Its members are those of the list. *)
LEMMA MembersListed ==
    ASSUME NEW f, NEW n, NEW s, Listed(frames, f, n, s), Len(frames) \in Nat,
           n <= Len(frames)
    PROVE  /\ VM!Chain(f)[VM!Depth] = 0
           /\ VM!Members(f) = {s[k] : k \in 1..n}
PROOF
<1>1. n \in Nat /\ \A k \in 1..n : s[k] \in 1..Len(frames)
  BY DEF Listed
<1>2. \A k \in 1..Len(frames) + 1 : VM!Chain(f)[k] = IF k <= n THEN s[n + 1 - k] ELSE 0
  BY ChainListed
<1>3. VM!Chain(f)[VM!Depth] = 0
  BY <1>1, <1>2 DEF VM!Depth
<1>4. VM!NULL = 0
  BY DEF VM!NULL
<1>5. PICK M : M = VM!Members(f)
  OBVIOUS
<1>6. M = {VM!Chain(f)[k] : k \in 1..Len(frames) + 1} \ {0}
  BY <1>4, <1>5 DEF VM!Members
<1>7. ASSUME NEW x \in M PROVE \E k \in 1..n : x = s[k]
  <2>1. PICK k \in 1..Len(frames) + 1 : x = VM!Chain(f)[k] /\ x # 0
    BY <1>6
  <2>2. k <= n /\ x = s[n + 1 - k]
    BY <1>2, <2>1
  <2>3. n + 1 - k \in 1..n
    BY <1>1, <2>2
  <2> QED BY <2>2, <2>3
<1>8. ASSUME NEW k \in 1..n PROVE s[k] \in M
  <2>1. /\ n + 1 - k \in 1..Len(frames) + 1 /\ n + 1 - k <= n
        /\ n + 1 - (n + 1 - k) = k
    BY <1>1
  <2>2. VM!Chain(f)[n + 1 - k] = s[k]
    BY <1>2, <2>1
  <2>3. s[k] # 0
    BY <1>1
  <2> QED BY <1>6, <2>1, <2>2, <2>3
<1>9. M = {s[k] : k \in 1..n}
  BY <1>7, <1>8
<1> QED BY <1>3, <1>5, <1>9

-----------------------------------------------------------------------------
(* The properties, of programs that redefine no function where it is in    *)
(* use.                                                                    *)

(* No frame is lost, used twice or freed twice (vm.c:48-90, 236-253),      *)
(* however the calls of the program nest.                                  *)
THEOREM FramesArePartitioned == MainSpec /\ []NoneRedefined => []FramesPartitioned
PROOF
<1>1. MachineInv => FramesPartitioned
  <2> SUFFICES ASSUME MachineInv, vm_status # "idle"
               PROVE  /\ VM!Chain(frame)[VM!Depth] = 0 /\ VM!Chain(head)[VM!Depth] = 0
                      /\ VM!Members(frame) \cap VM!Members(head) = {}
                      /\ VM!Members(frame) \cup VM!Members(head) = 1..Len(frames)
    BY DEF FramesPartitioned, VM!FramesPartitioned, VM!NULL
  <2>1. PICK B, V, n, s, m, t : Machine(B, V, n, s, m, t)
    BY DEF MachineInv
  <2>2. /\ Len(frames) \in Nat /\ n \in Nat /\ m \in Nat
        /\ \A k \in 1..n : s[k] \in 1..Len(frames)
        /\ \A k \in 1..m : t[k] \in 1..Len(frames)
    BY <2>1, MachineFacts
  <2>3. /\ Listed(frames, frame, n, s) /\ Listed(frames, head, m, t)
        /\ Divided(frames, n, s, m, t)
    BY <2>1 DEF Machine, Lists
  <2>4. n <= Len(frames) /\ m <= Len(frames)
    BY <2>2, <2>3 DEF Divided
  <2>5. /\ VM!Chain(frame)[VM!Depth] = 0 /\ VM!Members(frame) = {s[k] : k \in 1..n}
        /\ VM!Chain(head)[VM!Depth] = 0 /\ VM!Members(head) = {t[k] : k \in 1..m}
    BY <2>2, <2>3, <2>4, MembersListed
  <2>6. {s[k] : k \in 1..n} \cap {t[k] : k \in 1..m} = {}
    BY <2>3 DEF Divided
  <2>7. {s[k] : k \in 1..n} \cup {t[k] : k \in 1..m} = 1..Len(frames)
    BY <2>2, <2>3 DEF Divided
  <2> QED BY <2>5, <2>6, <2>7
<1> QED BY <1>1, MachineKept, PTL

(* LEAVE never frees the root frame, which would stay in use (vm.c:        *)
(* 236-253).                                                               *)
THEOREM LeavesAreInside == MainSpec /\ []NoneRedefined => []LeavesInsideCalls
PROOF
<1>1. CodeInv /\ MachineInv => LeavesInsideCalls
  <2> SUFFICES ASSUME CodeInv, MachineInv, VM!Fetch("LEAVE") PROVE frames[frame].prev # 0
    BY DEF LeavesInsideCalls, VM!LeavesInsideCalls, VM!NULL
  <2>1. vm_status = "running" /\ Code
    BY DEF VM!Fetch, VM!Running, CodeInv, IInv
  <2>2. PICK B, V, n, s, m, t : Machine(B, V, n, s, m, t)
    BY <2>1 DEF MachineInv
  <2> QED BY <2>1, <2>2, LeaveNested
<1> QED BY <1>1, MachineKept, PTL

(* Where an active frame executes is in the body it was entered for. *)
LEMMA InsideBody ==
    ASSUME NEW B, Executable(B), NEW e \in Nat, NEW x \in Nat, Inside(B, e, x)
    PROVE  x \in e + 1..To(bytecode, e) - 1
PROOF
<1>1. PICK b \in B : b.start = e /\ In(b, x)
  BY DEF Inside
<1>2. Framed(bytecode, b) /\ b.end \in Nat
  BY DEF Executable, Body
<1> QED BY <1>1, <1>2 DEF In, Framed

(* Each LEAVE returns behind the call that is really outstanding, and no   *)
(* frame executes outside the body it was entered for.                     *)
THEOREM CallsAreNested == MainSpec /\ []NoneRedefined => []CallsNested
PROOF
<1>1. CodeInv /\ MachineInv => CallsNested
  <2> SUFFICES ASSUME CodeInv, MachineInv, VM!Running PROVE VM!CallsNested
    BY DEF CallsNested, VM!CallsNested
  <2>1. vm_status = "running" /\ Code /\ VM!NULL = 0
    BY DEF VM!Running, VM!NULL, CodeInv, IInv
  <2>2. PICK B, V, n, s, m, t : Machine(B, V, n, s, m, t)
    BY <2>1 DEF MachineInv
  <2>3. /\ Len(frames) \in Nat /\ n \in Nat \ {0} /\ n \in 1..n /\ frame = s[n]
        /\ \A k \in 1..n : s[k] \in 1..Len(frames)
    BY <2>2, MachineFacts
  <2>4. /\ Listed(frames, frame, n, s) /\ Placed(B, n, s) /\ Executable(B)
        /\ n <= Len(frames)
    <3>1. m \in Nat
      BY <2>2, MachineFacts
    <3> QED BY <2>2, <2>3, <3>1 DEF Machine, Lists, Divided
  <2>5. VM!Members(frame) = {s[k] : k \in 1..n}
    BY <2>3, <2>4, MembersListed
  <2>6. ASSUME NEW k \in 1..n, frames[s[k]].prev # 0
        PROVE  /\ k \in 2..n /\ frames[s[k]].prev = s[k - 1]
               /\ VM!CalledFrom(s[k]) \in Addresses
               /\ Op(bytecode, VM!CalledFrom(s[k])) = "CALL"
    <3>1. k # 1 /\ frames[s[k]].prev = s[k - 1]
      BY <2>4, <2>6 DEF Listed
    <3>2. k \in 2..n
      BY <2>3, <3>1
    <3> QED BY <2>4, <3>1, <3>2 DEF Placed, VM!CalledFrom
  <2>7. ASSUME NEW k \in 1..n, frames[s[k]].prev # 0
        PROVE  Here(n, s, k) \in VM!BodyOf(s[k])
    <3>1. k # 1 /\ VM!CalledFrom(s[k]) \in Addresses
          /\ Op(bytecode, VM!CalledFrom(s[k])) = "CALL"
      BY <2>6, <2>7
    <3>2. PICK e : e = To(bytecode, VM!CalledFrom(s[k]))
      OBVIOUS
    <3>3. e \in Nat
      BY <2>1, <2>4, <3>1, <3>2, CallEnters DEF Code
    <3>4. Inside(B, e, Here(n, s, k))
      BY <2>4, <3>1, <3>2 DEF Placed, Entry, VM!CalledFrom
    <3>5. Here(n, s, k) \in Nat
      <4>1. CASE k = n
        BY <2>1, <2>4, <4>1 DEF Here, Placed, Code
      <4>2. CASE k # n
        <5>1. k + 1 \in 2..n
          BY <2>3, <4>2
        <5>2. frames[s[k + 1]].return_to_bytecode \in Addresses
          BY <2>4, <5>1 DEF Placed
        <5> QED BY <4>2, <5>2 DEF Here, Addresses
      <4> QED BY <4>1, <4>2
    <3>6. VM!BodyOf(s[k]) = e + 1..To(bytecode, e) - 1
      BY <3>2 DEF VM!BodyOf, To
    <3> QED BY <2>4, <3>3, <3>4, <3>5, <3>6, InsideBody
  <2>8. frames[frame].prev # 0 => pc \in VM!BodyOf(frame)
    BY <2>3, <2>7 DEF Here
  <2>9. ASSUME NEW f \in VM!Members(frame), f # 0, frames[f].prev # 0
        PROVE  /\ bytecode[VM!CalledFrom(f) + 1].op = "CALL"
               /\ frames[f].prev # 0 /\ frames[frames[f].prev].prev # 0
                    => VM!CalledFrom(f) \in VM!BodyOf(frames[f].prev)
    <3>1. PICK k \in 1..n : f = s[k]
      BY <2>5
    <3>2. k \in 2..n /\ frames[f].prev = s[k - 1] /\ Op(bytecode, VM!CalledFrom(f)) = "CALL"
      BY <2>6, <2>9, <3>1
    <3>3. k - 1 \in 1..n /\ k - 1 # n /\ k - 1 + 1 = k
      BY <2>3, <3>2
    <3>4. Here(n, s, k - 1) = VM!CalledFrom(f)
      BY <3>1, <3>3 DEF Here, VM!CalledFrom
    <3> QED BY <2>7, <3>2, <3>3, <3>4 DEF Op
  <2> QED BY <2>1, <2>8, <2>9 DEF VM!CallsNested
<1> QED BY <1>1, MachineKept, PTL

LEMMA StepArgCount ==
    ASSUME CodeInv, MachineInv, ArgCountFresh, [MainNext]_vars
    PROVE  ArgCountFresh'
PROOF
<1> USE DEF ArgCountFresh, VM!ArgCountFresh, VM!Running
<1>1. CASE UNCHANGED machineVars /\ (vm_status # "idle" => UNCHANGED ccVars)
  BY <1>1 DEF machineVars, ccVars
<1>2. CASE Vm_run
  <2>1. /\ UNCHANGED <<bytecode, globals>> /\ Code /\ AllUsable(bytecode, Len(globals))
        /\ VM!Next
    BY <1>2, VmSteps DEF Vm_run
  <2>2. CASE VM!Boot
    BY <2>2 DEF VM!Boot
  <2>3. CASE VM!Halt
    BY <2>3 DEF VM!Halt, VM!Stop
  <2>4. CASE ~VM!Boot /\ ~VM!Halt
    <3>1. vm_status = "running"
      BY <2>1, <2>4 DEF VM!Next, VM!LoadG, VM!Load, VM!LoadV, VM!Store, VM!Var,
         VM!Arithmetic, VM!Eq, VM!Args, VM!Assert, VM!Jmp, VM!JmpF, VM!WriteArguments,
         VM!CallBuiltin, VM!Call, VM!Leave, VM!Fetch
    <3>2. pc \in Nat
      BY <2>1, <3>1 DEF MachineInv, Machine, Placed, Code
    <3>3. CASE VM!WriteArguments \/ VM!Call
      BY <3>3 DEF VM!WriteArguments, VM!Call
    <3>4. CASE VM!CallBuiltin
      <4>1. /\ pc \in Addresses /\ Op(bytecode, pc) = "BUILTIN" /\ VM!Arg = To(bytecode, pc)
            /\ Vm_builtins[VM!Arg] \notin {"print", "println"}
        BY <3>2, <3>4, <2>1, Fetched DEF VM!CallBuiltin
      <4>2. VM!BuiltinOutcome(Vm_builtins[VM!Arg]).status \in Endings
        BY <2>1, <4>1, BuiltinNamed, BuiltinEnds
      <4> QED BY <3>4, <4>2 DEF VM!CallBuiltin, VM!Stop, Endings
    <3>5. CASE VM!Args
      <4>1. pc \in Addresses /\ Op(bytecode, pc) = "ARGS" /\ pc' = pc + 1
        BY <3>2, <3>5, <2>1, Fetched DEF VM!Args, VM!Advance
      <4>2. Op(bytecode, pc + 1) \in {"BUILTIN", "CALL"}
        BY <2>1, <4>1 DEF AllUsable, Addresses
      <4> QED BY <2>1, <4>1, <4>2 DEF Op
    <3>6. CASE /\ ~(VM!WriteArguments \/ VM!Call \/ VM!CallBuiltin \/ VM!Args)
      <4>1. \E op : VM!Fetch(op) /\ op \notin {"BUILTIN", "CALL"} /\ arg_count' = arg_count
        BY <2>1, <2>4, <3>6 DEF VM!Next, VM!LoadG, VM!Load, VM!LoadV, VM!Store, VM!Var,
           VM!Arithmetic, VM!Eq, VM!Assert, VM!Jmp, VM!JmpF, VM!Leave, VM!Stop
      <4>2. arg_count = 1 /\ arg_count' = 1
        BY <4>1 DEF VM!Fetch
      <4> QED BY <4>2
    <3> QED BY <3>3, <3>4, <3>5, <3>6
  <2> QED BY <2>2, <2>3, <2>4
<1> QED BY <1>1, <1>2, MainSteps

(* No call sees the count of arguments of another (vm.c:225-242):          *)
(* a count other than the default is for the instruction that comes next.  *)
THEOREM ArgCountIsFresh == MainSpec /\ []NoneRedefined => []ArgCountFresh
PROOF
<1>1. MainInit => ArgCountFresh
  BY DEF MainInit, VM!Init, ArgCountFresh, VM!ArgCountFresh, VM!Running
<1>2. CodeInv /\ MachineInv /\ ArgCountFresh /\ [MainNext]_vars => ArgCountFresh'
  BY StepArgCount
<1> QED BY <1>1, <1>2, MachineKept, PTL DEF MainSpec

-----------------------------------------------------------------------------
(* The frames implement the stack of scopes                                *)

ScopeOf(fs, f) == [return_to |-> fs[f].return_to_bytecode, variables |-> fs[f].variable_table]
ScopesOf(fs, n, s) == [k \in 1..n |-> ScopeOf(fs, s[k])]

LEMMA ScopesListed ==
    ASSUME NEW n, NEW s, Listed(frames, frame, n, s), Len(frames) \in Nat, n <= Len(frames)
    PROVE  scopes = ScopesOf(frames, n, s)
PROOF
<1>1. n \in Nat /\ \A k \in 1..n : s[k] \in 1..Len(frames)
  BY DEF Listed
<1>2. PICK c : c = VM!Chain(frame)
  OBVIOUS
<1>3. /\ DOMAIN c = 1..Len(frames) + 1
      /\ \A k \in 1..Len(frames) + 1 : c[k] = IF k <= n THEN s[n + 1 - k] ELSE 0
  BY <1>2, ChainListed
<1>4. PICK K : K = {k \in DOMAIN c : c[k] # 0}
  OBVIOUS
<1>5. K = 1..n
  <2>1. ASSUME NEW k \in K PROVE k \in 1..n
    BY <1>1, <1>3, <1>4
  <2>2. ASSUME NEW k \in 1..n PROVE k \in K
    <3>1. n + 1 - k \in 1..n /\ k \in 1..Len(frames) + 1 /\ k <= n
      BY <1>1
    <3> QED BY <1>1, <1>3, <1>4, <3>1
  <2> QED BY <2>1, <2>2
<1>6. Cardinality(K) = n
  BY <1>1, <1>5, FS_Interval
<1>7. scopes = [k \in 1..n |-> ScopeOf(frames, c[n + 1 - k])]
  BY <1>2, <1>4, <1>6 DEF scopes, Outward, Scope, ScopeOf
<1>8. \A k \in 1..n : c[n + 1 - k] = s[k]
  <2> TAKE k \in 1..n
  <2>1. /\ n + 1 - k \in 1..Len(frames) + 1 /\ n + 1 - k <= n
        /\ n + 1 - (n + 1 - k) = k
    BY <1>1
  <2> QED BY <1>3, <2>1
<1> QED BY <1>7, <1>8 DEF ScopesOf

LEMMA ScopesSeq ==
    ASSUME NEW fs, NEW n \in Nat, NEW s
    PROVE  /\ Len(ScopesOf(fs, n, s)) = n
           /\ \A k \in 1..n : ScopesOf(fs, n, s)[k] = ScopeOf(fs, s[k])
           /\ \A k \in 0..n : SubSeq(ScopesOf(fs, n, s), 1, k) = ScopesOf(fs, k, s)
PROOF
<1>1. PICK q : q = ScopesOf(fs, n, s)
  OBVIOUS
<1>2. PICK X : X = {ScopeOf(fs, s[k]) : k \in 1..n}
  OBVIOUS
<1>3. q \in [1..n -> X] /\ \A k \in 1..n : q[k] = ScopeOf(fs, s[k])
  BY <1>1, <1>2 DEF ScopesOf
<1>4. q \in Seq(X) /\ Len(q) = n
  BY <1>3, FunctionSeq
<1>5. ASSUME NEW k \in 0..n PROVE SubSeq(q, 1, k) = ScopesOf(fs, k, s)
  <2>1. SubSeq(q, 1, k) = [i \in 1..k |-> q[i]]
    BY <1>4, SubSeqProperties
  <2>2. \A i \in 1..k : i \in 1..n
    BY <1>5
  <2> QED BY <1>3, <2>1, <2>2 DEF ScopesOf
<1> QED BY <1>1, <1>3, <1>4, <1>5

(* The scopes of the machine, and at its start none. *)
LEMMA MachineScopes ==
    ASSUME NEW B, NEW V, NEW n, NEW s, NEW m, NEW t, Machine(B, V, n, s, m, t)
    PROVE  scopes = ScopesOf(frames, n, s)
PROOF
<1>1. Len(frames) \in Nat /\ n \in Nat /\ m \in Nat
  BY MachineFacts
<1>2. Listed(frames, frame, n, s) /\ n <= Len(frames)
  BY <1>1 DEF Machine, Lists, Divided
<1> QED BY <1>1, <1>2, ScopesListed

LEMMA NextScopes ==
    ASSUME NEW B, NEW V, NEW n, NEW s, NEW m, NEW t
    PROVE  (Machine(B, V, n, s, m, t) => scopes = ScopesOf(frames, n, s))'
PROOF
<1>1. Machine(B, V, n, s, m, t) => scopes = ScopesOf(frames, n, s)
  BY MachineScopes
<1> QED BY <1>1, PTL

LEMMA InitScopes == VM!Init => scopes = <<>>
PROOF
<1> SUFFICES ASSUME VM!Init PROVE scopes = <<>>
  OBVIOUS
<1>1. PICK s : s = [k \in 1..0 |-> 1]
  OBVIOUS
<1>2. frames = <<>> /\ frame = 0 /\ Len(frames) = 0
  BY DEF VM!Init, VM!NULL
<1>3. Listed(frames, frame, 0, s)
  <2>1. 1..0 = {} /\ s \in [1..0 -> 1..0]
    BY <1>1
  <2> QED BY <1>2, <2>1 DEF Listed
<1>4. scopes = ScopesOf(frames, 0, s)
  BY <1>2, <1>3, ScopesListed
<1>5. ScopesOf(frames, 0, s) = <<>>
  BY DEF ScopesOf
<1> QED BY <1>4, <1>5

LEMMA StepScopes ==
    ASSUME CodeInv, MachineInv, [MainNext]_vars
    PROVE  [ScopeStack!Next]_scopes
PROOF
<1>1. UNCHANGED <<frames, frame>> => UNCHANGED scopes
  BY DEF scopes, Outward, Scope, VM!Chain
<1>2. CASE UNCHANGED machineVars
  BY <1>1, <1>2 DEF machineVars
<1>3. CASE Vm_run
  <2>1. /\ UNCHANGED bytecode /\ Code
        /\ \/ VM!Init /\ VM!Boot
           \/ /\ \E B, V, n, s, m, t : Machine(B, V, n, s, m, t)
              /\ Simple \/ VM!Var \/ VM!Call \/ VM!Leave
    BY <1>3, VmSteps DEF ccVars
  <2>2. CASE VM!Init /\ VM!Boot
    <3>0. None \in {None}
      OBVIOUS
    <3>1. PICK B : Executable(B)
      BY <1>3, VmSteps, CodeExecutable DEF CodeInv
    <3>2. PICK s, m, t : Machine(B, {None}, 1, s, m, t)'
      BY <2>1, <2>2, <3>1, <3>0, BootMachine
    <3>3. PICK fs : fs = frames'
      OBVIOUS
    <3>4. scopes' = ScopesOf(fs, 1, s)
      <4>1. (Machine(B, {None}, 1, s, m, t) => scopes = ScopesOf(frames, 1, s))'
        BY NextScopes
      <4> QED BY <3>2, <3>3, <4>1
    <3>5. scopes = <<>> /\ Len(scopes') = 1
      <4>1. PICK q : q = ScopesOf(fs, 1, s)
        OBVIOUS
      <4>2. Len(q) = 1
        <5>1. 1 \in Nat
          OBVIOUS
        <5> QED BY <4>1, <5>1, ScopesSeq, Zenon
      <4>3. scopes = <<>>
        BY <2>2, InitScopes
      <4> QED BY <3>4, <4>1, <4>2, <4>3, Zenon
    <3> QED BY <3>5 DEF ScopeStack!Next, ScopeStack!Start
  <2>3. CASE Simple
    BY <1>1, <2>3 DEF Simple
  <2>4. CASE ~(VM!Init /\ VM!Boot) /\ ~Simple
    <3>1. PICK B, V0, n, s, m, t : Machine(B, V0, n, s, m, t)
      BY <2>1, <2>4
    <3>2. PICK V : V = V0 \cup {r[0]}
      OBVIOUS
    <3>3. Machine(B, V, n, s, m, t) /\ r[0] \in V
      BY <3>1, <3>2, Wider
    <3>4. PICK fs, gs, old, new : fs = frames /\ gs = frames' /\ old = scopes /\ new = scopes'
      OBVIOUS
    <3>5. /\ n \in Nat \ {0} /\ n \in 1..n /\ frame = s[n] /\ frame \in 1..Len(fs)
          /\ \A k \in 1..n : s[k] \in 1..Len(fs) /\ fs[s[k]] \in FrameOf(V)
      BY <3>3, <3>4, MachineFacts
    <3>6. old = ScopesOf(fs, n, s)
      BY <3>3, <3>4, MachineScopes
    <3>7. /\ Len(old) = n /\ \A k \in 1..n : old[k] = ScopeOf(fs, s[k])
          /\ \A k \in 0..n : SubSeq(old, 1, k) = ScopesOf(fs, k, s)
      BY <3>5, <3>6, ScopesSeq
    <3>8. old # <<>>
      BY <3>5, <3>7
    <3>9. ASSUME NEW B1, NEW V1, NEW n1, NEW s1, NEW m1, NEW t1,
                 Machine(B1, V1, n1, s1, m1, t1)'
          PROVE  new = ScopesOf(gs, n1, s1)
      <4>1. (Machine(B1, V1, n1, s1, m1, t1) => scopes = ScopesOf(frames, n1, s1))'
        BY NextScopes
      <4> QED BY <3>4, <3>9, <4>1
    <3>10. CASE VM!Var
      <4>1. Machine(B, V, n, s, m, t)'
        BY <2>1, <3>3, <3>10, VarMachine
      <4>2. new = ScopesOf(gs, n, s)
        BY <3>9, <4>1
      <4>3. gs = [fs EXCEPT ![frame].variable_table[VM!Arg] = r[0]]
        BY <3>4, <3>10 DEF VM!Var
      <4>4. fs \in Seq(FrameOf(V)) /\ \A k \in 1..n - 1 : k \in 1..n /\ s[k] # frame
        BY <3>3, <3>4, <3>5 DEF Machine, Lists, Listed
      <4>5. /\ gs[frame].return_to_bytecode = fs[frame].return_to_bytecode
            /\ \A x \in 1..Len(fs) : x # frame => gs[x] = fs[x]
        BY <3>5, <4>3, <4>4 DEF FrameOf
      <4>6. ScopesOf(gs, n - 1, s) = ScopesOf(fs, n - 1, s)
        BY <3>5, <4>4, <4>5 DEF ScopesOf, ScopeOf
      <4>7. /\ Len(new) = n /\ new[n] = ScopeOf(gs, s[n])
            /\ SubSeq(new, 1, n - 1) = ScopesOf(gs, n - 1, s)
        <5>1. n \in Nat /\ n - 1 \in 0..n
          BY <3>5
        <5> QED BY <3>5, <4>2, <5>1, ScopesSeq
      <4>8. SubSeq(new, 1, Len(old) - 1) = SubSeq(old, 1, Len(old) - 1)
        <5>1. n - 1 \in 0..n
          BY <3>5
        <5>2. SubSeq(old, 1, n - 1) = ScopesOf(fs, n - 1, s)
          BY <3>7, <5>1
        <5> QED BY <3>7, <4>6, <4>7, <5>2, Zenon
      <4>9. new[Len(old)].return_to = old[Len(old)].return_to
        BY <3>5, <3>7, <4>5, <4>7 DEF ScopeOf
      <4> QED BY <3>4, <3>7, <3>8, <4>7, <4>8, <4>9
           DEF ScopeStack!Next, ScopeStack!Bind, ScopeStack!Outer, ScopeStack!Innermost
    <3>11. CASE VM!Call
      <4>1. PICK f, l, u : Machine(B, V, n + 1, Pushed(n, s, f), l, u)'
        BY <2>1, <3>3, <3>11, CallMachine
      <4>2. \A k \in 1..n : gs[s[k]] = fs[s[k]]
        BY <2>1, <3>3, <3>4, <3>11, CallMachine
      <4>3. PICK p : p = Pushed(n, s, f)
        OBVIOUS
      <4>4. new = ScopesOf(gs, n + 1, p)
        BY <3>9, <4>1, <4>3
      <4>5. \A k \in 1..n : p[k] = s[k]
        BY <3>5, <4>3 DEF Pushed
      <4>6. ScopesOf(gs, n, p) = ScopesOf(fs, n, s)
        BY <4>2, <4>5 DEF ScopesOf, ScopeOf
      <4>7. Len(new) = n + 1 /\ SubSeq(new, 1, n) = ScopesOf(gs, n, p)
        BY <3>5, <4>4, ScopesSeq
      <4> QED BY <3>4, <3>6, <3>7, <3>8, <4>6, <4>7 DEF ScopeStack!Next, ScopeStack!Enter
    <3>12. CASE VM!Leave
      <4>1. PICK l, u : n > 1 /\ Machine(B, V, n - 1, Popped(n, s), l, u)'
        BY <2>1, <3>3, <3>12, LeaveMachine
      <4>2. \A k \in 1..n - 1 : gs[s[k]] = fs[s[k]]
        BY <2>1, <3>3, <3>4, <3>12, LeaveMachine
      <4>3. PICK p : p = Popped(n, s)
        OBVIOUS
      <4>4. new = ScopesOf(gs, n - 1, p)
        BY <3>9, <4>1, <4>3
      <4>5. \A k \in 1..n - 1 : p[k] = s[k]
        BY <3>5, <4>3 DEF Popped
      <4>6. new = ScopesOf(fs, n - 1, s)
        BY <4>2, <4>4, <4>5 DEF ScopesOf, ScopeOf
      <4>7. new = SubSeq(old, 1, Len(old) - 1)
        BY <3>5, <3>7, <4>6
      <4> QED BY <3>4, <3>7, <4>1, <4>7 DEF ScopeStack!Next, ScopeStack!Leave, ScopeStack!Outer
    <3> QED BY <2>1, <2>4, <3>10, <3>11, <3>12
  <2> QED BY <2>2, <2>3, <2>4
<1> QED BY <1>2, <1>3, MainSteps

(* The frames and the free list implement the stack of scopes vm.h:10-15   *)
(* describes: a call leaves the scopes of its callers alone, VAR binds in  *)
(* the innermost, and LEAVE restores the one before.                       *)
THEOREM FramesImplementScopes == MainSpec /\ []NoneRedefined => ImplementsScopes
PROOF
<1>1. MainInit => ScopeStack!Init
  BY InitScopes DEF MainInit, ScopeStack!Init
<1>2. CodeInv /\ MachineInv /\ [MainNext]_vars => [ScopeStack!Next]_scopes
  BY StepScopes
<1> QED BY <1>1, <1>2, MachineKept, PTL DEF MainSpec, ImplementsScopes, ScopeStack!Spec

-----------------------------------------------------------------------------
(* Types                                                                   *)

(* What the machine computes are values: an integer has at least a bit,    *)
(* operations on doubles give doubles, and names of types are strings,     *)
(* which the provers do not know.                                          *)
ArithOps == {"ADD", "SUB", "MUL", "DIV"}
TypeNames == {"option", "string", "number", "array", "object", "boolean"}
NumbersClosed ==
    /\ 2^(IntBits - 1) \in Nat \ {0}
    /\ \A i \in Int : ToDouble(i) \in Int
    /\ \A op \in ArithOps, a, b \in Int : DoubleOp(op, a, b) \in Int
    /\ TypeNames \subseteq STRING

LEMMA ValueNames ==
    /\ VM!Value = Value
    /\ VM!FrameType = FrameOf(Value)
    /\ VM!Hashes = 0..VARIABLE_TABLE_SIZE - 1 /\ VM!Registers = 0..REGISTERS
    /\ None \in Value
PROOF
<1>1. VM!Value = Value
  BY DEF VM!Value, Value, VM!Types, Types
<1>2. <<>> \in Seq(STRING)
  OBVIOUS
<1> QED BY <1>1, <1>2 DEF VM!FrameType, FrameOf, VM!Hashes, VM!Registers, None, Plain, Value, Types

LEMMA Payloads ==
    /\ \A i \in Int : VM!Int64(i) \in Value /\ VM!Double(i) \in Value
    /\ \A st \in Seq(STRING) : VM!Str(st) \in Value
    /\ \A v \in Value, some \in BOOLEAN : [v EXCEPT !.some = some] \in Value
PROOF
<1>1. \A v \in Value, i \in Int : [v EXCEPT !.num = i] \in Value
  BY DEF Value
<1>2. \A v \in Value, st \in Seq(STRING) : [v EXCEPT !.str = st] \in Value
  BY DEF Value
<1>3. \A v \in Value, some \in BOOLEAN : [v EXCEPT !.some = some] \in Value
  BY DEF Value
<1>4. ASSUME NEW t \in {"Int", "Double", "Str"} PROVE VM!Plain(t) \in Value
  <2>1. PICK e : e = <<>>
    OBVIOUS
  <2>2. e \in Seq(STRING)
    BY <2>1
  <2>3. VM!Plain(t) = [type |-> t, some |-> FALSE, num |-> 0, str |-> e]
    BY <2>1 DEF VM!Plain
  <2> QED BY <2>2, <2>3 DEF Value, Types
<1>5. VM!Plain("Int") \in Value /\ VM!Plain("Double") \in Value /\ VM!Plain("Str") \in Value
  BY <1>4
<1> QED BY <1>1, <1>2, <1>3, <1>5 DEF VM!Int64, VM!Double, VM!Str

LEMMA Computed ==
    ASSUME NEW op \in ArithOps, NEW a \in Int, NEW b \in Int,
           NumbersClosed, op = "DIV" => b # 0
    PROVE  VM!IntOp(op, a, b) \in Int
PROOF
<1>1. PICK half : half = 2^(IntBits - 1)
  OBVIOUS
<1>2. half \in Nat \ {0}
  BY <1>1 DEF NumbersClosed
<1>3. \A i \in Int : VM!Wrap(i) = ((i + half) % (2 * half)) - half
  BY <1>1 DEF VM!Wrap
<1>4. \A i \in Int : (i + half) % (2 * half) \in Int
  BY <1>2
<1>5. \A i \in Int : VM!Wrap(i) \in Int
  BY <1>2, <1>3, <1>4
<1>6. a + b \in Int /\ a - b \in Int /\ a * b \in Int
  OBVIOUS
<1>7. ASSUME b # 0 PROVE VM!Quotient(a, b) \in Int
  <2>1. VM!Abs(a) \in Nat /\ VM!Abs(b) \in Nat \ {0}
    BY <1>7 DEF VM!Abs
  <2>2. PICK p \in Nat, q \in Nat \ {0} : p = VM!Abs(a) /\ q = VM!Abs(b)
    BY <2>1
  <2>3. p \div q \in Int
    OBVIOUS
  <2> QED BY <2>2, <2>3 DEF VM!Quotient
<1> QED BY <1>5, <1>6, <1>7 DEF VM!IntOp, ArithOps

LEMMA ArithValue ==
    ASSUME NEW op \in ArithOps, NEW a \in Value, NEW b \in Value,
           NumbersClosed, VM!Arith(op, a, b).status = "ok"
    PROVE  VM!Arith(op, a, b).value \in Value
PROOF
<1>1. \A st, v : VM!Outcome(st, v).status = st /\ VM!Outcome(st, v).value = v
  BY DEF VM!Outcome
<1>2. /\ a.type \in Types /\ a.some \in BOOLEAN /\ a.num \in Int /\ a.str \in Seq(STRING)
      /\ b.type \in Types /\ b.some \in BOOLEAN /\ b.num \in Int /\ b.str \in Seq(STRING)
  BY DEF Value
<1>3. \A st \in Seq(STRING) : VM!Str(st) \in Value
  BY Payloads
<1>4. \A i \in Int, some \in BOOLEAN :
        /\ [VM!Int64(i) EXCEPT !.some = some] \in Value
        /\ [VM!Double(i) EXCEPT !.some = some] \in Value
  BY Payloads
<1>5. CASE op = "ADD" /\ a.type = "Str" /\ b.type = "Str"
  <2>1. b.str \o a.str \in Seq(STRING)
    BY <1>2, ConcatProperties
  <2>2. PICK st : st = b.str \o a.str
    OBVIOUS
  <2>3. VM!Arith(op, a, b) = VM!Outcome("ok", VM!Str(st))
    BY <1>5, <2>2 DEF VM!Arith
  <2>4. VM!Arith(op, a, b).value = VM!Str(st)
    BY <1>1, <2>3
  <2> QED BY <1>3, <2>1, <2>2, <2>4
<1>6. CASE ~(op = "ADD" /\ a.type = "Str" /\ b.type = "Str") /\ "Double" \in {a.type, b.type}
  <2>1. PICK x, y : x = VM!Value_as_double(b) /\ y = VM!Value_as_double(a)
    OBVIOUS
  <2>2. x \in Int /\ y \in Int
    BY <1>2, <2>1 DEF VM!Value_as_double, NumbersClosed
  <2>3. DoubleOp(op, x, y) \in Int
    BY <2>2 DEF NumbersClosed, ArithOps
  <2>4. VM!Arith(op, a, b) =
          IF VM!Numeric(a) /\ VM!Numeric(b)
          THEN VM!Outcome("ok", [VM!Double(DoubleOp(op, x, y)) EXCEPT !.some = a.some])
          ELSE VM!Outcome("abort", a)
    BY <1>6, <2>1 DEF VM!Arith
  <2>5. VM!Outcome("abort", a).status # "ok"
    BY <1>1
  <2>6. VM!Arith(op, a, b)
          = VM!Outcome("ok", [VM!Double(DoubleOp(op, x, y)) EXCEPT !.some = a.some])
    BY <2>4, <2>5
  <2>7. [VM!Double(DoubleOp(op, x, y)) EXCEPT !.some = a.some] \in Value
    BY <1>2, <1>4, <2>3
  <2> QED BY <1>1, <2>6, <2>7
<1>7. CASE /\ ~(op = "ADD" /\ a.type = "Str" /\ b.type = "Str")
           /\ "Double" \notin {a.type, b.type}
           /\ a.type = "Int" /\ b.type = "Int"
  <2>1. VM!Arith(op, a, b) =
          IF op = "DIV" /\ VM!Traps(b.num, a.num)
          THEN VM!Outcome("trap", a)
          ELSE VM!Outcome("ok", [VM!Int64(VM!IntOp(op, b.num, a.num)) EXCEPT !.some = a.some])
    BY <1>7 DEF VM!Arith
  <2>2. VM!Outcome("trap", a).status # "ok"
    BY <1>1
  <2>3. ~(op = "DIV" /\ VM!Traps(b.num, a.num))
    BY <2>1, <2>2
  <2>4. op = "DIV" => a.num # 0
    BY <2>3 DEF VM!Traps
  <2>5. VM!IntOp(op, b.num, a.num) \in Int
    BY <1>2, <2>4, Computed
  <2>6. [VM!Int64(VM!IntOp(op, b.num, a.num)) EXCEPT !.some = a.some] \in Value
    BY <1>2, <1>4, <2>5
  <2> QED BY <1>1, <2>1, <2>3, <2>6
<1>8. CASE /\ ~(op = "ADD" /\ a.type = "Str" /\ b.type = "Str")
           /\ "Double" \notin {a.type, b.type}
           /\ ~(a.type = "Int" /\ b.type = "Int")
  BY <1>1, <1>8 DEF VM!Arith
<1> QED BY <1>5, <1>6, <1>7, <1>8

LEMMA BuiltinValue ==
    ASSUME NEW b \in Runtime \ {"print", "println"}, r \in [0..REGISTERS -> Value],
           NumbersClosed, VM!BuiltinOutcome(b).status = "ok"
    PROVE  VM!BuiltinOutcome(b).value \in Value
PROOF
<1>1. \A st, v : VM!Outcome(st, v).status = st /\ VM!Outcome(st, v).value = v
  BY DEF VM!Outcome
<1>2. PICK v \in Value : v = r[1]
  BY SizeAssumption
<1>3. b \in {"len", "type", "Some"}
  BY DEF Runtime
<1>4. arg_count = 1
  BY <1>1 DEF VM!BuiltinOutcome
<1>5. b = "len" => VM!BuiltinOutcome(b) = VM!builtin_len(v)
  BY <1>2, <1>4 DEF VM!BuiltinOutcome
<1>6. b = "type" => VM!BuiltinOutcome(b) = VM!builtin_type(v)
  BY <1>2, <1>4 DEF VM!BuiltinOutcome
<1>7. b = "Some" => VM!BuiltinOutcome(b) = VM!builtin_Some(v)
  BY <1>2, <1>4 DEF VM!BuiltinOutcome
<1>8. VM!builtin_len(v).status = "ok" => VM!builtin_len(v).value \in Value
  <2>1. VM!Int64(0) \in Value
    BY Payloads
  <2> QED BY <1>1, <2>1 DEF VM!builtin_len
<1>9. VM!builtin_type(v).value \in Value
  <2>1. VM!TypeName(v) \in STRING
    <3>1. VM!TypeName(v) \in TypeNames
      BY DEF VM!TypeName, TypeNames
    <3> QED BY <3>1 DEF NumbersClosed
  <2>2. <<VM!TypeName(v)>> \in Seq(STRING)
    BY <2>1
  <2>3. VM!Str(<<VM!TypeName(v)>>) \in Value
    BY <2>2, Payloads
  <2> QED BY <1>1, <2>3 DEF VM!builtin_type
<1>10. VM!builtin_Some(v).value \in Value
  <2>1. VM!Some(v) \in Value
    BY DEF VM!Some, Value
  <2> QED BY <1>1, <2>1 DEF VM!builtin_Some
<1> QED BY <1>3, <1>5, <1>6, <1>7, <1>8, <1>9, <1>10

(* A parameter is in a register: it is loaded in the function it belongs   *)
(* to, which was called with no more arguments than there are registers.   *)
LEMMA LoadInRange ==
    ASSUME NEW B, Executable(B), Headed(B), NEW e, NEW x \in Addresses, Inside(B, e, x),
           Op(bytecode, x) = "LOAD", To(bytecode, x) \in Nat
    PROVE  To(bytecode, x) \in 0..REGISTERS
PROOF
<1>1. PICK b \in B : Loads(bytecode, b.start, b.params, x)
  BY DEF Headed
<1>2. /\ b.start \in Nat /\ b.end \in Nat /\ b.params \in Nat
      /\ b.start + 2 * b.params + 2 <= b.end /\ Header0(bytecode, b.start, b.params)
  BY DEF Executable, Body, Headed
<1>3. x \in Nat /\ x \in b.start + 1..b.start + 2 * b.params /\ To(bytecode, x) <= b.params
  BY <1>1 DEF Loads, Addresses
<1>4. In(b, x)
  BY <1>2, <1>3 DEF In
<1>5. b.start <= e
  BY <1>4 DEF Inside
<1>6. PICK c \in B : c.start = e /\ c.params <= REGISTERS /\ In(c, x)
  BY <1>2, <1>5 DEF Inside
<1>7. c.start \in Nat /\ Op(bytecode, c.start) = "JMP" /\ c.params \in Nat
  BY DEF Executable, Body, Framed
<1>8. c.start = b.start
  <2> SUFFICES ASSUME b.start < c.start PROVE FALSE
    BY <1>2, <1>5, <1>6, <1>7
  <2>1. c.start \in b.start + 1..b.start + 2 * b.params
    BY <1>2, <1>3, <1>6, <1>7 DEF In
  <2> QED BY <1>2, <1>7, <2>1 DEF Header0
<1>9. c = b
  BY <1>8 DEF Executable, Laminar
<1> QED BY <1>2, <1>3, <1>6, <1>9, SizeAssumption

(* the invariant, for frames with values *)
Typed ==
    /\ r \in [0..REGISTERS -> Value] /\ arg_count \in Nat
    /\ \E X : out \in Seq(X)
    /\ \A k \in 1..Len(out) : out[k].call \in {"print", "println"}
    /\ vm_status \in VM!StatusType
    /\ vm_status # "idle" => \E B, n, s, m, t : Headed(B) /\ Machine(B, Value, n, s, m, t)

LEMMA TypedOK == ASSUME CodeInv, MachineInv, Typed PROVE MachineTypeOK
PROOF
<1>1. /\ r \in [VM!Registers -> VM!Value] /\ arg_count \in Nat
      /\ \A k \in 1..Len(out) : out[k].call \in {"print", "println"}
      /\ vm_status \in VM!StatusType
  BY ValueNames DEF Typed
<1>2. bytecode \in Seq(InstrType) /\ Len(bytecode) \in Nat
  BY DEF CodeInv, IInv, Code
<1>3. CASE vm_status = "idle"
  <2>1. pc = 0 /\ frames = <<>> /\ frame = 0 /\ head = 0
    BY <1>3 DEF MachineInv, VM!Init, VM!NULL
  <2>2. frames \in Seq(VM!FrameType) /\ Len(frames) = 0
    BY <2>1
  <2>3. \A f \in 1..Len(frames) : frames[f].prev \in 0..Len(frames)
    BY <2>2
  <2> QED BY <1>1, <1>2, <2>1, <2>2, <2>3 DEF MachineTypeOK, VM!TypeOK
<1>4. CASE vm_status # "idle"
  <2>1. PICK B, n, s, m, t : Machine(B, Value, n, s, m, t)
    BY <1>4 DEF Typed
  <2>2. /\ Len(frames) \in Nat /\ n \in Nat /\ m \in Nat
        /\ frame \in 0..Len(frames) /\ pc \in 0..Len(bytecode)
        /\ \A k \in 1..n : s[k] \in 1..Len(frames)
        /\ \A k \in 1..m : t[k] \in 1..Len(frames)
    BY <2>1, MachineFacts DEF Machine, Placed
  <2>3. frames \in Seq(VM!FrameType)
    BY <2>1, ValueNames DEF Machine
  <2>4. /\ Listed(frames, frame, n, s) /\ Listed(frames, head, m, t)
        /\ Divided(frames, n, s, m, t)
    BY <2>1 DEF Machine, Lists
  <2>5. head \in 0..Len(frames)
    <3>1. m # 0 => m \in 1..m
      BY <2>2
    <3> QED BY <2>2, <2>4, <3>1 DEF Listed
  <2>6. ASSUME NEW f \in 1..Len(frames) PROVE frames[f].prev \in 0..Len(frames)
    <3>1. CASE \E k \in 1..n : s[k] = f
      <4>1. PICK k \in 1..n : s[k] = f
        BY <3>1
      <4>2. k # 1 => k - 1 \in 1..n
        BY <2>2
      <4> QED BY <2>2, <2>4, <4>1, <4>2 DEF Listed
    <3>2. CASE \E k \in 1..m : t[k] = f
      <4>1. PICK k \in 1..m : t[k] = f
        BY <3>2
      <4>2. k # 1 => k - 1 \in 1..m
        BY <2>2
      <4> QED BY <2>2, <2>4, <4>1, <4>2 DEF Listed
    <3> QED BY <2>4, <3>1, <3>2 DEF Divided
  <2> QED BY <1>1, <2>2, <2>3, <2>5, <2>6 DEF MachineTypeOK, VM!TypeOK
<1> QED BY <1>3, <1>4

(* What a step of the machine may do to the registers, the count and the   *)
(* output.                                                                 *)
Keeping ==
    /\ r' = r \/ \E i \in 0..REGISTERS, v \in Value : r' = [r EXCEPT ![i] = v]
    /\ arg_count' \in Nat
    /\ out' = out \/ \E e : e.call \in {"print", "println"} /\ out' = Append(out, e)
    /\ vm_status' \in VM!StatusType

LEMMA StepKeeping ==
    ASSUME NumbersClosed, CodeInv, MachineInv, Typed, Vm_run
    PROVE  Keeping
PROOF
<1>1. /\ UNCHANGED <<bytecode, globals>> /\ Code /\ AllUsable(bytecode, Len(globals))
      /\ VM!Next /\ status = "done"
  BY VmSteps DEF Vm_run
<1>2. /\ globals \in Seq(Value) /\ Len(globals) \in Nat /\ Len(globals) >= 3
      /\ \A g \in 0..Len(globals) - 1 : globals[g + 1] \in Value
  BY DEF CodeInv, IInv, Pool, Operands
<1>3. /\ r \in [0..REGISTERS -> Value] /\ arg_count \in Nat
      /\ vm_status \in VM!StatusType
      /\ 0 \in 0..REGISTERS /\ r[0] \in Value
  BY SizeAssumption DEF Typed
<1>4. CASE VM!Boot
  BY <1>3, <1>4 DEF VM!Boot, Keeping, VM!StatusType
<1>5. CASE VM!Halt
  BY <1>3, <1>5 DEF VM!Halt, VM!Stop, Keeping, VM!StatusType
<1>6. CASE ~VM!Boot /\ ~VM!Halt
  <2>1. vm_status = "running"
    BY <1>1, <1>6 DEF VM!Next, VM!LoadG, VM!Load, VM!LoadV, VM!Store, VM!Var, VM!Arithmetic,
       VM!Eq, VM!Args, VM!Assert, VM!Jmp, VM!JmpF, VM!WriteArguments, VM!CallBuiltin,
       VM!Call, VM!Leave, VM!Fetch, VM!Running
  <2>2. PICK B, n, s, m, t : Headed(B) /\ Machine(B, Value, n, s, m, t)
    BY <2>1 DEF Typed
  <2>3. /\ pc \in Nat /\ frame \in 1..Len(frames) /\ frames[frame] \in FrameOf(Value)
        /\ Executable(B) /\ Inside(B, Entry(s, n), pc)
    BY <1>1, <2>2, MachineFacts DEF Machine, Placed, Code, Here
  <2>4. \A op : VM!Fetch(op) => /\ pc \in Addresses /\ Op(bytecode, pc) = op
                                /\ VM!Arg = To(bytecode, pc)
    BY <1>1, <2>3, Fetched
  <2>5. ASSUME pc \in Addresses
        PROVE  /\ Op(bytecode, pc) = "LOADG" => To(bytecode, pc) \in 0..Len(globals) - 1
               /\ Op(bytecode, pc) = "LOADV" => To(bytecode, pc) \in 0..VARIABLE_TABLE_SIZE - 1
               /\ Op(bytecode, pc) \in BinOps \cup {"STORE"} => To(bytecode, pc) \in 0..REGISTERS
               /\ Op(bytecode, pc) \in {"LOAD", "ARGS"} => To(bytecode, pc) \in Nat
    BY <1>1, <2>5 DEF AllUsable, Usable, Op, To, Addresses
  <2>6. \A v \in Value : VM!Result(v) => \E i \in 0..REGISTERS, w \in Value : r' = [r EXCEPT ![i] = w]
    BY <1>3 DEF VM!Result
  <2>7. CASE VM!LoadG
    <3>1. globals[VM!Arg + 1] \in Value
      BY <1>2, <2>4, <2>5, <2>7 DEF VM!LoadG
    <3> QED BY <1>3, <2>6, <2>7, <3>1 DEF VM!LoadG, Keeping
  <2>8. CASE VM!Load
    <3>1. pc \in Addresses /\ Op(bytecode, pc) = "LOAD" /\ VM!Arg = To(bytecode, pc)
          /\ To(bytecode, pc) \in Nat
      BY <2>4, <2>5, <2>8 DEF VM!Load
    <3>2. VM!Arg \in 0..REGISTERS
      BY <2>2, <2>3, <3>1, LoadInRange
    <3>3. r[VM!Arg] \in Value
      BY <1>3, <3>2
    <3> QED BY <1>3, <2>6, <2>8, <3>3 DEF VM!Load, Keeping
  <2>9. CASE VM!LoadV
    <3>1. VM!Arg \in 0..VARIABLE_TABLE_SIZE - 1
      BY <2>4, <2>5, <2>9 DEF VM!LoadV
    <3>2. frames[frame].variable_table[VM!Arg] \in Value
      BY <2>3, <3>1 DEF FrameOf
    <3> QED BY <1>3, <2>6, <2>9, <3>2 DEF VM!LoadV, VM!Stop, Keeping, VM!StatusType
  <2>10. CASE VM!Store
    <3>1. VM!Arg \in 0..REGISTERS
      BY <2>4, <2>5, <2>10 DEF VM!Store
    <3> QED BY <1>3, <2>10, <3>1 DEF VM!Store, Keeping
  <2>11. CASE VM!Arithmetic
    <3>1. PICK op \in ArithOps :
            /\ VM!Fetch(op)
            /\ LET o == VM!Arith(op, r[0], r[VM!Arg])
               IN  IF o.status = "ok"
                   THEN VM!Result(o.value) /\ UNCHANGED <<arg_count, out, vm_status>>
                   ELSE VM!Stop(o.status)
      BY <2>11 DEF VM!Arithmetic, ArithOps
    <3>2. VM!Arg \in 0..REGISTERS
      BY <2>4, <2>5, <3>1 DEF ArithOps, BinOps
    <3>3. r[VM!Arg] \in Value
      BY <1>3, <3>2
    <3>4. PICK o : o = VM!Arith(op, r[0], r[VM!Arg])
      OBVIOUS
    <3>5. o.status \in Endings /\ (o.status = "ok" => o.value \in Value)
      BY <1>3, <3>3, <3>4, ArithEnds, ArithValue
    <3>6. CASE o.status = "ok"
      BY <1>3, <2>6, <3>1, <3>4, <3>5, <3>6 DEF Keeping
    <3>7. CASE o.status # "ok"
      BY <1>3, <3>1, <3>4, <3>5, <3>7 DEF Keeping, VM!Stop, Endings, VM!StatusType
    <3> QED BY <3>6, <3>7
  <2>12. CASE VM!Eq
    <3>1. globals[2] \in Value /\ globals[1] \in Value
      BY <1>2
    <3> QED BY <1>3, <2>6, <2>12, <3>1 DEF VM!Eq, Keeping
  <2>13. CASE VM!Args
    <3>1. VM!Arg \in Nat
      BY <2>4, <2>5, <2>13 DEF VM!Args
    <3> QED BY <1>3, <2>13, <3>1 DEF VM!Args, Keeping
  <2>14. CASE VM!Assert
    BY <1>3, <2>14 DEF VM!Assert, VM!Stop, Keeping, VM!StatusType
  <2>15. CASE VM!Var \/ VM!Jmp \/ VM!JmpF \/ VM!Leave \/ VM!Call
    BY <1>3, <2>15 DEF VM!Var, VM!Jmp, VM!JmpF, VM!Leave, VM!Call, Keeping
  <2>16. CASE VM!WriteArguments
    <3>1. PICK e : /\ e.call = Vm_builtins[VM!Arg] /\ e.call \in {"print", "println"}
                   /\ out' = Append(out, e)
      BY <2>16 DEF VM!WriteArguments
    <3> QED BY <1>3, <2>16, <3>1 DEF VM!WriteArguments, Keeping
  <2>17. CASE VM!CallBuiltin
    <3>1. /\ pc \in Addresses /\ Op(bytecode, pc) = "BUILTIN" /\ VM!Arg = To(bytecode, pc)
          /\ Vm_builtins[VM!Arg] \notin {"print", "println"}
      BY <2>4, <2>17 DEF VM!CallBuiltin
    <3>2. PICK b : b = Vm_builtins[VM!Arg]
      OBVIOUS
    <3>3. b \in Runtime \ {"print", "println"}
      BY <1>1, <3>1, <3>2, BuiltinNamed
    <3>4. PICK o : o = VM!BuiltinOutcome(b)
      OBVIOUS
    <3>5. o.status \in Endings /\ (o.status = "ok" => o.value \in Value)
      BY <1>3, <3>3, <3>4, BuiltinEnds, BuiltinValue
    <3>6. IF o.status = "ok"
          THEN VM!Result(o.value) /\ arg_count' = 1 /\ UNCHANGED <<out, vm_status>>
          ELSE VM!Stop(o.status)
      BY <2>17, <3>2, <3>4 DEF VM!CallBuiltin
    <3>7. CASE o.status = "ok"
      BY <1>3, <2>6, <3>5, <3>6, <3>7 DEF Keeping
    <3>8. CASE o.status # "ok"
      BY <1>3, <3>5, <3>6, <3>8 DEF Keeping, VM!Stop, Endings, VM!StatusType
    <3> QED BY <3>7, <3>8
  <2> QED BY <1>1, <1>6, <2>7, <2>8, <2>9, <2>10, <2>11, <2>12, <2>13, <2>14, <2>15, <2>16, <2>17
       DEF VM!Next
<1> QED BY <1>4, <1>5, <1>6

LEMMA KeptTyped ==
    ASSUME Typed, Keeping
    PROVE  /\ r' \in [0..REGISTERS -> Value] /\ arg_count' \in Nat
           /\ \E X : out' \in Seq(X)
           /\ \A k \in 1..Len(out') : out'[k].call \in {"print", "println"}
           /\ vm_status' \in VM!StatusType
PROOF
<1>1. r' \in [0..REGISTERS -> Value]
  BY DEF Typed, Keeping
<1>2. CASE out' = out
  BY <1>1, <1>2 DEF Typed, Keeping
<1>3. CASE out' # out
  <2>1. PICK e : e.call \in {"print", "println"} /\ out' = Append(out, e)
    BY <1>3 DEF Keeping
  <2>2. PICK X : out \in Seq(X)
    BY DEF Typed
  <2>3. PICK Y : Y = X \cup {e}
    OBVIOUS
  <2>4. out \in Seq(Y) /\ e \in Y
    BY <2>2, <2>3
  <2>5. out' \in Seq(Y)
    BY <2>1, <2>4
  <2>6. \A k \in 1..Len(out') : out'[k].call \in {"print", "println"}
    <3> TAKE k \in 1..Len(out')
    <3>1. Len(out') = Len(out) + 1 /\ Len(out) \in Nat
      BY <2>1, <2>4
    <3>2. CASE k \in 1..Len(out)
      <4>1. out'[k] = out[k]
        BY <2>1, <2>4, <3>2
      <4> QED BY <3>2, <4>1 DEF Typed
    <3>3. CASE k = Len(out) + 1
      <4>1. out'[k] = e
        BY <2>1, <2>4, <3>3
      <4> QED BY <2>1, <4>1
    <3> QED BY <3>1, <3>2, <3>3
  <2> QED BY <1>1, <2>5, <2>6 DEF Keeping
<1> QED BY <1>2, <1>3

LEMMA StillHeaded ==
    ASSUME NEW B, Headed(B), UNCHANGED bytecode
    PROVE  Headed(B)'
  BY DEF Headed, Header0, Loads, Op, To, Addresses

LEMMA StepFrames ==
    ASSUME CodeInv, MachineInv, Typed, Vm_run
    PROVE  \E B, n, s, m, t : Headed(B)' /\ Machine(B, Value, n, s, m, t)'
PROOF
<1>1. UNCHANGED bytecode /\ Code
  BY VmSteps
<1>2. CASE VM!Init /\ VM!Boot
  <2>1. PICK B : Executable(B) /\ Headed(B)
    BY VmSteps, CodeExecutable DEF CodeInv
  <2>2. Headed(B)'
    BY <1>1, <2>1, StillHeaded
  <2>3. None \in Value
    BY ValueNames
  <2>4. \E s, m, t : Machine(B, Value, 1, s, m, t)'
    BY <1>1, <1>2, <2>1, <2>3, BootMachine
  <2> QED BY <2>2, <2>4
<1>3. CASE ~(VM!Init /\ VM!Boot)
  <2>1. vm_status # "idle" /\ (Simple \/ VM!Var \/ VM!Call \/ VM!Leave)
    BY <1>3, VmSteps
  <2>2. PICK B, n, s, m, t : Headed(B) /\ Machine(B, Value, n, s, m, t)
    BY <2>1 DEF Typed
  <2>3. Headed(B)'
    BY <1>1, <2>2, StillHeaded
  <2>4. r[0] \in Value
    BY SizeAssumption DEF Typed
  <2>5. CASE Simple
    <3>1. Machine(B, Value, n, s, m, t)'
      BY <1>1, <2>2, <2>5, SimpleMachine
    <3> QED BY <2>3, <3>1
  <2>6. CASE VM!Var
    <3>1. Machine(B, Value, n, s, m, t)'
      BY <1>1, <2>2, <2>4, <2>6, VarMachine
    <3> QED BY <2>3, <3>1
  <2>7. CASE VM!Call
    <3>1. \E f, l, u : Machine(B, Value, n + 1, Pushed(n, s, f), l, u)'
      BY <1>1, <2>2, <2>7, CallMachine
    <3> QED BY <2>3, <3>1
  <2>8. CASE VM!Leave
    <3>1. \E l, u : Machine(B, Value, n - 1, Popped(n, s), l, u)'
      BY <1>1, <2>2, <2>8, LeaveMachine
    <3> QED BY <2>3, <3>1
  <2> QED BY <2>1, <2>5, <2>6, <2>7, <2>8
<1> QED BY <1>2, <1>3

LEMMA StepTyped ==
    ASSUME NumbersClosed, CodeInv, MachineInv, Typed, [MainNext]_vars
    PROVE  Typed'
PROOF
<1>1. CASE UNCHANGED machineVars /\ vm_status = "idle"
  BY <1>1 DEF machineVars, Typed
<1>2. CASE UNCHANGED machineVars /\ UNCHANGED ccVars /\ vm_status # "idle"
  <2>1. PICK B, n, s, m, t : Headed(B) /\ Machine(B, Value, n, s, m, t)
    BY <1>2 DEF Typed
  <2>2. Simple /\ Code /\ UNCHANGED bytecode
    BY <1>2 DEF Simple, machineVars, ccVars, CodeInv, IInv
  <2>3. Machine(B, Value, n, s, m, t)' /\ Headed(B)'
    BY <2>1, <2>2, SimpleMachine, StillHeaded
  <2> QED BY <1>2, <2>3 DEF Typed, machineVars
<1>3. CASE Vm_run
  <2>1. Keeping
    BY <1>3, StepKeeping
  <2>2. \E B, n, s, m, t : Headed(B)' /\ Machine(B, Value, n, s, m, t)'
    BY <1>3, StepFrames
  <2> QED BY <2>1, <2>2, KeptTyped DEF Typed
<1> QED BY <1>1, <1>2, <1>3, MainSteps

(* While no function is redefined where it is in use, every register and   *)
(* every variable of every frame holds a value, the program counter is in  *)
(* the code or at its end, and the links of a frame name frames: no        *)
(* instruction of vm.c:60-244 reads an operand that is not there.          *)
THEOREM MachineTyped ==
    ASSUME NumbersClosed
    PROVE  MainSpec /\ []NoneRedefined => []MachineTypeOK
PROOF
<1>1. MainInit => Typed
  <2> SUFFICES ASSUME MainInit PROVE Typed
    OBVIOUS
  <2>1. VM!Init
    BY DEF MainInit
  <2>2. r \in [0..REGISTERS -> Value]
    BY <2>1, Names0, ValueNames DEF VM!Init
  <2>3. out \in Seq({}) /\ Len(out) = 0
    BY <2>1 DEF VM!Init
  <2> QED BY <2>1, <2>2, <2>3 DEF Typed, VM!Init, VM!StatusType
<1>2. CodeInv /\ MachineInv /\ Typed /\ [MainNext]_vars => Typed'
  BY StepTyped
<1>3. CodeInv /\ MachineInv /\ Typed => MachineTypeOK
  BY TypedOK
<1> QED BY <1>1, <1>2, <1>3, MachineKept, PTL DEF MainSpec
=============================================================================
