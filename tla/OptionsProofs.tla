---------------------------- MODULE OptionsProofs ----------------------------
(***************************************************************************)
(* The options mean what the words say, for every command line and every   *)
(* table of options, as long as the hash tells their names apart.          *)
(*                                                                         *)
(* LastOneWins speaks of a line that is parsed or refused.  What is        *)
(* inductive is the same of the words read so far, and that the word to be *)
(* read next is one of its own, not the value of the option before it.     *)
(***************************************************************************)
EXTENDS Options, TLAPS, FiniteSetTheorems

(* No two options share a name or a letter, as main's do not (main.c:54-   *)
(* 102), and no long word on the line has the hash of an option it does    *)
(* not name (6cl.c:338-405 compares the hashes only).                      *)
FlagsDiffer ==
    /\ Len(Flags) \in Nat /\ SIX_MAX_REST \in Nat
    /\ \A f, g \in Options :
          Flags[f].name = Flags[g].name \/ Flags[f].short = Flags[g].short => f = g
Line ==
    /\ \E W : argv \in Seq(W)
    /\ \A p \in 1..Len(argv) :
          /\ argv[p].form \in {"rest", "short", "long"}
          /\ \A f \in Options :
                argv[p].form = "long" /\ NameHash[Flags[f].name] = NameHash[argv[p].name]
                    => Flags[f].name = argv[p].name

Spec == Line /\ Init /\ [][Next]_<<argv, sixVars>>

(* What the words before i say. *)
Before(T, i) == {p \in T : p < i}
Valued(f, p) ==
    IF Flags[f].type = "BOOL" THEN TRUE ELSE Converted(Flags[f].type, argv[p + 1].text)
SaidBefore(f, i) ==
    IF Before(Uses(f), i) = {} THEN Flags[f].default ELSE Valued(f, Max(Before(Uses(f), i)))
Rank(p) == Cardinality({q \in Places : q <= p})
Collected(i, r) ==
    /\ \E W : r \in Seq(W)
    /\ Len(r) = Cardinality(Before(Places, i))
    /\ \A p \in Before(Places, i) : r[Rank(p)] = argv[p]
Refused == (\E p \in Own : ~Sound(p)) \/ Cardinality(Places) >= SIX_MAX_REST

Progress(i, v, r) ==
    /\ i \in 1..Len(argv) + 1
    /\ i <= Len(argv) => i \in Own
    /\ \A p \in Own : p < i => Sound(p)
    /\ v = [f \in Options |-> SaidBefore(f, i)]
    /\ Collected(i, r)

SixInv ==
    /\ Line /\ Progress(arg_i, value, rest)
    /\ six_status = "parsed" => arg_i = Len(argv) + 1
    /\ six_status = "usage" => Refused

-----------------------------------------------------------------------------
(* The words of a line                                                     *)

(* A set of numbers has a least one. *)
LEMMA Least ==
    ASSUME NEW T \in SUBSET Nat, T # {}
    PROVE  \E x \in T : \A y \in T : x <= y
PROOF
<1>1. PICK x \in T : \A y \in T : ~(<<y, x>> \in OpToRel(<, Nat))
  BY WFMin, NatLessThanWellFounded
<1>2. \A y \in T : ~(y < x)
  BY <1>1 DEF OpToRel
<1> QED BY <1>2

(* the equation that defines own, up to n *)
Follows(f, n) ==
    \A p \in 1..n : f[p] = (p = 1 \/ ~(f[p - 1] /\ Wants(argv[p - 1])))

LEMMA Following ==
    ASSUME NEW n \in Nat
    PROVE  \E f : f \in [1..n -> BOOLEAN] /\ Follows(f, n)
PROOF
<1> DEFINE Has(k) == \E f : f \in [1..k -> BOOLEAN] /\ Follows(f, k)
           S == {k \in Nat : ~Has(k)}
<1> SUFFICES S = {}
  OBVIOUS
<1> SUFFICES ASSUME S # {} PROVE FALSE
  OBVIOUS
<1>1. PICK k \in S : \A j \in S : k <= j
  BY Least
<1>2. Has(0)
  <2>1. [p \in 1..0 |-> TRUE] \in [1..0 -> BOOLEAN] /\ Follows([p \in 1..0 |-> TRUE], 0)
    BY DEF Follows
  <2> QED BY <2>1
<1>3. k - 1 \in Nat /\ k \in Nat
  <2> HIDE DEF Has
  <2>1. k \in Nat /\ k # 0
    BY <1>1, <1>2
  <2> QED BY <2>1
<1>4. PICK f : f \in [1..k - 1 -> BOOLEAN] /\ Follows(f, k - 1)
  <2>1. k - 1 \notin S
    BY <1>1, <1>3
  <2> QED BY <1>3, <2>1
<1>5. PICK last \in BOOLEAN : last = (k = 1 \/ ~(f[k - 1] /\ Wants(argv[k - 1])))
  OBVIOUS
<1>6. PICK g : g = [p \in 1..k |-> IF p = k THEN last ELSE f[p]]
  OBVIOUS
<1>7. g \in [1..k -> BOOLEAN]
  BY <1>3, <1>4, <1>6
<1>8. Follows(g, k)
  <2> SUFFICES ASSUME NEW p \in 1..k PROVE g[p] = (p = 1 \/ ~(g[p - 1] /\ Wants(argv[p - 1])))
    BY DEF Follows
  <2>1. CASE p = 1
    <3>1. CASE k = 1
      BY <1>3, <1>5, <1>6, <2>1, <3>1
    <3>2. CASE k # 1
      <4>1. p \in 1..k - 1
        BY <1>3, <2>1, <3>2
      <4> QED BY <1>4, <1>6, <2>1, <4>1 DEF Follows
    <3> QED BY <3>1, <3>2
  <2>2. CASE p # 1
    <3>1. p - 1 \in 1..k - 1 /\ p - 1 \in 1..k /\ p - 1 # k
      BY <1>3, <2>2
    <3>2. g[p - 1] = f[p - 1]
      BY <1>6, <3>1
    <3>3. CASE p = k
      BY <1>5, <1>6, <2>2, <3>2, <3>3
    <3>4. CASE p # k
      <4>1. p \in 1..k - 1
        BY <1>3, <3>4
      <4> QED BY <1>4, <1>6, <3>2, <3>4, <4>1 DEF Follows
    <3> QED BY <3>3, <3>4
  <2> QED BY <2>1, <2>2
<1> QED BY <1>1, <1>7, <1>8

LEMMA OwnFollows ==
    ASSUME Len(argv) \in Nat
    PROVE  /\ Follows(own, Len(argv))
           /\ own \in [1..Len(argv) -> BOOLEAN]
PROOF
<1>1. PICK f : f \in [1..Len(argv) -> BOOLEAN] /\ Follows(f, Len(argv))
  BY Following
<1>2. f = [p \in 1..Len(argv) |-> p = 1 \/ ~(f[p - 1] /\ Wants(argv[p - 1]))]
  BY <1>1, Zenon DEF Follows
<1>3. own = [p \in 1..Len(argv) |-> p = 1 \/ ~(own[p - 1] /\ Wants(argv[p - 1]))]
  BY <1>2 DEF own
<1> QED BY <1>3 DEF Follows

(* A word is one of its own unless the one before it is and wants a value. *)
LEMMA OwnWords ==
    ASSUME Len(argv) \in Nat
    PROVE  /\ Own \subseteq 1..Len(argv)
           /\ \A p \in 1..Len(argv) :
                 p \in Own <=> p = 1 \/ ~(p - 1 \in Own /\ Wants(argv[p - 1]))
PROOF
<1>1. ASSUME NEW p \in 1..Len(argv)
      PROVE  p \in Own <=> p = 1 \/ ~(p - 1 \in Own /\ Wants(argv[p - 1]))
  <2>1. own[p] = (p = 1 \/ ~(own[p - 1] /\ Wants(argv[p - 1])))
    BY OwnFollows DEF Follows
  <2>2. p # 1 => p - 1 \in 1..Len(argv)
    OBVIOUS
  <2> QED BY <2>1, <2>2 DEF Own
<1> QED BY <1>1 DEF Own

LEMMA OwnNumbers ==
    ASSUME Line
    PROVE  /\ Len(argv) \in Nat /\ Own \subseteq 1..Len(argv)
           /\ Own \subseteq Int /\ Places \subseteq Own /\ Places \subseteq Int
PROOF
<1>1. Len(argv) \in Nat
  BY DEF Line
<1>2. Own \subseteq 1..Len(argv)
  BY <1>1, OwnWords
<1>3. Places \subseteq Own
  BY DEF Places
<1> QED BY <1>1, <1>2, <1>3

(* All this depends on the line alone, which stays. *)
LEMMA OwnStays == ASSUME UNCHANGED argv PROVE Own' = Own
PROOF
<1>1. own' = own
  BY DEF own, Wants, Named, Options
<1> QED BY <1>1 DEF Own

LEMMA LineStays ==
    ASSUME UNCHANGED argv
    PROVE  /\ Line' <=> Line
           /\ Refused' <=> Refused
           /\ \A i, v, r : Progress(i, v, r)' <=> Progress(i, v, r)
PROOF
<1>1. Own' = Own
  BY OwnStays
<1>2. \A f : Uses(f)' = Uses(f)
  BY <1>1 DEF Uses, Named, Options
<1>3. Places' = Places
  BY <1>1 DEF Places
<1>4. \A p : Sound(p)' <=> Sound(p)
  BY DEF Sound, Named, Wants, Options, Accepts
<1>5. ASSUME NEW f, NEW i PROVE SaidBefore(f, i)' = SaidBefore(f, i)
  <2>1. Before(Uses(f), i)' = Before(Uses(f), i)
    BY <1>2 DEF Before
  <2>2. \A p : Valued(f, p)' = Valued(f, p)
    BY DEF Valued, Converted
  <2>3. PICK m : m = Max(Before(Uses(f), i))
    OBVIOUS
  <2>4. m = Max(Before(Uses(f), i))'
    BY <2>1, <2>3 DEF Max
  <2>5. Valued(f, Max(Before(Uses(f), i)))' = Valued(f, m)
    BY <2>2, <2>4 DEF Valued, Converted
  <2> QED BY <2>1, <2>3, <2>5 DEF SaidBefore
<1>6. \A i, r : Collected(i, r)' <=> Collected(i, r)
  BY <1>3 DEF Collected, Before, Rank
<1>7. Line' <=> Line
  BY DEF Line, Options
<1>8. Refused' <=> Refused
  BY <1>1, <1>3, <1>4 DEF Refused
<1>9. \A i, v, r : Progress(i, v, r)' <=> Progress(i, v, r)
  BY <1>1, <1>4, <1>5, <1>6 DEF Progress, Options
<1> QED BY <1>7, <1>8, <1>9


-----------------------------------------------------------------------------
(* Reading on                                                              *)

(* What the lookup finds is what the word names, one option at most. *)
LEMMA FoundIsNamed ==
    ASSUME FlagsDiffer, Line, arg_i \in 1..Len(argv)
    PROVE  /\ Matching = Named(Word) /\ Matching \subseteq Options
           /\ \A f, g \in Matching : f = g
           /\ Word.form = "rest" => Matching = {}
PROOF
<1>1. /\ Word.form \in {"rest", "short", "long"}
      /\ \A f \in Options :
            Word.form = "long" /\ NameHash[Flags[f].name] = NameHash[Word.name]
                => Flags[f].name = Word.name
  BY DEF Line, Word
<1>2. CASE Word.form = "rest"
  BY <1>2 DEF Matching, Named
<1>3. CASE Word.form = "short"
  <2>1. Matching = {f \in Options : Flags[f].short = Word.name}
    BY <1>3 DEF Matching
  <2>2. Named(Word) = {f \in Options : Flags[f].short = Word.name}
    BY <1>3 DEF Named
  <2> QED BY <1>3, <2>1, <2>2 DEF FlagsDiffer
<1>4. CASE Word.form = "long"
  <2>1. Matching = {f \in Options : NameHash[Flags[f].name] = NameHash[Word.name]}
    BY <1>4 DEF Matching
  <2>2. Named(Word) = {f \in Options : Flags[f].name = Word.name}
    BY <1>4 DEF Named
  <2>3. Matching = Named(Word)
    BY <1>1, <1>4, <2>1, <2>2
  <2> QED BY <1>4, <2>2, <2>3 DEF FlagsDiffer
<1> QED BY <1>1, <1>2, <1>3, <1>4

(* The word at i and, if it wants one, its value have been read: j is next. *)
Reads(i, j) ==
    /\ i \in 1..Len(argv) /\ i \in Own /\ Sound(i) /\ j \in 1..Len(argv) + 1
    /\ j = IF Wants(argv[i]) THEN i + 2 ELSE i + 1

LEMMA ReadOn ==
    ASSUME Line, NEW i, NEW j, Reads(i, j),
           \A p \in Own : p < i => Sound(p)
    PROVE  /\ j <= Len(argv) => j \in Own
           /\ \A p \in Own : p < j => Sound(p)
           /\ \A T \in SUBSET Own :
                 Before(T, j) = IF i \in T THEN Before(T, i) \cup {i} ELSE Before(T, i)
PROOF
<1>1. /\ Len(argv) \in Nat /\ i \in 1..Len(argv) /\ i \in Own /\ j \in 1..Len(argv) + 1
      /\ j = IF Wants(argv[i]) THEN i + 2 ELSE i + 1
  BY DEF Line, Reads
<1>2. /\ Own \subseteq 1..Len(argv)
      /\ \A p \in 1..Len(argv) : p \in Own <=> p = 1 \/ ~(p - 1 \in Own /\ Wants(argv[p - 1]))
  BY <1>1, OwnWords
<1>3. Wants(argv[i]) => i + 1 \notin Own
  <2>1. PICK k : k = i + 1
    OBVIOUS
  <2>2. k - 1 = i /\ k # 1
    BY <1>1, <2>1
  <2> QED BY <1>1, <1>2, <2>1, <2>2
<1>4. \A p \in Own : p < j <=> p < i \/ p = i
  BY <1>1, <1>2, <1>3
<1>5. ASSUME j <= Len(argv) PROVE j \in Own
  <2>1. j \in 1..Len(argv) /\ j - 1 \in Int /\ j # 1
    BY <1>1, <1>5
  <2>2. j \in Own <=> ~(j - 1 \in Own /\ Wants(argv[j - 1]))
    BY <1>2, <2>1
  <2>3. j - 1 = IF Wants(argv[i]) THEN i + 1 ELSE i
    BY <1>1
  <2> QED BY <1>3, <2>2, <2>3
<1>6. \A p \in Own : p < j => Sound(p)
  BY <1>4 DEF Reads
<1>7. ASSUME NEW T \in SUBSET Own
      PROVE  Before(T, j) = IF i \in T THEN Before(T, i) \cup {i} ELSE Before(T, i)
  BY <1>4 DEF Before
<1> QED BY <1>5, <1>6, <1>7

(* The last of the words before j is i, if i is one of them. *)
LEMMA LastIs ==
    ASSUME NEW T \in SUBSET Int, NEW i \in Int
    PROVE  Max(Before(T, i) \cup {i}) = i
PROOF
<1>1. PICK S : S = Before(T, i) \cup {i}
  OBVIOUS
<1>2. i \in S /\ \A k \in S : k \in Int /\ i >= k
  BY <1>1 DEF Before
<1>3. \A m \in S : (\A k \in S : m >= k) => m = i
  BY <1>2
<1>4. Max(S) = i
  BY <1>2, <1>3 DEF Max
<1> QED BY <1>1, <1>4

(* An option the word names gets a value, and no other does. *)
LEMMA ValueSaid ==
    ASSUME Line, NEW i, NEW j, Reads(i, j), \A p \in Own : p < i => Sound(p),
           NEW f \in Options, Named(argv[i]) = {f}
    PROVE  [[g \in Options |-> SaidBefore(g, i)] EXCEPT ![f] = Valued(f, i)]
              = [g \in Options |-> SaidBefore(g, j)]
PROOF
<1>0. \A T \in SUBSET Own :
          Before(T, j) = IF i \in T THEN Before(T, i) \cup {i} ELSE Before(T, i)
  BY ReadOn
<1>1. i \in Own /\ Own \subseteq Int /\ i \in Int
  BY OwnNumbers DEF Reads
<1>2. \A g : Uses(g) \subseteq Own /\ (i \in Uses(g) <=> g = f)
  BY <1>1 DEF Uses
<1>3. SaidBefore(f, j) = Valued(f, i)
  <2>1. Before(Uses(f), j) = Before(Uses(f), i) \cup {i}
    BY <1>0, <1>1, <1>2
  <2>2. Max(Before(Uses(f), j)) = i
    BY <1>1, <1>2, <2>1, LastIs
  <2> QED BY <2>1, <2>2 DEF SaidBefore
<1>4. ASSUME NEW g \in Options, g # f PROVE SaidBefore(g, j) = SaidBefore(g, i)
  BY <1>0, <1>2, <1>4 DEF SaidBefore
<1> QED BY <1>3, <1>4

LEMMA NothingSaid ==
    ASSUME Line, NEW i, NEW j, Reads(i, j), \A p \in Own : p < i => Sound(p),
           Named(argv[i]) = {}
    PROVE  \A g : SaidBefore(g, j) = SaidBefore(g, i)
PROOF
<1>1. \A T \in SUBSET Own :
          Before(T, j) = IF i \in T THEN Before(T, i) \cup {i} ELSE Before(T, i)
  BY ReadOn
<1>2. \A g : Uses(g) \subseteq Own /\ i \notin Uses(g)
  BY DEF Uses
<1> QED BY <1>1, <1>2 DEF SaidBefore

(* A word that is no option is collected. *)
LEMMA PlacesFinite ==
    ASSUME Line
    PROVE  \A T \in SUBSET Places : IsFiniteSet(T) /\ Cardinality(T) \in Nat
PROOF
<1>1. Places \subseteq 1..Len(argv) /\ IsFiniteSet(1..Len(argv))
  BY OwnNumbers, FS_Interval
<1> QED BY <1>1, FS_Subset, FS_CardinalityType

LEMMA RestCollected ==
    ASSUME Line, NEW i, NEW j, Reads(i, j), \A p \in Own : p < i => Sound(p),
           argv[i].form = "rest", NEW r, Collected(i, r)
    PROVE  Collected(j, Append(r, argv[i])) /\ Len(r) + 1 <= Cardinality(Places)
PROOF
<1>1. i \in Own /\ Own \subseteq Int /\ i \in Int /\ Places \subseteq Int
  BY OwnNumbers DEF Reads
<1>2. Places \subseteq Own /\ i \in Places
  BY <1>1 DEF Places
<1>3. Before(Places, j) = Before(Places, i) \cup {i}
  BY <1>2, ReadOn
<1>4. PICK B, n : B = Before(Places, i) /\ n = Cardinality(B)
  OBVIOUS
<1>5. B \subseteq Places /\ i \notin B
  BY <1>1, <1>4 DEF Before
<1>6. n \in Nat /\ Cardinality(B \cup {i}) = n + 1 /\ n + 1 <= Cardinality(Places)
  <2>1. IsFiniteSet(B) /\ n \in Nat /\ IsFiniteSet(Places)
    BY <1>4, <1>5, PlacesFinite
  <2>2. Cardinality(B \cup {i}) = n + 1
    BY <1>4, <1>5, <2>1, FS_AddElement
  <2>3. B \cup {i} \subseteq Places
    BY <1>2, <1>5
  <2>4. Cardinality(B \cup {i}) <= Cardinality(Places)
    BY <2>1, <2>3, FS_Subset
  <2> QED BY <2>1, <2>2, <2>4
<1>7. PICK W : r \in Seq(W)
  BY DEF Collected
<1>8. PICK s : s = Append(r, argv[i])
  OBVIOUS
<1>9. /\ s \in Seq(W \cup {argv[i]}) /\ Len(s) = n + 1 /\ Len(r) = n
      /\ s[n + 1] = argv[i] /\ \A k \in 1..n : s[k] = r[k]
  <2>1. Len(r) = n
    BY <1>4 DEF Collected
  <2> QED BY <1>7, <1>8, <2>1
<1>10. ASSUME NEW p \in B PROVE s[Rank(p)] = argv[p]
  <2>1. PICK Q : Q = {q \in Places : q <= p}
    OBVIOUS
  <2>2. p \in Int /\ p < i /\ p \in Places
    BY <1>1, <1>2, <1>4 DEF Before
  <2>3. Q \subseteq B /\ p \in Q
    <3>1. \A q \in Places : q <= p => q < i
      BY <1>1, <2>2
    <3>2. p <= p
      BY <2>2
    <3>3. Q \subseteq B
      BY <1>4, <2>1, <3>1 DEF Before
    <3> QED BY <2>1, <2>2, <3>2, <3>3
  <2>4. Cardinality(Q) \in 1..n
    <3>1. IsFiniteSet(B) /\ IsFiniteSet(Q) /\ Cardinality(Q) \in Nat
      BY <1>5, <2>3, PlacesFinite
    <3>2. Cardinality(Q) # 0
      BY <2>3, <3>1, FS_EmptySet
    <3>3. Cardinality(Q) <= n
      BY <1>4, <2>3, <3>1, FS_Subset
    <3> QED BY <1>6, <3>1, <3>2, <3>3
  <2>5. r[Rank(p)] = argv[p]
    BY <1>4 DEF Collected
  <2> QED BY <1>9, <2>1, <2>4, <2>5 DEF Rank
<1>11. s[Rank(i)] = argv[i]
  <2>1. {q \in Places : q <= i} = B \cup {i}
    <3>1. \A q \in Places : q <= i <=> q < i \/ q = i
      BY <1>1
    <3> QED BY <1>2, <1>4, <3>1 DEF Before
  <2> QED BY <1>6, <1>9, <2>1 DEF Rank
<1>12. Collected(j, s)
  <2>1. Before(Places, j) = B \cup {i}
    BY <1>3, <1>4
  <2>2. \A p \in B \cup {i} : s[Rank(p)] = argv[p]
    BY <1>10, <1>11
  <2> QED BY <1>6, <1>9, <2>1, <2>2 DEF Collected
<1> QED BY <1>6, <1>8, <1>9, <1>12

LEMMA NothingCollected ==
    ASSUME Line, NEW i, NEW j, Reads(i, j), \A p \in Own : p < i => Sound(p),
           argv[i].form # "rest", NEW r, Collected(i, r)
    PROVE  Collected(j, r)
PROOF
<1>1. Places \subseteq Own /\ i \notin Places
  BY DEF Places
<1>2. Before(Places, j) = Before(Places, i)
  BY <1>1, ReadOn
<1> QED BY <1>2 DEF Collected

-----------------------------------------------------------------------------
(* The steps                                                               *)

LEMMA InitSixInv == FlagsDiffer /\ Line /\ Init => SixInv
PROOF
<1> SUFFICES ASSUME FlagsDiffer, Line, Init PROVE SixInv
  OBVIOUS
<1>1. /\ arg_i = 1 /\ rest = <<>> /\ six_status = "parsing"
      /\ value = [f \in Options |-> Flags[f].default]
  BY DEF Init
<1>2. Len(argv) \in Nat /\ Own \subseteq 1..Len(argv) /\ Places \subseteq Own
  BY OwnNumbers
<1>3. \A T \in SUBSET Own : Before(T, 1) = {}
  <2>1. \A p \in Own : ~(p < 1)
    BY <1>2
  <2> QED BY <2>1 DEF Before
<1>4. 1 <= Len(argv) => 1 \in Own
  BY <1>2, OwnWords
<1>5. \A f : SaidBefore(f, 1) = Flags[f].default
  <2>1. \A f : Uses(f) \subseteq Own
    BY DEF Uses
  <2> QED BY <1>3, <2>1 DEF SaidBefore
<1>6. Collected(1, <<>>)
  <2>1. Before(Places, 1) = {} /\ Cardinality({}) = 0
    BY <1>2, <1>3, FS_EmptySet
  <2>2. <<>> \in Seq({}) /\ Len(<<>>) = 0
    OBVIOUS
  <2> QED BY <2>1, <2>2 DEF Collected
<1>7. 1 \in 1..Len(argv) + 1 /\ \A p \in Own : ~(p < 1)
  BY <1>2
<1>8. Progress(1, value, <<>>)
  BY <1>1, <1>4, <1>5, <1>6, <1>7 DEF Progress
<1> QED BY <1>1, <1>8 DEF SixInv

(* The option that gets the value is the one the word names. *)
LEMMA RegisteredIsNamed ==
    ASSUME FlagsDiffer, Line, arg_i \in 1..Len(argv), Matching # {}
    PROVE  Registered \in Options /\ Named(Word) = {Registered} /\ Word.form # "rest"
PROOF
<1>1. PICK f : f \in Matching
  OBVIOUS
<1>2. /\ Matching = {f} /\ f \in Options /\ Named(Word) = Matching /\ Word.form # "rest"
  BY <1>1, FoundIsNamed
<1>3. f \in Int
  BY <1>2 DEF FlagsDiffer, Options
<1>4. PICK S : S = {f}
  OBVIOUS
<1>5. Max(S) = f
  <2>1. f >= f
    BY <1>3
  <2> QED BY <1>4, <2>1 DEF Max
<1> QED BY <1>2, <1>4, <1>5 DEF Registered

(* The parser stops, for a reason if it refuses the line. *)
LEMMA StopKeeps ==
    ASSUME SixInv, UNCHANGED argv, NEW why, Stop(why),
           why = "parsed" => arg_i = Len(argv) + 1,
           why = "usage" => Refused
    PROVE  SixInv'
PROOF
<1>1. PICK i, v, r : i = arg_i /\ v = value /\ r = rest
  OBVIOUS
<1>2. arg_i' = i /\ value' = v /\ rest' = r /\ six_status' = why
  BY <1>1 DEF Stop
<1>3. Line' /\ Progress(i, v, r)' /\ (Refused' <=> Refused)
  BY <1>1, LineStays DEF SixInv
<1>4. Progress(arg_i, value, rest)'
  BY <1>2, <1>3 DEF Progress
<1> QED BY <1>1, <1>2, <1>3, <1>4 DEF SixInv

(* The parser reads on. *)
LEMMA ProgressKeeps ==
    ASSUME SixInv, UNCHANGED <<argv, six_status>>, six_status = "parsing",
           NEW i, NEW v, NEW r, i = arg_i', v = value', r = rest', Progress(i, v, r)
    PROVE  SixInv'
PROOF
<1>1. Line' /\ Progress(i, v, r)'
  BY LineStays DEF SixInv
<1>2. Progress(arg_i, value, rest)'
  BY <1>1 DEF Progress
<1> QED BY <1>1, <1>2 DEF SixInv

LEMMA StepSixInv == FlagsDiffer /\ SixInv /\ [Next]_<<argv, sixVars>> => SixInv'
PROOF
<1> SUFFICES ASSUME FlagsDiffer, SixInv, Next PROVE SixInv'
  <2>1. CASE UNCHANGED <<argv, sixVars>>
    <3>1. UNCHANGED <<argv, arg_i, value, rest, six_status>>
      BY <2>1 DEF sixVars
    <3>2. PICK i, v, r : i = arg_i /\ v = value /\ r = rest
      OBVIOUS
    <3>3. SixInv => Line' /\ Progress(i, v, r)' /\ (Refused' <=> Refused)
      BY <3>1, <3>2, LineStays DEF SixInv
    <3>4. SixInv => Progress(arg_i, value, rest)'
      BY <3>1, <3>2, <3>3 DEF Progress
    <3> QED BY <3>1, <3>3, <3>4 DEF SixInv
  <2> QED BY <2>1
<1> USE DEF SixInv
<1>1. UNCHANGED argv
  BY DEF Next
<1>2. /\ arg_i \in 1..Len(argv) + 1
      /\ arg_i <= Len(argv) => arg_i \in Own
      /\ \A p \in Own : p < arg_i => Sound(p)
      /\ value = [f \in Options |-> SaidBefore(f, arg_i)] /\ Collected(arg_i, rest)
      /\ Line /\ Len(argv) \in Nat
  BY DEF Progress, Line
<1>3. ASSUME Parsing
      PROVE  /\ arg_i \in 1..Len(argv) /\ arg_i \in Own /\ six_status = "parsing"
             /\ Word = argv[arg_i]
  <2>1. arg_i <= Len(argv) /\ six_status = "parsing"
    BY <1>3 DEF Parsing
  <2>2. arg_i \in 1..Len(argv)
    <3>1. arg_i \in 1..Len(argv) + 1 /\ Len(argv) \in Nat
      BY <1>2
    <3> QED BY <2>1, <3>1
  <2> QED BY <1>2, <2>1, <2>2 DEF Word
<1>4. CASE RestArgument
  <2>1. Parsing /\ Word.form = "rest"
    BY <1>4 DEF RestArgument
  <2>2. Named(Word) = {}
    BY <1>2, <1>3, <2>1, FoundIsNamed
  <2>3. Reads(arg_i, arg_i + 1)
    BY <1>2, <1>3, <2>1, <2>2 DEF Reads, Sound, Wants
  <2>4. Collected(arg_i + 1, Append(rest, Word)) /\ Len(rest) + 1 <= Cardinality(Places)
    BY <1>2, <1>3, <2>1, <2>3, RestCollected
  <2>5. CASE Len(rest) + 1 >= SIX_MAX_REST
    <3>1. Stop("usage")
      BY <1>4, <2>5 DEF RestArgument
    <3>2. Len(rest) \in Nat /\ Cardinality(Places) \in Nat /\ SIX_MAX_REST \in Nat
      BY <1>2, PlacesFinite DEF Collected, FlagsDiffer
    <3>3. Cardinality(Places) >= SIX_MAX_REST
      BY <2>4, <2>5, <3>2
    <3> QED BY <1>1, <3>1, <3>3, StopKeeps DEF Refused
  <2>6. CASE ~(Len(rest) + 1 >= SIX_MAX_REST)
    <3>1. /\ rest' = Append(rest, Word) /\ arg_i' = arg_i + 1
          /\ UNCHANGED <<value, six_status>>
      BY <1>4, <2>6 DEF RestArgument
    <3>2. \A g : SaidBefore(g, arg_i + 1) = SaidBefore(g, arg_i)
      BY <1>2, <1>3, <2>1, <2>2, <2>3, NothingSaid
    <3>3. PICK j : j = arg_i + 1
      OBVIOUS
    <3>4. /\ j \in 1..Len(argv) + 1
          /\ j <= Len(argv) => j \in Own
          /\ \A p \in Own : p < j => Sound(p)
      BY <1>2, <2>3, <3>3, ReadOn DEF Reads
    <3>5. value = [g \in Options |-> SaidBefore(g, j)]
      BY <1>2, <3>2, <3>3
    <3>6. PICK r : r = Append(rest, Word)
      OBVIOUS
    <3>7. Collected(j, r)
      BY <2>4, <3>3, <3>6
    <3>8. Progress(j, value, r)
      BY <3>4, <3>5, <3>7 DEF Progress
    <3> QED BY <1>1, <1>3, <2>1, <3>1, <3>3, <3>6, <3>8, ProgressKeeps
  <2> QED BY <2>5, <2>6
<1>5. CASE Help
  BY <1>1, <1>5, StopKeeps DEF Help
<1>6. CASE UnknownOption
  <2>1. Parsing /\ Word.form # "rest" /\ Matching = {} /\ Stop("usage")
    BY <1>6 DEF UnknownOption
  <2>2. Named(Word) = {}
    BY <1>2, <1>3, <2>1, FoundIsNamed
  <2>3. Refused
    BY <1>3, <2>1, <2>2 DEF Refused, Sound
  <2> QED BY <1>1, <2>1, <2>3, StopKeeps
<1>7. ASSUME AtOption
      PROVE  /\ Parsing /\ Registered \in Options /\ Named(Word) = {Registered}
             /\ Word.form # "rest"
             /\ Wants(Word) <=> Flags[Registered].type # "BOOL"
  <2>1. Parsing /\ Matching # {}
    BY <1>7 DEF AtOption
  <2> QED BY <1>2, <1>3, <2>1, RegisteredIsNamed DEF Wants
<1>8. CASE SetFlag \/ SetFlagTo
  <2>1. PICK f, i : f = Registered /\ i = arg_i
    OBVIOUS
  <2>2. /\ f \in Options /\ Named(argv[i]) = {f} /\ argv[i].form # "rest"
        /\ i \in 1..Len(argv) /\ i \in Own /\ six_status = "parsing"
        /\ Wants(argv[i]) <=> Flags[f].type # "BOOL"
    BY <1>3, <1>7, <1>8, <2>1 DEF SetFlag, SetFlagTo, ValueGiven, TakesValue
  <2>3. PICK j : j = IF Wants(argv[i]) THEN i + 2 ELSE i + 1
    OBVIOUS
  <2>4. arg_i' = j /\ UNCHANGED <<rest, six_status>> /\ value' = [value EXCEPT ![f] = Valued(f, i)]
    <3>1. CASE SetFlag
      BY <2>1, <2>2, <2>3, <3>1 DEF SetFlag, Set, Valued
    <3>2. CASE SetFlagTo
      <4>1. Flags[f].type # "BOOL"
        BY <2>1, <3>2 DEF SetFlagTo, ValueGiven, TakesValue
      <4> QED BY <2>1, <2>2, <2>3, <3>2, <4>1 DEF SetFlagTo, Set, Valued
    <3> QED BY <1>8, <3>1, <3>2
  <2>5. Sound(i) /\ j \in 1..Len(argv) + 1
    <3>1. CASE SetFlag
      <4>1. ~Wants(argv[i])
        BY <2>1, <2>2, <3>1 DEF SetFlag
      <4> QED BY <1>2, <2>2, <2>3, <4>1 DEF Sound
    <3>2. CASE SetFlagTo
      <4>1. arg_i < Len(argv) /\ Accepts(Flags[f].type, argv[i + 1].text) /\ Flags[f].type # "BOOL"
        BY <2>1, <3>2 DEF SetFlagTo, ValueGiven, TakesValue
      <4> QED BY <1>2, <2>1, <2>2, <2>3, <4>1 DEF Sound
    <3> QED BY <1>8, <3>1, <3>2
  <2>6. Reads(i, j)
    BY <2>2, <2>3, <2>5 DEF Reads
  <2>7. /\ j <= Len(argv) => j \in Own
        /\ \A p \in Own : p < j => Sound(p)
    BY <1>2, <2>1, <2>6, ReadOn
  <2>8. value' = [g \in Options |-> SaidBefore(g, j)]
    BY <1>2, <2>1, <2>2, <2>4, <2>6, ValueSaid
  <2>9. Collected(j, rest)
    BY <1>2, <2>1, <2>2, <2>6, NothingCollected
  <2>10. PICK v : v = value'
    OBVIOUS
  <2>11. Progress(j, v, rest)
    BY <2>5, <2>7, <2>8, <2>9, <2>10 DEF Progress
  <2> QED BY <1>1, <2>2, <2>4, <2>10, <2>11, ProgressKeeps
<1>9. CASE BadValue
  <2>1. AtOption /\ Flags[Registered].type # "BOOL" /\ ~ValueGiven /\ Stop("usage")
    BY <1>9 DEF BadValue, TakesValue
  <2>2. /\ arg_i \in Own /\ Named(argv[arg_i]) = {Registered} /\ Wants(argv[arg_i])
    BY <1>3, <1>7, <2>1
  <2>3. ~(arg_i < Len(argv) /\ Accepts(Flags[Registered].type, argv[arg_i + 1].text))
    BY <2>1 DEF ValueGiven, TakesValue
  <2>4. ~Sound(arg_i)
    BY <2>2, <2>3 DEF Sound
  <2> QED BY <1>1, <2>1, <2>2, <2>4, StopKeeps DEF Refused
<1>10. CASE End
  <2>1. Stop("parsed") /\ arg_i = Len(argv) + 1
    <3>1. arg_i \in 1..Len(argv) + 1 /\ Len(argv) \in Nat
      BY <1>2
    <3>2. arg_i > Len(argv) /\ Stop("parsed")
      BY <1>10 DEF End
    <3> QED BY <3>1, <3>2
  <2> QED BY <1>1, <2>1, StopKeeps
<1> QED BY <1>4, <1>5, <1>6, <1>8, <1>9, <1>10 DEF Next

(* Whatever the order of the words, an option has the value its last use    *)
(* gives it, a value is never taken for an option or a file, and the other  *)
(* words are the rest arguments in their order; a line is refused only for  *)
(* a reason (6cl.c:333-405): for every line and every table of options.     *)
THEOREM LastUseWins == ASSUME FlagsDiffer PROVE Spec => []LastOneWins
PROOF
<1>1. SixInv => LastOneWins
  <2> SUFFICES ASSUME SixInv PROVE LastOneWins
    OBVIOUS
  <2>1. ASSUME six_status = "parsed"
        PROVE  /\ \A p \in Own : Sound(p)
               /\ value = [f \in Options |-> Said(f)]
               /\ Len(rest) = Cardinality(Places)
               /\ \A p \in Places : rest[Cardinality({q \in Places : q <= p})] = argv[p]
    <3>1. /\ arg_i = Len(argv) + 1 /\ Line /\ Progress(arg_i, value, rest)
      BY <2>1 DEF SixInv
    <3>2. \A p \in Own : p < arg_i
      BY <3>1, OwnNumbers
    <3>3. \A T \in SUBSET Own : Before(T, arg_i) = T
      BY <3>2 DEF Before
    <3>4. \A f : Uses(f) \subseteq Own
      BY DEF Uses
    <3>5. ASSUME NEW f PROVE SaidBefore(f, arg_i) = Said(f)
      <4>1. Before(Uses(f), arg_i) = Uses(f)
        BY <3>3, <3>4
      <4> QED BY <4>1 DEF SaidBefore, Said, Valued
    <3>6. Collected(arg_i, rest) /\ Before(Places, arg_i) = Places
      BY <3>1, <3>3, OwnNumbers DEF Progress
    <3>7. Len(rest) = Cardinality(Places) /\ \A p \in Places : rest[Rank(p)] = argv[p]
      BY <3>6 DEF Collected
    <3> QED BY <3>1, <3>2, <3>5, <3>7 DEF Progress, Rank
  <2> QED BY <2>1 DEF LastOneWins, SixInv, Refused
<1> QED BY <1>1, InitSixInv, StepSixInv, PTL DEF Spec
=============================================================================
