--------------------------- MODULE FrontEndProofs ---------------------------
(***************************************************************************)
(* Lexer and parser, proved for every text and every size of the parser's  *)
(* stack: they keep their types, the parser stays inside the tokens, no    *)
(* token could be longer, exactly the balanced texts are accepted, every   *)
(* tree is one the compiler can take and is written back as the tokens it  *)
(* was read from, and numbers have the values their digits denote.         *)
(*                                                                         *)
(* That the parser stays inside is not inductive: advance looks at no      *)
(* bound.  It follows from what the lexer leaves, tokens that end with an  *)
(* end marker, and from the parser never passing one: it advances by two   *)
(* only where the second token is a builtin, an operator or a name.  That  *)
(* it accepts balanced texts follows from the depth of its stack being the *)
(* openers less the closers read; that trees fit, from all nodes built so  *)
(* far being in one set that is closed under children.                     *)
(***************************************************************************)
EXTENDS Reading, FiniteSetTheorems, SequenceTheorems, TLAPS

KeywordTypes == \A text \in Seq(STRING) : Keyword(text) \in {"T_TRUE", "T_FALSE", "T_IDENT"}

Spec == input \in Seq(STRING) /\ Init /\ [][Next]_vars

-----------------------------------------------------------------------------
(* The invariant.                                                          *)

Tokens == {t \in [type : L!TokenTypes, start : 0..Len(input), end : 0..Len(input)] :
              t.start <= t.end}

Ended == lex_status = "done" => out # <<>> /\ out[Len(out)].type = "T_EOF"

LexInv ==
    /\ input \in Seq(STRING)
    /\ pos \in 0..Len(input)
    /\ out \in Seq(Tokens) /\ Len(out) <= L!Size
    /\ lex_status \in {"lexing", "done", "aborted", "undefined"}
    /\ Ended

IsNode(n) == n = [type |-> n.type, token |-> n.token, children |-> n.children]
Stacked(s) ==
    /\ \E S : s \in Seq(S)
    /\ Len(s) \in 1..STACK_SIZE
    /\ \A d \in 1..Len(s) :
          IsNode(s[d]) /\ s[d].type \in P!NodeTypes /\ (s[d].type = "N_UNKNOWN" <=> d = 1)

ParseInv ==
    /\ p_pos \in 0..Len(out)
    /\ Stacked(open)
    /\ p_status \in {"parsing", "parsed", "aborted", "crashed", "undefined"}

Inside ==
    IF lex_status = "done" THEN p_status = "parsing" => p_pos < Len(out)
    ELSE p_pos = 0 /\ p_status = "parsing"

IInv == LexInv /\ ParseInv /\ Inside

-----------------------------------------------------------------------------
(* The lexer.                                                              *)

(* A set of numbers that holds n has a first element from p on. *)
LEMMA FirstFrom ==
    ASSUME NEW n \in Nat, NEW p \in 0..n, NEW T, n \in T
    PROVE  \E q \in p..n : q \in T /\ \A k \in p..q - 1 : k \notin T
PROOF
<1> DEFINE From == {k \in p..n : k \in T}
<1>1. From \subseteq Nat /\ From # {}
  OBVIOUS
<1>2. PICK q \in From : \A k \in From : <<k, q>> \notin OpToRel(<, Nat)
  BY <1>1, WFMin, NatLessThanWellFounded, Zenon
<1>3. \A k \in From : ~(k < q)
  BY <1>1, <1>2 DEF OpToRel
<1> QED BY <1>3

(* A run is of characters of its set only. *)
LEMMA RunEndRuns ==
    ASSUME Len(input) \in Nat, NEW p \in 0..Len(input), NEW S, "NUL" \notin S
    PROVE  /\ L!RunEnd(p, S) \in p..Len(input) /\ L!Char(L!RunEnd(p, S)) \notin S
           /\ \A k \in p..L!RunEnd(p, S) - 1 : L!Char(k) \in S
PROOF
<1> DEFINE T == {k \in 0..Len(input) : L!Char(k) \notin S}
<1>1. Len(input) \in T
  BY DEF L!Char
<1>2. PICK q \in p..Len(input) : q \in T /\ \A k \in p..q - 1 : k \notin T
  BY <1>1, FirstFrom
<1>3. L!Char(q) \notin S /\ \A k \in p..q - 1 : L!Char(k) \in S
  BY <1>2
<1> QED BY <1>3 DEF L!RunEnd

(* A run of characters ends at the last at the byte behind the input. *)
LEMMA RunEndInside ==
    ASSUME Len(input) \in Nat, NEW p \in 0..Len(input), NEW S, "NUL" \notin S
    PROVE  L!RunEnd(p, S) \in p..Len(input)
  BY RunEndRuns

(* So does a string or a comment. *)
LEMMA TextEndInside ==
    ASSUME Len(input) \in Nat, NEW p \in 0..Len(input), NEW close
    PROVE  L!TextEnd(p, close) \in p..Len(input)
PROOF
<1> DEFINE Stop(k) == ~L!Positive(k) \/ L!Char(k) = close
           T == {k \in 0..Len(input) : Stop(k)}
<1>1. Len(input) \in T
  BY DEF L!Char, L!Positive
<1>2. PICK q \in p..Len(input) : q \in T /\ \A k \in p..q - 1 : k \notin T
  BY <1>1, FirstFrom
<1>3. Stop(q) /\ \A k \in p..q - 1 : L!Positive(k) /\ L!Char(k) # close
  BY <1>2
<1> QED BY <1>3 DEF L!TextEnd

(* A character that is not the byte behind the input is inside it. *)
LEMMA CharInside ==
    ASSUME LexInv, L!Cur # "NUL"
    PROVE  pos < Len(input) /\ pos + 1 \in 0..Len(input)
  BY DEF LexInv, L!Cur, L!Char

(* There is room for at least one token. *)
LEMMA SizePositive == ASSUME LexInv PROVE L!Size \in Nat \ {0}
  BY SizeAssumption DEF LexInv, L!Size

(* Tokens that are typed can be written. *)
LEMMA EmitKeeps ==
    ASSUME LexInv, lex_status = "lexing", UNCHANGED input, pos' \in 0..Len(input),
           NEW ts \in Seq(Tokens), L!Emit(ts)
    PROVE  LexInv'
PROOF
<1>1. Tokens' = Tokens /\ (L!Size)' = L!Size
  BY DEF Tokens, L!Size
<1>2. CASE Len(out) + Len(ts) <= L!Size
  <2>1. out' = out \o ts /\ lex_status' = "lexing"
    BY <1>2 DEF L!Emit
  <2>2. out' \in Seq(Tokens) /\ Len(out') = Len(out) + Len(ts)
    BY <2>1 DEF LexInv
  <2> QED BY <1>1, <1>2, <2>1, <2>2 DEF LexInv, Ended
<1>3. CASE ~(Len(out) + Len(ts) <= L!Size)
  <2>1. out' = out /\ lex_status' = "undefined"
    BY <1>3 DEF L!Emit
  <2> QED BY <1>1, <2>1 DEF LexInv, Ended
<1> QED BY <1>2, <1>3

(* In the form the labels have it: a token, or several, and a new position. *)
LEMMA WriteKeeps ==
    ASSUME LexInv, lex_status = "lexing", NEW end \in 0..Len(input), L!MoveTo(end),
           NEW ts \in Seq(Tokens), L!Emit(ts)
    PROVE  LexInv'
  BY EmitKeeps DEF L!MoveTo, L!inputVars

LEMMA WriteOneKeeps ==
    ASSUME LexInv, lex_status = "lexing", NEW end \in 0..Len(input), L!MoveTo(end),
           NEW token \in Tokens, L!Emit(<<token>>)
    PROVE  LexInv'
PROOF
<1>1. <<token>> \in Seq(Tokens)
  OBVIOUS
<1> QED BY <1>1, WriteKeeps

(* A token without a text, and one whose text is a range of the input. *)
LEMMA InternedTyped ==
    ASSUME LexInv, NEW type \in L!TokenTypes
    PROVE  L!Interned(type) \in Tokens
  BY DEF LexInv, Tokens, L!Interned, L!Token

LEMMA TokenTyped ==
    ASSUME NEW type \in L!TokenTypes, NEW start \in 0..Len(input), NEW end \in 0..Len(input),
           start <= end
    PROVE  L!Token(type, start, end) \in Tokens
  BY DEF Tokens, L!Token

(* The invariant survives what writes no token and does not end well. *)
LEMMA SilentKeeps ==
    ASSUME LexInv, UNCHANGED <<input, out>>, pos' \in 0..Len(input),
           lex_status' \in {lex_status, "aborted", "undefined"}
    PROVE  LexInv'
PROOF
<1>1. Tokens' = Tokens /\ (L!Size)' = L!Size
  BY DEF Tokens, L!Size
<1> QED BY <1>1 DEF LexInv, Ended

(* The end marker is the last token when the lexer is done. *)
LEMMA EndKeeps ==
    ASSUME LexInv, L!EmptyInput \/ L!End
    PROVE  LexInv'
PROOF
<1> DEFINE marker == L!Interned("T_EOF")
<1>1. Tokens' = Tokens /\ (L!Size)' = L!Size /\ UNCHANGED <<input, pos>>
  BY DEF L!EmptyInput, L!End, L!inputVars, Tokens, L!Size
<1>2. marker \in Tokens /\ marker.type = "T_EOF"
  BY InternedTyped DEF L!TokenTypes, L!Interned, L!Token
<1>3. CASE L!EmptyInput
  <2>1. out' = <<marker>> /\ lex_status' = "done"
    BY <1>3 DEF L!EmptyInput
  <2> HIDE DEF marker
  <2> QED BY <1>1, <1>2, <2>1, SizePositive DEF LexInv, Ended
<1>4. CASE L!End /\ Len(out) < L!Size
  <2>1. out' = Append(out, marker) /\ lex_status' = "done"
    BY <1>4 DEF L!End
  <2> HIDE DEF marker
  <2>2. /\ out' \in Seq(Tokens) /\ Len(out') = Len(out) + 1
        /\ out'[Len(out')] = marker /\ out' # <<>>
    BY <1>2, <2>1 DEF LexInv
  <2> QED BY <1>1, <1>2, <1>4, <2>1, <2>2, SizePositive DEF LexInv, Ended
<1>5. CASE L!End /\ ~(Len(out) < L!Size)
  <2>1. out' = out /\ lex_status' = "undefined"
    BY <1>5 DEF L!End
  <2> QED BY <1>1, <2>1, SilentKeeps DEF LexInv
<1> QED BY <1>3, <1>4, <1>5

(* Every label keeps the invariant. *)
LEMMA LexKeeps ==
    ASSUME LexInv, KeywordTypes, L!Next
    PROVE  LexInv'
PROOF
<1>1. Len(input) \in Nat /\ pos \in 0..Len(input)
  BY DEF LexInv
<1>2. "NUL" \notin L!Alphanumeric /\ "NUL" \notin Digits /\ "NUL" \notin L!NumberChars
  BY ClassAssumption DEF L!Alphanumeric, L!NumberChars
<1>3. CASE L!EmptyInput \/ L!End
  BY <1>3, EndKeeps
<1>4. CASE L!Punctuate
  <2>1. L!Cur \in DOMAIN L!Punctuation
    BY <1>4 DEF L!Punctuate, L!Lexing
  <2>2. L!Cur # "NUL" /\ L!Punctuation[L!Cur] \in L!TokenTypes
    BY <2>1 DEF L!TokenTypes, L!Punctuation
  <2>3. <<L!Interned(L!Punctuation[L!Cur])>> \in Seq(Tokens)
    BY <2>2, InternedTyped
  <2> QED BY <1>4, <2>2, <2>3, CharInside, EmitKeeps
          DEF L!Punctuate, L!Lexing, L!Reading, L!MoveTo, L!inputVars
<1>5. CASE L!Builtin
  <2> DEFINE end == L!RunEnd(pos + 1, L!Alphanumeric)
             marker == IF end = pos + 1 THEN <<L!Interned("T_EOF")>> ELSE <<>>
             token == L!Token("T_BUILTIN", pos + 1, end)
  <2>1. L!Cur # "NUL"
    BY <1>5 DEF L!Builtin, L!Lexing
  <2>2. pos + 1 \in 0..Len(input) /\ end \in pos + 1..Len(input)
    BY <1>1, <1>2, <2>1, CharInside, RunEndInside
  <2>3. end \in 0..Len(input) /\ pos + 1 <= end
    <3> HIDE DEF end
    <3> QED BY <1>1, <2>2
  <2>4. marker \in Seq(Tokens)
    BY InternedTyped DEF L!TokenTypes
  <2>5. token \in Tokens
    BY <1>1, <2>2, <2>3, TokenTyped DEF L!TokenTypes
  <2>6. L!Emit(Append(marker, token)) /\ L!MoveTo(end) /\ lex_status = "lexing"
    BY <1>5 DEF L!Builtin, L!Lexing, L!Reading
  <2> HIDE DEF end, marker, token
  <2>7. Append(marker, token) \in Seq(Tokens)
    BY <2>4, <2>5
  <2> QED BY <2>6, <2>7, <2>3, WriteKeeps
<1>6. CASE L!Number
  <2> DEFINE end == L!RunEnd(pos, L!NumberChars)
             dots == {p \in pos..end - 1 : L!Char(p) = "."}
             type == IF dots = {} THEN "T_INTEGER" ELSE "T_DOUBLE"
  <2>1. end \in pos..Len(input)
    BY <1>1, <1>2, RunEndInside
  <2>2. /\ lex_status = "lexing"
        /\ \/ lex_status' = "aborted" /\ UNCHANGED <<input, pos, out>>
           \/ L!Emit(<<L!Token(type, pos, end)>>) /\ L!MoveTo(end)
    BY <1>6, Zenon DEF L!Number, L!Lexing, L!Reading, L!inputVars
  <2>3. end \in 0..Len(input) /\ pos <= end
    <3> HIDE DEF end
    <3> QED BY <1>1, <2>1
  <2> HIDE DEF end, dots
  <2>4. CASE lex_status' = "aborted" /\ UNCHANGED <<input, pos, out>>
    BY <1>1, <2>4, SilentKeeps
  <2>5. CASE L!Emit(<<L!Token(type, pos, end)>>) /\ L!MoveTo(end)
    <3>1. type \in L!TokenTypes
      BY DEF L!TokenTypes
    <3> HIDE DEF type
    <3>2. L!Token(type, pos, end) \in Tokens
      BY <1>1, <2>3, <3>1, TokenTyped
    <3> QED BY <2>5, <2>2, <2>3, <3>2, WriteOneKeeps
  <2> QED BY <2>4, <2>5, <2>2
<1>7. CASE L!Identifier
  <2> DEFINE end == L!RunEnd(pos, L!Alphanumeric)
             type == Keyword(SubSeq(input, pos + 1, end))
             token == IF type = "T_IDENT" THEN L!Token(type, pos, end) ELSE L!Interned(type)
  <2>1. end \in pos..Len(input)
    BY <1>1, <1>2, RunEndInside
  <2>2. SubSeq(input, pos + 1, end) \in Seq(STRING)
    BY <1>1, <2>1 DEF LexInv
  <2>3. type \in L!TokenTypes
    BY <2>2 DEF KeywordTypes, L!TokenTypes
  <2>4. L!Emit(<<token>>) /\ L!MoveTo(end) /\ lex_status = "lexing"
    BY <1>7 DEF L!Identifier, L!Lexing, L!Reading
  <2>5. token \in Tokens
    <3> HIDE DEF end, type
    <3> QED BY <1>1, <2>1, <2>3, TokenTyped, InternedTyped
  <2> HIDE DEF end, token
  <2>6. end \in 0..Len(input)
    BY <1>1, <2>1
  <2> QED BY <2>4, <2>5, <2>6, WriteOneKeeps
<1>8. CASE L!Quoted
  <2> DEFINE end == L!RunEnd(pos + 1, L!Alphanumeric)
             token == L!Token("T_STRING", pos + 1, end)
  <2>1. L!Cur # "NUL"
    BY <1>8 DEF L!Quoted, L!Lexing
  <2>2. pos + 1 \in 0..Len(input) /\ end \in pos + 1..Len(input)
    BY <1>1, <1>2, <2>1, CharInside, RunEndInside
  <2>3. end \in 0..Len(input) /\ pos + 1 <= end
    <3> HIDE DEF end
    <3> QED BY <1>1, <2>2
  <2>4. L!Emit(<<token>>) /\ L!MoveTo(end) /\ lex_status = "lexing"
    BY <1>8 DEF L!Quoted, L!Lexing, L!Reading
  <2>5. token \in Tokens
    BY <2>2, <2>3, TokenTyped DEF L!TokenTypes
  <2> HIDE DEF end, token
  <2> QED BY <2>4, <2>5, <2>3, WriteOneKeeps
<1>9. CASE L!String
  <2> DEFINE end == L!TextEnd(pos + 1, "quote")
             token == L!Token("T_STRING", pos + 1, end)
             marker == L!Interned("T_EOF")
  <2>1. L!Cur # "NUL"
    BY <1>9 DEF L!String, L!Lexing
  <2>2. pos + 1 \in 0..Len(input) /\ end \in pos + 1..Len(input)
    BY <1>1, <2>1, CharInside, TextEndInside
  <2>3. end \in 0..Len(input) /\ pos + 1 <= end
    <3> HIDE DEF end
    <3> QED BY <1>1, <2>2
  <2>4. lex_status = "lexing"
    BY <1>9 DEF L!String, L!Lexing, L!Reading
  <2>5. CASE L!Char(end) = "quote"
    <3>1. L!Emit(<<token>>) /\ L!MoveTo(end + 1)
      BY <1>9, <2>5 DEF L!String
    <3>2. token \in Tokens
      BY <2>2, <2>3, TokenTyped DEF L!TokenTypes
    <3>3. end + 1 \in 0..Len(input)
      BY <1>1, <2>2, <2>5 DEF L!Char
    <3> HIDE DEF end, token
    <3> QED BY <2>4, <3>1, <3>2, <3>3, WriteOneKeeps
  <2>6. CASE L!Char(end) # "quote"
    <3>1. L!Emit(<<marker>>) /\ L!MoveTo(end)
      BY <1>9, <2>6 DEF L!String
    <3>2. marker \in Tokens
      BY InternedTyped DEF L!TokenTypes
    <3> HIDE DEF end, marker
    <3> QED BY <2>4, <2>3, <3>1, <3>2, WriteOneKeeps
  <2> QED BY <2>5, <2>6
<1>10. CASE L!Comment
  <2>1. L!TextEnd(pos, "newline") \in 0..Len(input)
    BY <1>1, TextEndInside
  <2> QED BY <1>10, <2>1, SilentKeeps DEF L!Comment, L!MoveTo, L!inputVars
<1>11. CASE L!Whitespace
  <2>1. L!Cur # "NUL"
    BY <1>11 DEF L!Whitespace, L!Lexing, L!Blank
  <2> QED BY <1>11, <2>1, CharInside, SilentKeeps DEF L!Whitespace, L!MoveTo, L!inputVars
<1>12. CASE L!Unknown \/ L!ReadBehind
  BY <1>1, <1>12, SilentKeeps DEF L!Unknown, L!ReadBehind, L!inputVars
<1> QED BY <1>3, <1>4, <1>5, <1>6, <1>7, <1>8, <1>9, <1>10, <1>11, <1>12 DEF L!Next

-----------------------------------------------------------------------------
(* The parser.                                                             *)

(* A list is opened. *)
LEMMA OpenKeeps ==
    ASSUME Stacked(open), NEW node, IsNode(node),
           node.type \in P!NodeTypes \ {"N_UNKNOWN"}, P!Open(node)
    PROVE  Stacked(open') /\ p_status' \in {p_status, "undefined"}
PROOF
<1>1. PICK S : open \in Seq(S)
  BY DEF Stacked
<1>2. CASE Len(open) < STACK_SIZE
  <2>1. open' = Append(open, node) /\ p_status' = p_status
    BY <1>2 DEF P!Open
  <2>2. open' \in Seq(S \cup {node}) /\ Len(open') = Len(open) + 1
    BY <1>1, <2>1
  <2>3. \A d \in 1..Len(open') : open'[d] = IF d = Len(open) + 1 THEN node ELSE open[d]
    BY <1>1, <2>1
  <2> QED BY <1>1, <1>2, <2>1, <2>2, <2>3, SizeAssumption DEF Stacked
<1>3. CASE ~(Len(open) < STACK_SIZE)
  BY <1>3 DEF P!Open
<1> QED BY <1>2, <1>3

(* A node is added to the innermost list of stack. *)
LEMMA AddChildKeeps ==
    ASSUME Stacked(open), NEW stack, Stacked(stack), NEW child, P!AddChild(stack, child)
    PROVE  Stacked(open') /\ p_status' \in {p_status, "undefined"}
PROOF
<1>1. PICK S : stack \in Seq(S)
  BY DEF Stacked
<1>2. CASE open' = open /\ p_status' = "undefined"
  BY <1>2
<1>3. CASE /\ open' = [stack EXCEPT ![Len(stack)].children = Append(@, child)]
           /\ p_status' = p_status
  <2> DEFINE n == Len(stack)
             list == [stack[n] EXCEPT !.children = Append(@, child)]
  <2>1. n \in 1..Len(stack) /\ IsNode(stack[n])
    BY <1>1 DEF Stacked
  <2>2. IsNode(list) /\ list.type = stack[n].type
    BY <2>1 DEF IsNode
  <2>3. open' = [stack EXCEPT ![n] = list]
    BY <1>3
  <2> HIDE DEF list
  <2>4. open' \in Seq(S \cup {list}) /\ Len(open') = n
    BY <1>1, <2>1, <2>3
  <2>5. \A d \in 1..n : open'[d] = IF d = n THEN list ELSE stack[d]
    BY <1>1, <2>1, <2>3
  <2>6. \A d \in 1..n : /\ IsNode(open'[d]) /\ open'[d].type \in P!NodeTypes
                        /\ open'[d].type = "N_UNKNOWN" <=> d = 1
    <3> SUFFICES ASSUME NEW d \in 1..n
                 PROVE  /\ IsNode(open'[d]) /\ open'[d].type \in P!NodeTypes
                        /\ open'[d].type = "N_UNKNOWN" <=> d = 1
      OBVIOUS
    <3>1. IsNode(stack[d]) /\ stack[d].type \in P!NodeTypes
      BY DEF Stacked
    <3>2. stack[d].type = "N_UNKNOWN" <=> d = 1
      BY DEF Stacked
    <3>3. CASE d = n
      <4>1. open'[d] = list /\ list.type = stack[d].type /\ IsNode(list)
        BY <2>2, <2>5, <3>3
      <4> QED BY <3>1, <3>2, <4>1
    <3>4. CASE d # n
      BY <2>5, <3>1, <3>2, <3>4
    <3> QED BY <3>3, <3>4
  <2>7. Len(stack) \in 1..STACK_SIZE
    BY DEF Stacked
  <2> QED BY <1>3, <2>4, <2>6, <2>7 DEF Stacked
<1> QED BY <1>2, <1>3 DEF P!AddChild

(* The stack below its top is a stack, unless the top is the root. *)
LEMMA BelowStacked ==
    ASSUME Stacked(open), Len(open) > 1
    PROVE  Stacked(P!Below)
PROOF
<1>1. PICK S : open \in Seq(S)
  BY DEF Stacked
<1>2. P!Below \in Seq(S) /\ Len(P!Below) = Len(open) - 1
  BY <1>1 DEF P!Below
<1>3. \A d \in 1..Len(P!Below) : P!Below[d] = open[d]
  BY <1>1 DEF P!Below
<1> QED BY <1>1, <1>2, <1>3, SizeAssumption DEF Stacked

(* A token that is not the end marker has one behind it. *)
LEMMA NotLast ==
    ASSUME LexInv, lex_status = "done", NEW k \in 1..Len(out), out[k].type # "T_EOF"
    PROVE  k + 1 \in 1..Len(out)
  BY DEF LexInv, Ended

(* Every label keeps the invariant, and none leaves the tokens. *)
LEMMA ParseKeeps ==
    ASSUME IInv, lex_status = "done", P!Next
    PROVE  /\ p_pos' \in 0..Len(out)
           /\ Stacked(open')
           /\ p_status' \in {"parsing", "parsed", "aborted", "crashed", "undefined"}
           /\ p_status' = "parsing" => p_pos' < Len(out)
PROOF
<1> DEFINE current == out[p_pos + 1]
           Kept == /\ Stacked(open')
                   /\ p_status' \in {"parsing", "undefined"}
<1>1. /\ Stacked(open) /\ Len(out) \in Nat /\ p_pos \in 0..Len(out) /\ Len(open) \in Nat
      /\ P!Current = current
  BY DEF IInv, ParseInv, LexInv, Stacked, P!Current
<1>2. ASSUME NEW types, P!Parsing(types), "T_EOF" \notin types
      PROVE  /\ p_status = "parsing" /\ p_pos + 1 \in 1..Len(out)
             /\ current.type \in types /\ p_pos + 1 < Len(out)
  <2>1. p_status = "parsing" /\ p_pos + 1 \in 1..Len(out) /\ current.type \in types
    BY <1>1, <1>2 DEF P!Parsing, P!Available, P!Current
  <2>2. p_pos + 1 + 1 \in 1..Len(out)
    BY <1>2, <2>1, NotLast DEF IInv
  <2> QED BY <1>1, <2>1, <2>2
<1>3. ASSUME NEW types, P!Parsing(types), "T_EOF" \notin types, Kept, P!AdvanceBy(1)
      PROVE  p_pos' \in 0..Len(out) /\ p_pos' < Len(out)
  BY <1>1, <1>2, <1>3 DEF P!AdvanceBy
<1>4. CASE P!Atom \/ P!Ident
  <2>1. PICK types \in {P!Atoms, {"T_IDENT"}} :
            P!Parsing(types) /\ P!AdvanceBy(1) /\ \E node : P!AddChild(open, node)
    BY <1>4 DEF P!Atom, P!Ident
  <2>2. "T_EOF" \notin types /\ p_status = "parsing"
    BY <2>1 DEF P!Atoms, P!Parsing
  <2>3. Kept
    BY <1>1, <2>1, <2>2, AddChildKeeps
  <2> QED BY <1>3, <2>1, <2>2, <2>3
<1>5. CASE P!stmt_begin
  <2> DEFINE head == out[p_pos + 2]
             node == P!Node(P!HeadType(head), head, <<>>)
  <2>1. P!Parsing({"T_DELIMITOR_LEFT"}) /\ P!Open(node)
    BY <1>5 DEF P!stmt_begin
  <2>2. p_status = "parsing" /\ p_pos + 1 < Len(out)
    BY <1>2, <2>1
  <2>3. IsNode(node) /\ node.type \in P!NodeTypes \ {"N_UNKNOWN"}
    BY DEF IsNode, P!Node, P!HeadType, P!NodeTypes
  <2> HIDE DEF node
  <2>4. Kept
    BY <1>1, <2>1, <2>2, <2>3, OpenKeeps
  <2>5. CASE P!HeadType(head) = "N_LIST"
    <3>1. p_pos' = p_pos + 1
      BY <1>5, <2>5 DEF P!stmt_begin, P!AdvanceBy
    <3> QED BY <1>1, <2>2, <2>4, <3>1
  <2>6. CASE P!HeadType(head) # "N_LIST"
    <3>1. p_pos' = p_pos + 2
      BY <1>5, <2>6 DEF P!stmt_begin, P!AdvanceBy
    <3>2. head.type # "T_EOF"
      BY <2>6 DEF P!HeadType, P!Operators
    <3>3. p_pos + 2 \in 1..Len(out)
      BY <1>1, <2>2
    <3>4. p_pos + 2 + 1 \in 1..Len(out)
      BY <3>2, <3>3, NotLast DEF IInv
    <3> QED BY <1>1, <2>4, <3>1, <3>4
  <2> QED BY <2>5, <2>6
<1>6. CASE P!arr_start \/ P!obj_start
  <2>1. PICK type \in {"N_ARRAY", "N_OBJECT"}, opener \in {"T_BRAKET_LEFT", "T_CURLY_LEFT"} :
            /\ P!Parsing({opener}) /\ P!AdvanceBy(1)
            /\ P!Open(P!Node(type, P!NoToken, <<>>))
    BY <1>6 DEF P!arr_start, P!obj_start
  <2>2. /\ IsNode(P!Node(type, P!NoToken, <<>>))
        /\ P!Node(type, P!NoToken, <<>>).type \in P!NodeTypes \ {"N_UNKNOWN"}
    BY DEF IsNode, P!Node, P!NodeTypes
  <2>3. p_status = "parsing"
    BY <2>1 DEF P!Parsing
  <2>4. Kept
    BY <1>1, <2>1, <2>2, <2>3, OpenKeeps
  <2> QED BY <1>3, <2>1, <2>4
<1>7. CASE P!stmt_end \/ P!arr_end \/ P!obj_end
  <2>1. PICK type \in P!Closers : P!Close(type)
    BY <1>7 DEF P!stmt_end, P!arr_end, P!obj_end, P!Closers
  <2>2. "T_EOF" \notin {type} /\ p_status = "parsing"
    BY <2>1 DEF P!Close, P!Closers, P!Parsing
  <2>3. Stacked(P!Below) /\ P!AddChild(P!Below, P!Top)
    BY <1>1, <2>1, BelowStacked DEF P!Close
  <2>4. Kept
    BY <1>1, <2>2, <2>3, AddChildKeeps
  <2> QED BY <1>3, <2>1, <2>2, <2>4 DEF P!Close
<1>8. CASE P!UnexpectedEnd \/ P!MissingEnd \/ P!eof \/ P!NoTarget
  BY <1>1, <1>8 DEF P!UnexpectedEnd, P!MissingEnd, P!eof, P!NoTarget, P!Abort
<1> QED BY <1>4, <1>5, <1>6, <1>7, <1>8 DEF P!Next

-----------------------------------------------------------------------------
(* Both together.                                                          *)

LEMMA InitIInv == input \in Seq(STRING) /\ Init => IInv
PROOF
<1> SUFFICES ASSUME input \in Seq(STRING), Init PROVE IInv
  OBVIOUS
<1>1. Len(input) \in Nat /\ L!Size \in Nat
  BY SizeAssumption DEF L!Size
<1>2. LexInv
  BY <1>1 DEF Init, L!Init, LexInv, Ended
<1> DEFINE root == P!Node("N_UNKNOWN", P!NoToken, <<>>)
<1>3. IsNode(root) /\ root.type = "N_UNKNOWN" /\ root.type \in P!NodeTypes
  BY DEF IsNode, P!Node, P!NodeTypes
<1>4. open = <<root>>
  BY DEF Init, P!Init
<1> HIDE DEF root
<1>5. Stacked(open)
  <2>1. open \in Seq({root}) /\ Len(open) = 1 /\ open[1] = root
    BY <1>4
  <2> QED BY <1>3, <2>1, SizeAssumption DEF Stacked
<1> QED BY <1>2, <1>5 DEF Init, L!Init, P!Init, IInv, ParseInv, Inside, LexInv

LEMMA NextIInv == IInv /\ KeywordTypes /\ [Next]_vars => IInv'
PROOF
<1> SUFFICES ASSUME IInv, KeywordTypes, [Next]_vars PROVE IInv'
  OBVIOUS
<1>1. CASE Lex
  <2>1. LexInv' /\ UNCHANGED <<p_pos, open, p_status>>
    BY <1>1, LexKeeps DEF Lex, IInv, parserVars
  <2>2. lex_status = "lexing"
    BY <1>1 DEF Lex, L!Next, L!EmptyInput, L!Punctuate, L!Builtin, L!Number, L!Identifier,
                L!Quoted, L!String, L!Comment, L!Whitespace, L!Unknown, L!ReadBehind, L!End,
                L!Lexing, L!Reading
  <2>3. p_pos' = 0 /\ p_status' = "parsing" /\ Stacked(open')
    BY <2>1, <2>2 DEF IInv, Inside, ParseInv
  <2>4. Len(out') \in Nat /\ (lex_status' = "done" => Len(out') > 0)
    BY <2>1 DEF LexInv, Ended
  <2> QED BY <2>1, <2>3, <2>4 DEF IInv, ParseInv, Inside, Stacked
<1>2. CASE Parse
  <2>1. lex_status = "done" /\ P!Next /\ UNCHANGED lexerVars
    BY <1>2 DEF Parse
  <2>2. LexInv'
    BY <2>1 DEF IInv, LexInv, lexerVars, Tokens, L!Size, Ended
  <2> QED BY <2>1, <2>2, ParseKeeps DEF IInv, ParseInv, Inside, Stacked, lexerVars
<1>3. CASE UNCHANGED vars
  BY <1>3 DEF vars, lexerVars, parserVars, IInv, LexInv, Tokens, L!Size, Ended, ParseInv,
              Inside, Stacked, IsNode
<1> QED BY <1>1, <1>2, <1>3 DEF Next

(* Lexer and parser keep the inductive invariant, whatever the text        *)
(* (lexer.c, parser.c), if the keyword table gives each text one of the    *)
(* three types it can have (lexer.c:250-275).                              *)
THEOREM FrontEndInvariance == ASSUME KeywordTypes PROVE Spec => []IInv
PROOF
<1>1. IInv /\ [Next]_vars => IInv'
  BY NextIInv
<1> QED BY <1>1, InitIInv, PTL DEF Spec

(* Every variable of lexer and parser keeps its type, and every token is a *)
(* window into the text, for every text and every size.                    *)
THEOREM FrontEndTypeCorrect == ASSUME KeywordTypes PROVE Spec => []TypeOK
PROOF
<1>1. IInv => TypeOK
  <2> SUFFICES ASSUME IInv PROVE TypeOK
    OBVIOUS
  <2>1. L!TypeOK
    <3>1. \A k \in 1..Len(out) : out[k] \in Tokens
      BY DEF IInv, LexInv
    <3>2. \A k \in 1..Len(out) :
            /\ out[k].type \in L!TokenTypes
            /\ out[k].start \in 0..Len(input) /\ out[k].end \in out[k].start..Len(input)
      BY <3>1 DEF Tokens
    <3> QED BY <3>2 DEF L!TypeOK, IInv, LexInv
  <2>2. P!TypeOK
    BY DEF P!TypeOK, IInv, ParseInv, Stacked
  <2> QED BY <2>1, <2>2 DEF TypeOK
<1> QED BY <1>1, FrontEndInvariance, PTL

(* advance never reads behind the tokens the lexer wrote, though nothing   *)
(* in it checks (parser.c:20-23), for every text.                          *)
THEOREM ParserStaysInTokens == ASSUME KeywordTypes PROVE Spec => []StaysInTokens
PROOF
<1>1. IInv => StaysInTokens
  BY DEF IInv, Inside, StaysInTokens, P!StaysInTokens, P!Available
<1> QED BY <1>1, FrontEndInvariance, PTL
-----------------------------------------------------------------------------
(* Lexemes.                                                                *)

(* A run ends at a character that is not of its set. *)
LEMMA RunEndStops ==
    ASSUME Len(input) \in Nat, NEW p \in 0..Len(input), NEW S, "NUL" \notin S
    PROVE  L!RunEnd(p, S) \in p..Len(input) /\ L!Char(L!RunEnd(p, S)) \notin S
  BY RunEndRuns

(* The text of t is behind p, ends before q and cannot be longer. *)
Lexeme(t, p, q) ==
    L!Textual(t) => /\ p <= t.start /\ t.end <= q
                    /\ L!Char(t.end) \notin L!Extends(t)

(* Tokens of which only the last has a text are written, and the lexer     *)
(* moves on behind it.                                                     *)
LEMMA LexemesWritten ==
    ASSUME LexInv, L!LexemesMaximal, UNCHANGED input, pos' \in pos..Len(input),
           NEW ts \in Seq(Tokens), L!Emit(ts),
           \A k \in 1..Len(ts) : Lexeme(ts[k], pos, pos'),
           \A k \in 1..Len(ts) - 1 : ~L!Textual(ts[k])
    PROVE  (L!LexemesMaximal)'
PROOF
<1>1. /\ out \in Seq(Tokens) /\ Len(out) \in Nat /\ Len(ts) \in Nat
      /\ pos \in Nat /\ pos' \in Nat /\ pos <= pos'
  BY DEF LexInv
<1>2. \A t : /\ (L!Textual(t))' <=> L!Textual(t)
             /\ (L!Char(t.end) \notin L!Extends(t))' <=> (L!Char(t.end) \notin L!Extends(t))
  BY DEF L!Textual, L!Char, L!Extends
<1>3. PICK all, n, m, p, q : all = out' /\ n = Len(out) /\ m = Len(ts) /\ p = pos /\ q = pos'
  OBVIOUS
<1>4. /\ \A j, k \in 1..n :
            j < k /\ L!Textual(out[j]) /\ L!Textual(out[k]) => out[j].end <= out[k].start
      /\ \A k \in 1..n : L!Textual(out[k]) =>
            L!Char(out[k].end) \notin L!Extends(out[k]) /\ out[k].end <= p
  BY <1>3 DEF L!LexemesMaximal
<1>5. CASE all = out
  <2>1. \A k \in 1..n : out[k] \in Tokens /\ out[k].end \in Nat
    BY <1>1, <1>3 DEF Tokens
  <2>2. \A k \in 1..n : L!Textual(out[k]) => out[k].end <= q
    BY <1>1, <1>3, <1>4, <2>1
  <2> QED BY <1>2, <1>3, <1>4, <1>5, <2>2 DEF L!LexemesMaximal
<1>6. CASE all = out \o ts
  <2>1. /\ Len(all) = n + m
        /\ \A k \in 1..n + m : all[k] = IF k <= n THEN out[k] ELSE ts[k - n]
    BY <1>1, <1>3, <1>6
  <2>2. \A k \in 1..n : k \in 1..n + m /\ all[k] = out[k]
    BY <1>1, <1>3, <2>1
  <2>3. \A k \in n + 1..n + m : k - n \in 1..m /\ all[k] = ts[k - n]
    BY <1>1, <1>3, <2>1
  <2>4. /\ \A k \in 1..n : out[k].start \in Nat /\ out[k].end \in Nat
        /\ \A k \in 1..m : ts[k].start \in Nat /\ ts[k].end \in Nat
    BY <1>1, <1>3 DEF Tokens
  <2>5. ASSUME NEW k \in 1..n + m, L!Textual(all[k])
        PROVE  L!Char(all[k].end) \notin L!Extends(all[k]) /\ all[k].end <= q
    <3>1. CASE k \in 1..n
      BY <1>1, <1>3, <1>4, <2>2, <2>4, <2>5, <3>1
    <3>2. CASE k \in n + 1..n + m
      BY <1>3, <2>3, <2>5, <3>2 DEF Lexeme
    <3> QED BY <1>1, <1>3, <3>1, <3>2
  <2>6. ASSUME NEW j \in 1..n + m, NEW k \in 1..n + m, j < k, L!Textual(all[j]), L!Textual(all[k])
        PROVE  all[j].end <= all[k].start
    <3>1. CASE j \in 1..n /\ k \in 1..n
      BY <1>4, <2>2, <2>6, <3>1
    <3>2. CASE j \in 1..n /\ k \in n + 1..n + m
      <4>1. out[j].end <= p
        BY <1>4, <2>2, <2>6, <3>2
      <4>2. PICK i \in 1..m : all[k] = ts[i]
        BY <2>3, <3>2
      <4>3. p <= ts[i].start
        BY <1>3, <2>6, <4>2 DEF Lexeme
      <4>4. all[j] = out[j] /\ out[j].end \in Nat /\ ts[i].start \in Nat /\ p \in Nat
        BY <1>1, <1>3, <2>2, <2>4, <3>2
      <4>5. out[j].end <= ts[i].start
        BY <4>1, <4>3, <4>4
      <4> QED BY <4>2, <4>4, <4>5
    <3>3. CASE j \in n + 1..n + m
      <4>1. j - n \in 1..m - 1
        BY <1>1, <1>3, <2>6, <3>3
      <4> QED BY <1>3, <2>3, <2>6, <3>3, <4>1
    <3>4. /\ j \in 1..n \/ j \in n + 1..n + m
          /\ k \in 1..n \/ k \in n + 1..n + m
      BY <1>1, <1>3
    <3> QED BY <3>1, <3>2, <3>3, <3>4
  <2> QED BY <1>2, <1>3, <2>1, <2>5, <2>6 DEF L!LexemesMaximal
<1> QED BY <1>3, <1>5, <1>6 DEF L!Emit

LEMMA LexemeWritten ==
    ASSUME LexInv, L!LexemesMaximal, NEW end \in pos..Len(input), L!MoveTo(end),
           NEW token \in Tokens, L!Emit(<<token>>), Lexeme(token, pos, end)
    PROVE  (L!LexemesMaximal)'
PROOF
<1>1. PICK ts : ts = <<token>>
  OBVIOUS
<1>2. ts \in Seq(Tokens) /\ Len(ts) = 1 /\ ts[1] = token
  BY <1>1
<1>3. pos' = end /\ UNCHANGED input
  BY DEF L!MoveTo, L!inputVars
<1>4. /\ \A k \in 1..Len(ts) : Lexeme(ts[k], pos, pos')
      /\ \A k \in 1..Len(ts) - 1 : ~L!Textual(ts[k])
  BY <1>2, <1>3
<1> QED BY <1>1, <1>2, <1>3, <1>4, LexemesWritten

(* What writes nothing moves on at most. *)
LEMMA SilentMaximal ==
    ASSUME LexInv, L!LexemesMaximal, UNCHANGED <<input, out>>, pos' \in pos..Len(input)
    PROVE  (L!LexemesMaximal)'
PROOF
<1>1. \A k \in 1..Len(out) : out[k].end \in Nat
  BY DEF LexInv, Tokens
<1>2. pos \in Nat /\ pos' \in Nat /\ pos <= pos'
  BY DEF LexInv
<1>3. \A k \in 1..Len(out) : L!Textual(out[k]) => out[k].end <= pos'
  BY <1>1, <1>2 DEF L!LexemesMaximal
<1> QED BY <1>3 DEF L!LexemesMaximal, L!Textual, L!Char, L!Extends

(* Every label keeps the tokens in order and maximal. *)
LEMMA LexKeepsMaximal ==
    ASSUME LexInv, KeywordTypes, L!LexemesMaximal, L!Next
    PROVE  (L!LexemesMaximal)'
PROOF
<1>1. Len(input) \in Nat /\ pos \in 0..Len(input) /\ pos \in Nat
  BY DEF LexInv
<1>2. "NUL" \notin L!Alphanumeric /\ "NUL" \notin Digits /\ "NUL" \notin L!NumberChars
  BY ClassAssumption DEF L!Alphanumeric, L!NumberChars
<1>3. CASE L!EmptyInput \/ L!End
  <2>1. PICK marker : marker = L!Interned("T_EOF")
    OBVIOUS
  <2>2. UNCHANGED <<input, pos>>
    BY <1>3 DEF L!EmptyInput, L!End, L!inputVars
  <2>3. marker \in Tokens /\ ~L!Textual(marker)
    BY <2>1, InternedTyped DEF L!TokenTypes, L!Interned, L!Token, L!Textual
  <2>4. CASE out' = out
    BY <1>1, <2>2, <2>4, SilentMaximal
  <2>5. CASE out' # out
    <3>1. /\ L!Size \in Nat \ {0} /\ lex_status' = "done"
          /\ out' = <<marker>> \/ out' = Append(out, marker)
      BY <1>3, <2>1, <2>5, SizePositive DEF L!EmptyInput, L!End
    <3>2. CASE out' = <<marker>>
      BY <2>3, <3>2 DEF L!LexemesMaximal, L!Textual
    <3>3. CASE out' = Append(out, marker)
      <4>1. \A k \in 1..Len(out') : (L!Textual(out'[k])) => k \in 1..Len(out) /\ out'[k] = out[k]
        BY <2>3, <3>3 DEF LexInv
      <4>2. Len(out') \in Nat
        BY <2>3, <3>3 DEF LexInv
      <4> QED BY <2>2, <4>1, <4>2 DEF L!LexemesMaximal, L!Textual, L!Char, L!Extends
    <3> QED BY <3>1, <3>2, <3>3
  <2> QED BY <2>4, <2>5
<1>4. CASE L!Punctuate
  <2>1. L!Cur \in DOMAIN L!Punctuation /\ UNCHANGED input /\ pos' = pos + 1
    BY <1>4 DEF L!Punctuate, L!Lexing, L!MoveTo, L!inputVars
  <2>2. PICK token : token = L!Interned(L!Punctuation[L!Cur])
    OBVIOUS
  <2>3. L!Cur # "NUL" /\ token \in Tokens
    <3>1. L!Cur # "NUL" /\ L!Punctuation[L!Cur] \in L!TokenTypes
      BY <2>1 DEF L!TokenTypes, L!Punctuation
    <3> QED BY <2>2, <3>1, InternedTyped
  <2>4. ~L!Textual(token)
    BY <2>1, <2>2 DEF L!Punctuation, L!Interned, L!Token, L!Textual
  <2>5. pos + 1 \in pos..Len(input)
    BY <1>1, <2>3, CharInside
  <2>6. L!Emit(<<token>>) /\ L!MoveTo(pos + 1)
    BY <1>4, <2>2 DEF L!Punctuate
  <2> QED BY <2>3, <2>4, <2>5, <2>6, LexemeWritten DEF Lexeme
<1>5. CASE L!Builtin
  <2> DEFINE end == L!RunEnd(pos + 1, L!Alphanumeric)
             marker == IF end = pos + 1 THEN <<L!Interned("T_EOF")>> ELSE <<>>
             token == L!Token("T_BUILTIN", pos + 1, end)
  <2>1. L!Cur # "NUL"
    BY <1>5 DEF L!Builtin, L!Lexing
  <2>2. /\ pos + 1 \in 0..Len(input) /\ end \in pos + 1..Len(input)
        /\ L!Char(end) \notin L!Alphanumeric
    BY <1>1, <1>2, <2>1, CharInside, RunEndStops
  <2>3. L!Emit(Append(marker, token)) /\ pos' = end /\ UNCHANGED input
    BY <1>5 DEF L!Builtin, L!MoveTo, L!inputVars
  <2>4. \A k \in 1..Len(marker) : ~L!Textual(marker[k])
    BY DEF L!Textual, L!Interned, L!Token
  <2>5. marker \in Seq(Tokens)
    BY InternedTyped DEF L!TokenTypes
  <2>6. token.type = "T_BUILTIN" /\ token.start = pos + 1 /\ token.end = end
    BY DEF L!Token
  <2>7. end \in 0..Len(input) /\ pos + 1 <= end
    <3> HIDE DEF end
    <3> QED BY <1>1, <2>2
  <2>8. token \in Tokens
    BY <2>2, <2>7, TokenTyped DEF L!TokenTypes
  <2> HIDE DEF end, marker, token
  <2>9. Lexeme(token, pos, end)
    BY <1>1, <2>2, <2>6, <2>7 DEF Lexeme, L!Extends
  <2>10. PICK ts : ts = Append(marker, token)
    OBVIOUS
  <2>11. /\ ts \in Seq(Tokens) /\ Len(ts) = Len(marker) + 1 /\ ts[Len(marker) + 1] = token
         /\ \A k \in 1..Len(marker) : ts[k] = marker[k]
    BY <2>5, <2>8, <2>10
  <2>12. \A k \in 1..Len(ts) - 1 : ~L!Textual(ts[k])
    BY <2>4, <2>5, <2>11
  <2>13. \A k \in 1..Len(ts) : Lexeme(ts[k], pos, end)
    <3>1. Len(marker) \in Nat
      BY <2>5
    <3>2. \A k \in 1..Len(ts) : k = Len(marker) + 1 \/ k \in 1..Len(ts) - 1
      BY <2>11, <3>1
    <3> QED BY <2>9, <2>11, <2>12, <3>2 DEF Lexeme
  <2>14. end \in pos..Len(input)
    BY <1>1, <2>7
  <2> QED BY <2>3, <2>10, <2>11, <2>12, <2>13, <2>14, LexemesWritten
<1>6. CASE L!Number
  <2> DEFINE end == L!RunEnd(pos, L!NumberChars)
             dots == {p \in pos..end - 1 : L!Char(p) = "."}
             type == IF dots = {} THEN "T_INTEGER" ELSE "T_DOUBLE"
             token == L!Token(type, pos, end)
  <2>1. end \in pos..Len(input) /\ L!Char(end) \notin L!NumberChars
    BY <1>1, <1>2, RunEndStops
  <2>2. \/ UNCHANGED <<input, pos, out>>
        \/ L!Emit(<<token>>) /\ L!MoveTo(end)
    BY <1>6, Zenon DEF L!Number, L!inputVars
  <2>3. token.type \in {"T_INTEGER", "T_DOUBLE"} /\ token.start = pos /\ token.end = end
    BY DEF L!Token
  <2>4. token \in Tokens
    <3>1. type \in L!TokenTypes
      BY DEF L!TokenTypes
    <3>2. end \in 0..Len(input) /\ pos <= end
      <4> HIDE DEF end
      <4> QED BY <1>1, <2>1
    <3> HIDE DEF type, end
    <3> QED BY <1>1, <3>1, <3>2, TokenTyped
  <2> HIDE DEF end, type, token
  <2>5. Lexeme(token, pos, end)
    BY <1>1, <2>1, <2>3 DEF Lexeme, L!Extends
  <2> QED BY <1>1, <2>1, <2>2, <2>4, <2>5, LexemeWritten, SilentMaximal
<1>7. CASE L!Identifier
  <2> DEFINE end == L!RunEnd(pos, L!Alphanumeric)
             type == Keyword(SubSeq(input, pos + 1, end))
             token == IF type = "T_IDENT" THEN L!Token(type, pos, end) ELSE L!Interned(type)
  <2>1. end \in pos..Len(input) /\ L!Char(end) \notin L!Alphanumeric
    BY <1>1, <1>2, RunEndStops
  <2>2. type \in {"T_TRUE", "T_FALSE", "T_IDENT"}
    <3>1. SubSeq(input, pos + 1, end) \in Seq(STRING)
      BY <1>1, <2>1 DEF LexInv
    <3> QED BY <3>1 DEF KeywordTypes
  <2>3. L!Emit(<<token>>) /\ L!MoveTo(end)
    BY <1>7 DEF L!Identifier
  <2>4. \/ token.type = "T_IDENT" /\ token.start = pos /\ token.end = end
        \/ token.type \in {"T_TRUE", "T_FALSE"}
    <3> HIDE DEF type, end
    <3> QED BY <2>2 DEF L!Token, L!Interned
  <2>5. token \in Tokens
    <3>1. type \in L!TokenTypes
      BY <2>2 DEF L!TokenTypes
    <3> HIDE DEF end, type
    <3> QED BY <1>1, <2>1, <3>1, TokenTyped, InternedTyped
  <2> HIDE DEF end, token
  <2>6. Lexeme(token, pos, end)
    <3>1. CASE token.type = "T_IDENT" /\ token.start = pos /\ token.end = end
      BY <1>1, <2>1, <3>1 DEF Lexeme, L!Extends
    <3>2. CASE token.type \in {"T_TRUE", "T_FALSE"}
      BY <3>2 DEF Lexeme, L!Textual
    <3> QED BY <2>4, <3>1, <3>2
  <2> QED BY <2>1, <2>3, <2>5, <2>6, LexemeWritten
<1>8. CASE L!Quoted
  <2> DEFINE end == L!RunEnd(pos + 1, L!Alphanumeric)
             token == L!Token("T_STRING", pos + 1, end)
  <2>1. L!Cur = "'" /\ L!Cur # "NUL"
    BY <1>8 DEF L!Quoted, L!Lexing
  <2>2. /\ pos + 1 \in 0..Len(input) /\ end \in pos + 1..Len(input)
        /\ L!Char(end) \notin L!Alphanumeric
    BY <1>1, <1>2, <2>1, CharInside, RunEndStops
  <2>3. L!Emit(<<token>>) /\ L!MoveTo(end)
    BY <1>8 DEF L!Quoted
  <2>4. token.type = "T_STRING" /\ token.start = pos + 1 /\ token.end = end
    BY DEF L!Token
  <2>5. end \in 0..Len(input) /\ pos + 1 <= end
    <3> HIDE DEF end
    <3> QED BY <1>1, <2>2
  <2>6. token \in Tokens
    BY <2>2, <2>5, TokenTyped DEF L!TokenTypes
  <2> HIDE DEF end, token
  <2>7. L!Char(token.start - 1) # "quote"
    <3>1. token.start - 1 = pos
      BY <1>1, <2>4
    <3> QED BY <2>1, <3>1 DEF L!Cur
  <2>8. Lexeme(token, pos, end)
    BY <1>1, <2>2, <2>4, <2>5, <2>7 DEF Lexeme, L!Extends
  <2>9. end \in pos..Len(input)
    BY <1>1, <2>5
  <2> QED BY <2>3, <2>6, <2>8, <2>9, LexemeWritten
<1>9. CASE L!String
  <2> DEFINE end == L!TextEnd(pos + 1, "quote")
             token == L!Token("T_STRING", pos + 1, end)
             marker == L!Interned("T_EOF")
  <2>1. L!Cur = "quote" /\ L!Cur # "NUL"
    BY <1>9 DEF L!String, L!Lexing
  <2>2. pos + 1 \in 0..Len(input) /\ end \in pos + 1..Len(input)
    BY <1>1, <2>1, CharInside, TextEndInside
  <2>3. end \in 0..Len(input) /\ pos + 1 <= end
    <3> HIDE DEF end
    <3> QED BY <1>1, <2>2
  <2>4. CASE L!Char(end) = "quote"
    <3>1. L!Emit(<<token>>) /\ L!MoveTo(end + 1)
      BY <1>9, <2>4 DEF L!String
    <3>2. token \in Tokens
      BY <2>2, <2>3, TokenTyped DEF L!TokenTypes
    <3>3. token.type = "T_STRING" /\ token.start = pos + 1 /\ token.end = end
      BY DEF L!Token
    <3> HIDE DEF end, token
    <3>4. end + 1 \in pos..Len(input)
      BY <1>1, <2>2, <2>4 DEF L!Char
    <3>5. token.start - 1 = pos
      BY <1>1, <3>3
    <3>6. L!Extends(token) = {}
      BY <2>1, <3>3, <3>5 DEF L!Extends, L!Cur
    <3>7. Lexeme(token, pos, end + 1)
      BY <1>1, <2>3, <3>3, <3>6 DEF Lexeme
    <3> QED BY <3>1, <3>2, <3>4, <3>7, LexemeWritten
  <2>5. CASE L!Char(end) # "quote"
    <3>1. L!Emit(<<marker>>) /\ L!MoveTo(end)
      BY <1>9, <2>5 DEF L!String
    <3>2. marker \in Tokens /\ ~L!Textual(marker)
      BY InternedTyped DEF L!TokenTypes, L!Textual, L!Interned, L!Token
    <3> HIDE DEF end, marker
    <3>3. end \in pos..Len(input)
      BY <1>1, <2>3
    <3> QED BY <3>1, <3>2, <3>3, LexemeWritten DEF Lexeme
  <2> QED BY <2>4, <2>5
<1>10. CASE L!Comment
  <2>1. L!TextEnd(pos, "newline") \in pos..Len(input)
    BY <1>1, TextEndInside
  <2> QED BY <1>10, <2>1, SilentMaximal DEF L!Comment, L!MoveTo, L!inputVars
<1>11. CASE L!Whitespace
  <2>1. L!Cur # "NUL"
    BY <1>11 DEF L!Whitespace, L!Lexing, L!Blank
  <2>2. pos + 1 \in pos..Len(input)
    BY <1>1, <2>1, CharInside
  <2> QED BY <1>11, <2>2, SilentMaximal DEF L!Whitespace, L!MoveTo, L!inputVars
<1>12. CASE L!Unknown \/ L!ReadBehind
  BY <1>1, <1>12, SilentMaximal DEF L!Unknown, L!ReadBehind, L!inputVars
<1> QED BY <1>3, <1>4, <1>5, <1>6, <1>7, <1>8, <1>9, <1>10, <1>11, <1>12 DEF L!Next

(* Tokens with a text come in the order of the input, do not overlap, and  *)
(* are each as long as they can be (lexer.c:163-329), for every text.      *)
THEOREM LexemesAreMaximal == ASSUME KeywordTypes PROVE Spec => []LexemesMaximal
PROOF
<1>1. Init => LexemesMaximal
  BY DEF Init, L!Init, LexemesMaximal, L!LexemesMaximal
<1>2. IInv /\ LexemesMaximal /\ [Next]_vars => LexemesMaximal'
  <2> SUFFICES ASSUME IInv, L!LexemesMaximal, [Next]_vars PROVE (L!LexemesMaximal)'
    BY DEF LexemesMaximal
  <2>1. CASE Lex
    BY <2>1, LexKeepsMaximal DEF Lex, IInv
  <2>2. CASE Parse \/ UNCHANGED vars
    <3>1. UNCHANGED <<input, out, pos>>
      BY <2>2 DEF Parse, lexerVars, vars
    <3> QED BY <3>1, SilentMaximal DEF IInv, LexInv
  <2> QED BY <2>1, <2>2 DEF Next
<1> QED BY <1>1, <1>2, FrontEndInvariance, PTL DEF Spec
-----------------------------------------------------------------------------
(* Brackets.  What the parser has read, token by token, is what the stack  *)
(* of open lists says: each list is an opening token not yet closed.       *)

Passed(p, depth) ==
    /\ depth = 1 + Count(p, Openers) - Count(p, P!Closers)
    /\ \A n \in 1..p : OpensFirst(n) /\ HeadOpened(n) /\ out[n].type # "T_EOF"
(* a head is read together with its "(" *)
HeadTaken(p) == p > 0 /\ out[p].type = "T_DELIMITOR_LEFT" => out[p + 1].type \notin Heads
BracketInv == p_status = "parsing" => Passed(p_pos, Len(open)) /\ HeadTaken(p_pos)

(* The classes of tokens are disjoint. *)
LEMMA Classes ==
    /\ Openers \cap P!Closers = {} /\ Openers \cap Heads = {} /\ P!Closers \cap Heads = {}
    /\ P!Atoms \cap (Openers \cup P!Closers \cup Heads \cup {"T_EOF", "T_IDENT"}) = {}
    /\ {"T_EOF", "T_IDENT"} \cap (Openers \cup P!Closers \cup Heads) = {}
    /\ "T_DELIMITOR_LEFT" \in Openers
  BY DEF Openers, P!Closers, Heads, P!Operators, P!Atoms

LEMMA CountZero == ASSUME NEW types PROVE Count(0, types) = 0
PROOF
<1>1. {k \in 1..0 : out[k].type \in types} = {}
  OBVIOUS
<1> QED BY <1>1, FS_EmptySet DEF Count

LEMMA CountNext ==
    ASSUME NEW n \in Nat, NEW types
    PROVE  /\ Count(n, types) \in Nat
           /\ Count(n + 1, types) = IF out[n + 1].type \in types
                                    THEN Count(n, types) + 1 ELSE Count(n, types)
PROOF
<1> DEFINE S == {k \in 1..n : out[k].type \in types}
           T == {k \in 1..n + 1 : out[k].type \in types}
<1>1. IsFiniteSet(1..n) /\ S \in SUBSET (1..n)
  BY FS_Interval
<1>2. IsFiniteSet(S)
  BY <1>1, FS_Subset
<1>3. Cardinality(S) \in Nat
  BY <1>2, FS_CardinalityType
<1>4. n + 1 \notin S
  OBVIOUS
<1>5. CASE out[n + 1].type \in types
  <2>1. T = S \cup {n + 1}
    BY <1>5
  <2>2. Cardinality(T) = Cardinality(S) + 1
    <3> HIDE DEF S, T
    <3> QED BY <1>2, <1>4, <2>1, FS_AddElement
  <2> QED BY <1>3, <1>5, <2>2 DEF Count
<1>6. CASE out[n + 1].type \notin types
  <2>1. T = S
    BY <1>6
  <2> QED BY <1>3, <1>6, <2>1 DEF Count
<1> QED BY <1>5, <1>6

(* One more token is passed. *)
LEMMA PassedNext ==
    ASSUME NEW p \in Nat, NEW d \in Nat, NEW e \in Nat \ {0}, Passed(p, d),
           out[p + 1].type # "T_EOF", HeadOpened(p + 1),
           e = IF out[p + 1].type \in Openers THEN d + 1
               ELSE IF out[p + 1].type \in P!Closers THEN d - 1 ELSE d
    PROVE  Passed(p + 1, e)
PROOF
<1>1. /\ Count(p, Openers) \in Nat /\ Count(p, P!Closers) \in Nat
      /\ Count(p + 1, Openers) = IF out[p + 1].type \in Openers
                                 THEN Count(p, Openers) + 1 ELSE Count(p, Openers)
      /\ Count(p + 1, P!Closers) = IF out[p + 1].type \in P!Closers
                                   THEN Count(p, P!Closers) + 1 ELSE Count(p, P!Closers)
  BY CountNext
<1>2. d = 1 + Count(p, Openers) - Count(p, P!Closers)
  BY DEF Passed
<1>3. ~(out[p + 1].type \in Openers /\ out[p + 1].type \in P!Closers)
  BY Classes
<1>4. e = 1 + Count(p + 1, Openers) - Count(p + 1, P!Closers)
  <2>1. CASE out[p + 1].type \in Openers
    BY <1>1, <1>2, <1>3, <2>1
  <2>2. CASE out[p + 1].type \in P!Closers
    BY <1>1, <1>2, <1>3, <2>2
  <2>3. CASE out[p + 1].type \notin Openers /\ out[p + 1].type \notin P!Closers
    BY <1>1, <1>2, <2>3
  <2> QED BY <2>1, <2>2, <2>3
<1>5. OpensFirst(p + 1)
  <2>1. Count(p + 1, Openers) \in Nat /\ Count(p + 1, P!Closers) \in Nat
    BY <1>1
  <2> QED BY <1>4, <2>1 DEF OpensFirst
<1>6. \A n \in 1..p + 1 : n \in 1..p \/ n = p + 1
  OBVIOUS
<1> QED BY <1>4, <1>5, <1>6 DEF Passed

(* The first end marker is where the parser stops. *)
LEMMA VisibleUpTo ==
    ASSUME LexInv, NEW p \in 0..Len(out) - 1, \A n \in 1..p : out[n].type # "T_EOF",
           lex_status = "done"
    PROVE  /\ Visible \in p..Len(out) - 1
           /\ out[p + 1].type = "T_EOF" => Visible = p
           /\ out[p + 1].type # "T_EOF" => Visible > p
PROOF
<1> DEFINE First(n) == out[n + 1].type = "T_EOF" /\ \A k \in 1..n : out[k].type # "T_EOF"
           marks == {n \in 0..Len(out) - 1 : out[n + 1].type = "T_EOF"}
<1>1. Len(out) \in Nat /\ Len(out) - 1 \in marks /\ Len(out) - 1 \in Nat
  BY DEF LexInv, Ended
<1>2. PICK n \in 0..Len(out) - 1 : n \in marks /\ \A k \in 0..n - 1 : k \notin marks
  <2>1. PICK m \in Nat : m = Len(out) - 1 /\ m \in marks /\ 0 \in 0..m
    BY <1>1
  <2> HIDE DEF marks, First
  <2>2. \E q \in 0..m : q \in marks /\ \A k \in 0..q - 1 : k \notin marks
    BY <2>1, FirstFrom
  <2> QED BY <2>1, <2>2
<1>3. First(n)
  <2>1. ASSUME NEW k \in 1..n PROVE out[k].type # "T_EOF"
    <3>1. k - 1 \in 0..n - 1 /\ k - 1 \in 0..Len(out) - 1 /\ k - 1 + 1 = k
      BY <1>1
    <3> QED BY <1>2, <3>1
  <2> QED BY <1>2, <2>1
<1>4. Visible \in 0..Len(out) - 1 /\ First(Visible)
  BY <1>3 DEF Visible
<1>5. PICK v \in 0..Len(out) - 1 : v = Visible
  BY <1>4
<1>6. ~(v < p)
  <2>1. ASSUME v < p PROVE FALSE
    <3>1. v + 1 \in 1..p
      BY <1>1, <2>1
    <3> QED BY <1>4, <1>5, <3>1
  <2> QED BY <2>1
<1>7. out[p + 1].type = "T_EOF" => ~(p < v)
  <2>1. p < v => p + 1 \in 1..v
    BY <1>1
  <2> QED BY <1>4, <1>5, <2>1
<1>8. out[p + 1].type # "T_EOF" => v # p
  BY <1>4, <1>5
<1> QED BY <1>1, <1>5, <1>6, <1>7, <1>8

(* The depth of the stack after a label. *)
LEMMA DepthAfter ==
    ASSUME p_status = "parsing", p_status' = "parsing", NEW stack, Stacked(stack),
           NEW node, P!AddChild(stack, node)
    PROVE  /\ open' = [stack EXCEPT ![Len(stack)].children = Append(@, node)]
           /\ Len(open') = Len(stack) /\ Len(stack) \in Nat \ {0}
PROOF
<1>1. PICK S : stack \in Seq(S)
  BY DEF Stacked
<1>2. open' = [stack EXCEPT ![Len(stack)].children = Append(@, node)]
  BY DEF P!AddChild
<1>3. DOMAIN open' = DOMAIN stack /\ DOMAIN stack = 1..Len(stack) /\ Len(stack) \in Nat \ {0}
  BY <1>1, <1>2 DEF Stacked
<1>4. PICK list : open' = [stack EXCEPT ![Len(stack)] = list]
  BY <1>2
<1>5. open' \in Seq(S \cup {list}) /\ Len(open') = Len(stack)
  BY <1>1, <1>3, <1>4
<1> QED BY <1>2, <1>3, <1>5

LEMMA ParseKeepsBrackets ==
    ASSUME IInv, BracketInv, lex_status = "done", P!Next, UNCHANGED out
    PROVE  BracketInv'
PROOF
<1> SUFFICES ASSUME p_status' = "parsing" PROVE BracketInv'
  BY DEF BracketInv
<1>1. PICK p \in Nat, d \in Nat \ {0} : p = p_pos /\ d = Len(open)
  BY DEF IInv, LexInv, ParseInv, Stacked
<1>2. /\ Stacked(open)
      /\ p_status = "parsing" => Passed(p, d) /\ HeadTaken(p)
  BY <1>1 DEF IInv, ParseInv, BracketInv
<1>3. ASSUME NEW q \in Nat, NEW e \in Nat, p_pos' = q, Len(open') = e,
             Passed(q, e), HeadTaken(q)
      PROVE  BracketInv'
  BY <1>3 DEF BracketInv, Passed, HeadTaken, Count, OpensFirst, HeadOpened
<1>4. ASSUME NEW types, P!Parsing(types)
      PROVE  p_status = "parsing" /\ out[p + 1].type \in types
  BY <1>1, <1>4 DEF P!Parsing, P!Current
<1>5. CASE P!Atom \/ P!Ident
  <2>0. PICK types \in {P!Atoms, {"T_IDENT"}} :
            P!Parsing(types) /\ P!AdvanceBy(1) /\ \E node : P!AddChild(open, node)
    BY <1>5 DEF P!Atom, P!Ident
  <2>1. PICK node : P!Parsing(types) /\ P!AdvanceBy(1) /\ P!AddChild(open, node)
    BY <2>0
  <2>2. out[p + 1].type \in types /\ p_status = "parsing"
    BY <1>4, <2>1
  <2>3. /\ out[p + 1].type \notin Openers /\ out[p + 1].type \notin P!Closers
        /\ out[p + 1].type \notin Heads /\ out[p + 1].type # "T_EOF"
        /\ out[p + 1].type # "T_DELIMITOR_LEFT"
    BY <2>0, <2>2, Classes
  <2>4. Len(open') = d /\ p_pos' = p + 1
    BY <1>1, <1>2, <2>1, <2>2, DepthAfter DEF P!AdvanceBy
  <2>5. Passed(p + 1, d) /\ HeadTaken(p + 1)
    BY <1>2, <2>2, <2>3, PassedNext DEF HeadOpened, HeadTaken
  <2> QED BY <1>3, <2>4, <2>5
<1>6. ASSUME NEW node, P!Open(node), p_status = "parsing"
      PROVE  Len(open') = d + 1
  <2>1. PICK S : open \in Seq(S)
    BY <1>2 DEF Stacked
  <2>2. open' = Append(open, node)
    BY <1>6 DEF P!Open
  <2> QED BY <1>1, <2>1, <2>2
<1>7. CASE P!stmt_begin
  <2> DEFINE head == out[p + 2]
             node == P!Node(P!HeadType(head), head, <<>>)
  <2>1. P!Parsing({"T_DELIMITOR_LEFT"}) /\ P!Open(node)
        /\ P!AdvanceBy(IF P!HeadType(head) = "N_LIST" THEN 1 ELSE 2)
    BY <1>1, <1>7 DEF P!stmt_begin
  <2>2. out[p + 1].type = "T_DELIMITOR_LEFT" /\ p_status = "parsing"
    BY <1>4, <2>1
  <2>3. out[p + 1].type \in Openers /\ out[p + 1].type \notin Heads
        /\ out[p + 1].type # "T_EOF"
    BY <2>2, Classes
  <2> HIDE DEF node
  <2>4. Len(open') = d + 1
    BY <1>6, <2>1, <2>2
  <2>5. Passed(p + 1, d + 1)
    <3>1. PICK e \in Nat \ {0} : e = d + 1
      OBVIOUS
    <3>2. Passed(p + 1, e)
      BY <1>2, <2>2, <2>3, <3>1, PassedNext DEF HeadOpened
    <3> QED BY <3>1, <3>2
  <2>6. CASE P!HeadType(head) = "N_LIST"
    <3>1. head.type \notin Heads /\ p_pos' = p + 1
      BY <1>1, <2>1, <2>6 DEF P!HeadType, Heads, P!AdvanceBy
    <3>2. HeadTaken(p + 1)
      BY <3>1 DEF HeadTaken
    <3> QED BY <1>3, <2>4, <2>5, <3>1, <3>2
  <2>7. CASE P!HeadType(head) # "N_LIST"
    <3>1. head.type \in Heads \cup {"T_IDENT"} /\ p_pos' = p + 2
      BY <1>1, <2>1, <2>7 DEF P!HeadType, Heads, P!AdvanceBy
    <3> HIDE DEF head
    <3>2. /\ head.type \notin Openers /\ head.type \notin P!Closers
          /\ head.type # "T_EOF" /\ head.type # "T_DELIMITOR_LEFT"
      BY <3>1, Classes
    <3>3. PICK q \in Nat : q = p + 1 /\ out[q + 1] = head /\ out[q].type = "T_DELIMITOR_LEFT"
      BY <2>2 DEF head
    <3>4. HeadOpened(q + 1)
      BY <3>3 DEF HeadOpened
    <3>5. Passed(q + 1, d + 1)
      BY <2>5, <3>2, <3>3, <3>4, PassedNext
    <3>6. HeadTaken(q + 1)
      BY <3>2, <3>3 DEF HeadTaken
    <3> QED BY <1>3, <2>4, <3>1, <3>3, <3>5, <3>6
  <2> QED BY <2>6, <2>7
<1>8. CASE P!arr_start \/ P!obj_start
  <2>0. PICK opener \in {"T_BRAKET_LEFT", "T_CURLY_LEFT"} :
            P!Parsing({opener}) /\ P!AdvanceBy(1) /\ \E node : P!Open(node)
    BY <1>8 DEF P!arr_start, P!obj_start
  <2>1. PICK node : P!Parsing({opener}) /\ P!AdvanceBy(1) /\ P!Open(node)
    BY <2>0
  <2>2. out[p + 1].type = opener /\ p_status = "parsing"
    BY <1>4, <2>1
  <2>3. /\ out[p + 1].type \in Openers /\ out[p + 1].type \notin Heads
        /\ out[p + 1].type # "T_EOF" /\ out[p + 1].type # "T_DELIMITOR_LEFT"
    BY <2>2, Classes DEF Openers
  <2>4. Len(open') = d + 1 /\ p_pos' = p + 1
    BY <1>1, <1>6, <2>1, <2>2 DEF P!AdvanceBy
  <2>5. PICK e \in Nat \ {0} : e = d + 1
    OBVIOUS
  <2>6. Passed(p + 1, e) /\ HeadTaken(p + 1)
    BY <1>2, <2>2, <2>3, <2>5, PassedNext DEF HeadOpened, HeadTaken
  <2> QED BY <1>3, <2>4, <2>5, <2>6
<1>9. CASE P!stmt_end \/ P!arr_end \/ P!obj_end
  <2>1. PICK type \in P!Closers : P!Close(type)
    BY <1>9 DEF P!stmt_end, P!arr_end, P!obj_end, P!Closers
  <2>2. /\ P!Parsing({type}) /\ Len(open) > 1
        /\ P!AddChild(P!Below, P!Top) /\ P!AdvanceBy(1)
    BY <2>1 DEF P!Close
  <2>3. out[p + 1].type = type /\ p_status = "parsing"
    BY <1>4, <2>2
  <2>4. /\ out[p + 1].type \in P!Closers /\ out[p + 1].type \notin Openers
        /\ out[p + 1].type \notin Heads /\ out[p + 1].type # "T_EOF"
        /\ out[p + 1].type # "T_DELIMITOR_LEFT"
    BY <2>3, Classes DEF P!Closers
  <2>5. Stacked(P!Below) /\ Len(P!Below) = d - 1
    <3>1. PICK S : open \in Seq(S)
      BY <1>2 DEF Stacked
    <3>2. Len(P!Below) = d - 1
      BY <1>1, <2>2, <3>1 DEF P!Below
    <3> QED BY <1>2, <2>2, <3>2, BelowStacked
  <2>6. PICK e \in Nat \ {0} : e = d - 1
    BY <1>1, <2>2
  <2>7. Len(open') = e /\ p_pos' = p + 1
    BY <1>1, <2>2, <2>3, <2>5, <2>6, DepthAfter DEF P!AdvanceBy
  <2>8. Passed(p + 1, e) /\ HeadTaken(p + 1)
    BY <1>2, <2>3, <2>4, <2>6, PassedNext DEF HeadOpened, HeadTaken
  <2> QED BY <1>3, <2>7, <2>8
<1>10. CASE P!UnexpectedEnd \/ P!MissingEnd \/ P!eof \/ P!NoTarget
  BY <1>10 DEF P!UnexpectedEnd, P!MissingEnd, P!eof, P!NoTarget, P!Abort
<1> QED BY <1>5, <1>7, <1>8, <1>9, <1>10 DEF P!Next

(* How the parser ends says whether the text balances. *)
LEMMA EndsBalanced ==
    ASSUME IInv, BracketInv, AcceptsBalanced, lex_status = "done", P!Next, UNCHANGED out
    PROVE  AcceptsBalanced'
PROOF
<1> DEFINE Judged == /\ p_status' = "parsed" => Balanced
                     /\ p_status' \in {"aborted", "crashed"} => ~Balanced
<1> SUFFICES Judged
  <2>1. Balanced' = Balanced
    BY DEF Balanced, Visible, OpensFirst, HeadOpened, Count
  <2> QED BY <2>1 DEF AcceptsBalanced
<1>1. PICK p \in Nat, d \in Nat \ {0} : p = p_pos /\ d = Len(open)
  BY DEF IInv, LexInv, ParseInv, Stacked
<1>2. p_status = "parsing" => Passed(p, d) /\ HeadTaken(p)
  BY <1>1 DEF BracketInv
<1>3. ASSUME NEW types, P!Parsing(types)
      PROVE  /\ p_status = "parsing" /\ out[p + 1].type \in types /\ p \in 0..Len(out) - 1
             /\ Visible \in p..Len(out) - 1
             /\ out[p + 1].type = "T_EOF" => Visible = p
             /\ out[p + 1].type # "T_EOF" => p + 1 \in 1..Visible
  <2>1. p_status = "parsing" /\ out[p + 1].type \in types /\ p < Len(out)
    BY <1>1, <1>3 DEF P!Parsing, P!Current, P!Available
  <2>2. Len(out) \in Nat /\ LexInv
    BY DEF IInv, LexInv
  <2>3. p \in 0..Len(out) - 1 /\ \A n \in 1..p : out[n].type # "T_EOF"
    BY <1>2, <2>1, <2>2 DEF Passed
  <2> QED BY <2>1, <2>2, <2>3, VisibleUpTo
<1>4. Count(p, Openers) \in Nat /\ Count(p, P!Closers) \in Nat
  BY CountNext
<1>5. p_status = "parsing" => d = 1 + Count(p, Openers) - Count(p, P!Closers)
  BY <1>2 DEF Passed
<1>6. CASE P!eof
  <2>1. P!Parsing({"T_EOF"}) /\ d = 1 /\ p_status' = "parsed"
    BY <1>1, <1>6 DEF P!eof
  <2>2. Visible = p /\ p_status = "parsing"
    BY <1>3, <2>1
  <2>3. Count(p, P!Closers) = Count(p, Openers)
    BY <1>4, <1>5, <2>1, <2>2
  <2>4. Balanced
    BY <1>2, <2>2, <2>3 DEF Balanced, Passed
  <2> QED BY <2>1, <2>4
<1>7. CASE P!MissingEnd
  <2>1. P!Parsing({"T_EOF"}) /\ d > 1 /\ p_status' = "aborted"
    BY <1>1, <1>7 DEF P!MissingEnd, P!Abort
  <2>2. Visible = p /\ p_status = "parsing"
    BY <1>3, <2>1
  <2>3. Count(p, P!Closers) # Count(p, Openers)
    BY <1>4, <1>5, <2>1, <2>2
  <2> QED BY <2>1, <2>2, <2>3 DEF Balanced
<1>8. CASE P!UnexpectedEnd
  <2>1. P!Parsing(P!Closers) /\ d = 1 /\ p_status' = "aborted"
    BY <1>1, <1>8 DEF P!UnexpectedEnd, P!Abort
  <2>2. out[p + 1].type \in P!Closers /\ p_status = "parsing"
    BY <1>3, <2>1
  <2>3. out[p + 1].type # "T_EOF" /\ out[p + 1].type \notin Openers
    BY <2>2, Classes DEF P!Closers
  <2>4. p + 1 \in 1..Visible
    BY <1>3, <2>1, <2>3
  <2>5. /\ Count(p + 1, Openers) = Count(p, Openers)
        /\ Count(p + 1, P!Closers) = Count(p, P!Closers) + 1
    BY <2>2, <2>3, CountNext
  <2>6. ~(Count(p + 1, P!Closers) <= Count(p + 1, Openers))
    BY <1>4, <1>5, <2>1, <2>2, <2>5
  <2> QED BY <2>1, <2>4, <2>6 DEF Balanced, OpensFirst
<1>9. CASE P!NoTarget
  <2>1. P!Parsing(Heads) /\ p_status' = "crashed"
    BY <1>9 DEF P!NoTarget, Heads
  <2>2. out[p + 1].type \in Heads /\ p_status = "parsing"
    BY <1>3, <2>1
  <2>3. out[p + 1].type # "T_EOF"
    BY <2>2, Classes
  <2>4. p + 1 \in 1..Visible
    BY <1>3, <2>1, <2>3
  <2>5. ~HeadOpened(p + 1)
    <3>1. HeadTaken(p)
      BY <1>2, <2>2
    <3>2. p + 1 - 1 = p /\ (p + 1 > 1 <=> p > 0)
      OBVIOUS
    <3> QED BY <2>2, <3>1, <3>2 DEF HeadOpened, HeadTaken
  <2> QED BY <2>1, <2>4, <2>5 DEF Balanced
<1>10. CASE \E types : P!Parsing(types) /\ p_status' \in {p_status, "undefined"}
  BY <1>3, <1>10
<1>11. ASSUME P!Atom \/ P!Ident \/ P!arr_start \/ P!obj_start \/ P!stmt_begin
       PROVE  \E types : P!Parsing(types) /\ p_status' \in {p_status, "undefined"}
  BY <1>11 DEF P!Atom, P!Ident, P!arr_start, P!obj_start, P!stmt_begin, P!AddChild, P!Open
<1>12. ASSUME P!stmt_end \/ P!arr_end \/ P!obj_end
       PROVE  \E types : P!Parsing(types) /\ p_status' \in {p_status, "undefined"}
  BY <1>12 DEF P!stmt_end, P!arr_end, P!obj_end, P!Close, P!AddChild
<1> QED BY <1>6, <1>7, <1>8, <1>9, <1>10, <1>11, <1>12 DEF P!Next

LEMMA StepBalanced ==
    IInv /\ BracketInv /\ AcceptsBalanced /\ [Next]_vars => BracketInv' /\ AcceptsBalanced'
PROOF
<1> SUFFICES ASSUME IInv, BracketInv, AcceptsBalanced, [Next]_vars
             PROVE  BracketInv' /\ AcceptsBalanced'
  OBVIOUS
<1>1. CASE Lex
  <2>1. UNCHANGED <<p_pos, open, p_status>> /\ lex_status = "lexing"
    BY <1>1 DEF Lex, parserVars, L!Next, L!EmptyInput, L!Punctuate, L!Builtin, L!Number,
                L!Identifier, L!Quoted, L!String, L!Comment, L!Whitespace, L!Unknown,
                L!ReadBehind, L!End, L!Lexing, L!Reading
  <2>2. p_pos = 0 /\ p_status = "parsing"
    BY <2>1 DEF IInv, Inside
  <2>3. AcceptsBalanced'
    BY <2>1, <2>2 DEF AcceptsBalanced
  <2>4. Count(0, Openers)' = 0 /\ Count(0, P!Closers)' = 0
    BY CountZero, FS_EmptySet DEF Count
  <2>5. Len(open) = 1
    BY <2>2, CountZero DEF BracketInv, Passed
  <2> QED BY <2>1, <2>2, <2>3, <2>4, <2>5 DEF BracketInv, Passed, HeadTaken
<1>2. CASE Parse
  <2>1. lex_status = "done" /\ P!Next /\ UNCHANGED out
    BY <1>2 DEF Parse, lexerVars
  <2> QED BY <2>1, ParseKeepsBrackets, EndsBalanced
<1>3. CASE UNCHANGED vars
  <2>1. UNCHANGED <<out, p_pos, open, p_status>>
    BY <1>3 DEF vars, lexerVars, parserVars
  <2>2. Balanced' = Balanced
    BY <2>1 DEF Balanced, Visible, OpensFirst, HeadOpened, Count
  <2>3. BracketInv'
    BY <2>1 DEF BracketInv, Passed, HeadTaken, OpensFirst, HeadOpened, Count
  <2> QED BY <2>1, <2>2, <2>3 DEF AcceptsBalanced
<1> QED BY <1>1, <1>2, <1>3 DEF Next

LEMMA InitBalanced == Init => BracketInv /\ AcceptsBalanced
PROOF
<1> SUFFICES ASSUME Init PROVE BracketInv /\ AcceptsBalanced
  OBVIOUS
<1>1. p_pos = 0 /\ p_status = "parsing" /\ Len(open) = 1
  BY DEF Init, P!Init
<1> QED BY <1>1, CountZero DEF BracketInv, Passed, HeadTaken, AcceptsBalanced

(* The parser accepts exactly the texts whose brackets balance, of         *)
(* whatever kinds, and whose operators and builtins follow a "("           *)
(* (parser.c:33-241), however long the text and however deep its lists.    *)
THEOREM ParserAcceptsBalanced == ASSUME KeywordTypes PROVE Spec => []AcceptsBalanced
PROOF
<1>1. IInv /\ BracketInv /\ AcceptsBalanced /\ [Next]_vars => BracketInv' /\ AcceptsBalanced'
  BY StepBalanced
<1> QED BY <1>1, InitBalanced, FrontEndInvariance, PTL DEF Spec

-----------------------------------------------------------------------------
(* Trees.  The nodes of the trees made so far are in a set that holds with *)
(* every node its children, and whose nodes all fit.                       *)
WellFormed(S) ==
    \A n \in S : NodeFits(n) /\ \A k \in 1..Len(n.children) : n.children[k] \in S

(* the lists above the root fit as far as they go, with children in S *)
Forest(s, S) ==
    \A d \in 1..Len(s) :
        /\ s[d].type \notin {"N_ATOM", "N_IDENT"}
        /\ \E T : s[d].children \in Seq(T)
        /\ \A k \in 1..Len(s[d].children) : s[d].children[k] \in S
        /\ d > 1 => NodeFits(s[d])
TreesInv ==
    p_status \in {"parsing", "parsed"} => \E S : WellFormed(S) /\ Forest(open, S)
(* the first thing in a list is no name *)
FirstInList ==
    p_status = "parsing" /\ P!Top.type = "N_LIST" /\ P!Top.children = <<>> =>
        out[p_pos + 1].type # "T_IDENT"

LEMMA WellFormedMore ==
    ASSUME NEW S, WellFormed(S), NEW n, NodeFits(n),
           \A k \in 1..Len(n.children) : n.children[k] \in S
    PROVE  WellFormed(S \cup {n})
  BY DEF WellFormed

(* A node is added to the innermost list of s. *)
LEMMA ForestMore ==
    ASSUME NEW s, Stacked(s), NEW S, Forest(s, S), NEW n,
           LET top == s[Len(s)]
           IN  top.type = "N_LIST" /\ top.children = <<>> => n.type # "N_IDENT"
    PROVE  Forest([s EXCEPT ![Len(s)].children = Append(@, n)], S \cup {n})
PROOF
<1> DEFINE m == Len(s)
           list == [s[m] EXCEPT !.children = Append(@, n)]
           grown == [s EXCEPT ![m].children = Append(@, n)]
<1>1. PICK R : s \in Seq(R)
  BY DEF Stacked
<1>2. m \in Nat /\ m \in 1..Len(s) /\ IsNode(s[m])
  BY <1>1 DEF Stacked
<1>3. PICK T : s[m].children \in Seq(T)
  BY <1>2 DEF Forest
<1>4. /\ list.type = s[m].type /\ list.token = s[m].token
      /\ list.children = Append(s[m].children, n)
  BY <1>2 DEF IsNode
<1>5. /\ list.children \in Seq(T \cup {n}) /\ Len(list.children) = Len(s[m].children) + 1
      /\ \A k \in 1..Len(s[m].children) : list.children[k] = s[m].children[k]
      /\ list.children[Len(s[m].children) + 1] = n
      /\ Len(s[m].children) \in Nat
  <2> DEFINE c == s[m].children
  <2> HIDE DEF list, c
  <2>1. list.children = Append(c, n) /\ c \in Seq(T)
    BY <1>3, <1>4 DEF c
  <2>2. c \in Seq(T \cup {n})
    BY <2>1
  <2> QED BY <2>1, <2>2 DEF c
<1>6. /\ grown = [s EXCEPT ![m] = list] /\ Len(grown) = m
      /\ \A d \in 1..m : grown[d] = IF d = m THEN list ELSE s[d]
  <2>1. grown = [s EXCEPT ![m] = list]
    OBVIOUS
  <2> HIDE DEF list, grown
  <2>2. grown \in Seq(R \cup {list}) /\ Len(grown) = m
    BY <1>1, <1>2, <2>1
  <2> QED BY <1>1, <1>2, <2>1, <2>2
<1> HIDE DEF list, grown
<1>7. ASSUME NEW k \in 1..Len(list.children) PROVE list.children[k] \in S \cup {n}
  <2>1. \A j \in 1..Len(s[m].children) : s[m].children[j] \in S
    BY <1>2 DEF Forest
  <2>2. k \in 1..Len(s[m].children) \/ k = Len(s[m].children) + 1
    BY <1>5
  <2> QED BY <1>5, <2>1, <2>2
<1>8. m > 1 => NodeFits(list)
  <2> SUFFICES ASSUME m > 1 PROVE NodeFits(list)
    OBVIOUS
  <2>1. NodeFits(s[m]) /\ s[m].type \notin {"N_ATOM", "N_IDENT"}
    BY <1>2 DEF Forest
  <2>2. CASE s[m].type = "N_LIST"
    <3>1. list.children[1].type # "N_IDENT"
      <4>1. CASE s[m].children = <<>>
        <5>1. Len(s[m].children) = 0
          BY <4>1
        <5> QED BY <1>5, <2>2, <4>1, <5>1
      <4>2. CASE s[m].children # <<>>
        <5>1. 1 \in 1..Len(s[m].children)
          BY <1>3, <4>2
        <5>2. s[m].children[1].type # "N_IDENT"
          BY <2>1, <2>2, <4>2 DEF NodeFits
        <5> QED BY <1>5, <5>1, <5>2
      <4> QED BY <4>1, <4>2
    <3> QED BY <1>4, <2>2, <3>1 DEF NodeFits
  <2>3. CASE s[m].type # "N_LIST"
    BY <1>4, <2>1, <2>3 DEF NodeFits
  <2> QED BY <2>2, <2>3
<1>9. ASSUME NEW d \in 1..m
      PROVE  /\ grown[d].type \notin {"N_ATOM", "N_IDENT"}
             /\ \E U : grown[d].children \in Seq(U)
             /\ \A k \in 1..Len(grown[d].children) : grown[d].children[k] \in S \cup {n}
             /\ d > 1 => NodeFits(grown[d])
  <2>1. CASE d = m
    <3>1. list.type \notin {"N_ATOM", "N_IDENT"}
      BY <1>2, <1>4 DEF Forest
    <3> QED BY <1>5, <1>6, <1>7, <1>8, <2>1, <3>1
  <2>2. CASE d # m
    BY <1>6, <2>2 DEF Forest
  <2> QED BY <2>1, <2>2
<1> QED BY <1>6, <1>9 DEF Forest, grown

(* A node without children. *)
LEMMA Childless ==
    ASSUME NEW n, n.children = <<>>
    PROVE  /\ \E T : n.children \in Seq(T)
           /\ \A S : \A k \in 1..Len(n.children) : n.children[k] \in S
PROOF
<1>1. n.children \in Seq({})
  OBVIOUS
<1>2. Len(n.children) = 0
  OBVIOUS
<1> QED BY <1>1, <1>2

(* A list is opened. *)
LEMMA ForestOpened ==
    ASSUME Stacked(open), NEW S, Forest(open, S), NEW n, NodeFits(n), n.children = <<>>,
           n.type \notin {"N_ATOM", "N_IDENT"}
    PROVE  Forest(Append(open, n), S)
PROOF
<1>1. PICK R : open \in Seq(R)
  BY DEF Stacked
<1>2. /\ Len(Append(open, n)) = Len(open) + 1 /\ Len(open) \in Nat
      /\ \A d \in 1..Len(open) + 1 : Append(open, n)[d] = IF d = Len(open) + 1 THEN n ELSE open[d]
  BY <1>1
<1>3. /\ \E T : n.children \in Seq(T)
      /\ \A k \in 1..Len(n.children) : n.children[k] \in S
  BY Childless
<1>4. ASSUME NEW d \in 1..Len(open) + 1
      PROVE  LET list == Append(open, n)[d]
             IN  /\ list.type \notin {"N_ATOM", "N_IDENT"}
                 /\ \E T : list.children \in Seq(T)
                 /\ \A k \in 1..Len(list.children) : list.children[k] \in S
                 /\ d > 1 => NodeFits(list)
  <2>1. CASE d = Len(open) + 1
    BY <1>2, <1>3, <2>1
  <2>2. CASE d # Len(open) + 1
    BY <1>2, <2>2 DEF Forest
  <2> QED BY <2>1, <2>2
<1> QED BY <1>2, <1>4 DEF Forest

(* The innermost list after a child was added to it. *)
LEMMA TopAfter ==
    ASSUME NEW s, Stacked(s), NEW S, Forest(s, S), NEW n,
           open' = [s EXCEPT ![Len(s)].children = Append(@, n)], Len(open') = Len(s)
    PROVE  P!Top'.children # <<>>
PROOF
<1>1. PICK R : s \in Seq(R)
  BY DEF Stacked
<1>2. Len(s) \in 1..Len(s) /\ IsNode(s[Len(s)])
  BY <1>1 DEF Stacked
<1>3. PICK T : s[Len(s)].children \in Seq(T)
  BY <1>2 DEF Forest
<1>4. PICK c : c = s[Len(s)].children /\ c \in Seq(T)
  BY <1>3
<1>5. Append(c, n) # <<>>
  <2>1. c \in Seq(T \cup {n})
    BY <1>4
  <2>2. Len(Append(c, n)) = Len(c) + 1 /\ Len(c) \in Nat
    BY <2>1
  <2> QED BY <2>2
<1>6. open'[Len(s)] = [s[Len(s)] EXCEPT !.children = Append(c, n)]
  BY <1>1, <1>2, <1>4
<1>7. open'[Len(s)].children = Append(c, n)
  BY <1>2, <1>6 DEF IsNode
<1> QED BY <1>5, <1>7 DEF P!Top

LEMMA ParseKeepsTrees ==
    ASSUME IInv, TreesInv, FirstInList, lex_status = "done", P!Next, UNCHANGED out
    PROVE  TreesInv' /\ FirstInList'
PROOF
<1> SUFFICES ASSUME p_status' \in {"parsing", "parsed"} PROVE TreesInv' /\ FirstInList'
  BY DEF TreesInv, FirstInList
<1>1. Stacked(open) /\ p_pos \in Nat
  BY DEF IInv, LexInv, ParseInv
<1>2. ASSUME p_status = "parsing"
      PROVE  \E S : WellFormed(S) /\ Forest(open, S)
  BY <1>2 DEF TreesInv
<1>3. ASSUME NEW S, WellFormed(S), Forest(open', S) PROVE TreesInv'
  BY <1>3 DEF TreesInv, Forest, WellFormed, NodeFits
<1>4. ASSUME NEW types, P!Parsing(types)
      PROVE  p_status = "parsing" /\ P!Current.type \in types /\ P!Current = out[p_pos + 1]
  BY <1>4 DEF P!Parsing, P!Current
<1>5. ASSUME NEW s, Stacked(s), NEW S, WellFormed(S), Forest(s, S), NEW n, NodeFits(n),
             \A k \in 1..Len(n.children) : n.children[k] \in S,
             LET top == s[Len(s)]
             IN  top.type = "N_LIST" /\ top.children = <<>> => n.type # "N_IDENT",
             p_status = "parsing", p_status' = "parsing", P!AddChild(s, n)
      PROVE  TreesInv' /\ FirstInList'
  <2>1. /\ open' = [s EXCEPT ![Len(s)].children = Append(@, n)]
        /\ Len(open') = Len(s)
    BY <1>5, DepthAfter
  <2>2. WellFormed(S \cup {n})
    BY <1>5, WellFormedMore
  <2>3. Forest(open', S \cup {n})
    BY <1>5, <2>1, ForestMore
  <2>4. FirstInList'
    BY <1>5, <2>1, TopAfter DEF FirstInList
  <2> QED BY <1>3, <2>2, <2>3, <2>4
<1>6. ASSUME NEW s, NEW n, P!AddChild(s, n), p_status = "parsing"
      PROVE  p_status' = "parsing"
  BY <1>6 DEF P!AddChild
<1>7. CASE P!Atom
  <2> DEFINE n == P!Node("N_ATOM", P!Current, <<>>)
  <2>1. P!Parsing(P!Atoms) /\ P!AddChild(open, n)
    BY <1>7 DEF P!Atom
  <2>2. n.type = "N_ATOM" /\ n.children = <<>> /\ NodeFits(n)
    BY <1>4, <2>1 DEF NodeFits, P!Node
  <2> HIDE DEF n
  <2>3. PICK S : WellFormed(S) /\ Forest(open, S)
    BY <1>2, <1>4, <2>1
  <2> QED BY <1>1, <1>4, <1>5, <1>6, <2>1, <2>2, <2>3
<1>8. CASE P!Ident
  <2> DEFINE n == P!Node("N_IDENT", P!Current, <<>>)
  <2>1. P!Parsing({"T_IDENT"}) /\ P!AddChild(open, n)
    BY <1>8 DEF P!Ident
  <2>2. n.children = <<>> /\ NodeFits(n)
    BY <1>4, <2>1 DEF NodeFits, P!Node
  <2> HIDE DEF n
  <2>3. PICK S : WellFormed(S) /\ Forest(open, S)
    BY <1>2, <1>4, <2>1
  <2>4. ~(P!Top.type = "N_LIST" /\ P!Top.children = <<>>)
    BY <1>4, <2>1 DEF FirstInList
  <2> QED BY <1>1, <1>4, <1>5, <1>6, <2>1, <2>2, <2>3, <2>4 DEF P!Top
<1>9. ASSUME NEW n, NodeFits(n), n.children = <<>>, n.type \notin {"N_ATOM", "N_IDENT"},
             P!Open(n), p_status = "parsing", n.type = "N_LIST" => out[p_pos' + 1].type # "T_IDENT"
      PROVE  TreesInv' /\ FirstInList'
  <2>1. PICK S : WellFormed(S) /\ Forest(open, S)
    BY <1>2, <1>9
  <2>2. open' = Append(open, n)
    BY <1>9 DEF P!Open
  <2>3. Forest(open', S)
    BY <1>1, <1>9, <2>1, <2>2, ForestOpened
  <2>4. P!Top' = n
    <3>1. PICK R : open \in Seq(R)
      BY <1>1 DEF Stacked
    <3> QED BY <2>2, <3>1 DEF P!Top
  <2>5. FirstInList'
    BY <1>9, <2>4 DEF FirstInList
  <2> QED BY <1>3, <2>1, <2>3, <2>5
<1>10. CASE P!stmt_begin
  <2> DEFINE head == out[p_pos + 2]
             n == P!Node(P!HeadType(head), head, <<>>)
  <2>1. P!Parsing({"T_DELIMITOR_LEFT"}) /\ P!Open(n)
        /\ P!AdvanceBy(IF P!HeadType(head) = "N_LIST" THEN 1 ELSE 2)
    BY <1>10 DEF P!stmt_begin
  <2>2. /\ n.type = P!HeadType(head) /\ n.children = <<>> /\ n.token = head
        /\ n.type \in {"N_BUILTIN", "N_BIN", "N_CALL", "N_LIST"}
    BY DEF P!Node, P!HeadType
  <2>3. /\ n.type = "N_BUILTIN" => head.type = "T_BUILTIN"
        /\ n.type = "N_BIN" => head.type \in P!Operators
        /\ n.type = "N_CALL" => head.type = "T_IDENT"
        /\ n.type = "N_LIST" => head.type # "T_IDENT"
    BY <2>2 DEF P!HeadType, P!Operators
  <2> HIDE DEF n
  <2>4. NodeFits(n)
    BY <2>2, <2>3 DEF NodeFits
  <2>5. n.type = "N_LIST" => p_pos' + 1 = p_pos + 2
    BY <1>1, <2>1, <2>2 DEF P!AdvanceBy
  <2>6. n.type = "N_LIST" => out[p_pos' + 1].type # "T_IDENT"
    BY <2>3, <2>5
  <2> QED BY <1>4, <1>9, <2>1, <2>2, <2>4, <2>6
<1>11. CASE P!arr_start \/ P!obj_start
  <2>1. PICK type \in {"N_ARRAY", "N_OBJECT"} :
            /\ P!Open(P!Node(type, P!NoToken, <<>>)) /\ \E types : P!Parsing(types)
    BY <1>11 DEF P!arr_start, P!obj_start
  <2> DEFINE n == P!Node(type, P!NoToken, <<>>)
  <2>2. n.type = type /\ n.children = <<>> /\ NodeFits(n)
    BY DEF P!Node, NodeFits
  <2>3. P!Open(n) /\ p_status = "parsing"
    BY <1>4, <2>1
  <2> HIDE DEF n
  <2> QED BY <1>9, <2>1, <2>2, <2>3
<1>12. CASE P!stmt_end \/ P!arr_end \/ P!obj_end
  <2>1. PICK type : P!Close(type)
    BY <1>12 DEF P!stmt_end, P!arr_end, P!obj_end
  <2>2. /\ P!Parsing({type}) /\ Len(open) > 1 /\ P!AddChild(P!Below, P!Top)
    BY <2>1 DEF P!Close
  <2>3. p_status = "parsing"
    BY <1>4, <2>2
  <2>4. PICK S : WellFormed(S) /\ Forest(open, S)
    BY <1>2, <2>3
  <2>5. PICK R : open \in Seq(R)
    BY <1>1 DEF Stacked
  <2>6. Stacked(P!Below)
    BY <1>1, <2>2, BelowStacked
  <2>7. /\ Len(P!Below) = Len(open) - 1 /\ Len(open) \in Nat
        /\ \A d \in 1..Len(open) - 1 : P!Below[d] = open[d]
    BY <2>2, <2>5 DEF P!Below
  <2>8. Forest(P!Below, S)
    BY <2>4, <2>7 DEF Forest
  <2>9. /\ NodeFits(P!Top) /\ P!Top.type # "N_IDENT"
        /\ \A k \in 1..Len(P!Top.children) : P!Top.children[k] \in S
    <3>1. Len(open) \in 1..Len(open) /\ P!Top = open[Len(open)]
      BY <2>2, <2>7 DEF P!Top
    <3> QED BY <2>2, <2>4, <3>1 DEF Forest
  <2>10. PICK below, top : below = P!Below /\ top = P!Top
    OBVIOUS
  <2> QED BY <1>5, <1>6, <2>2, <2>3, <2>4, <2>6, <2>8, <2>9, <2>10
<1>13. CASE P!eof
  <2>1. p_status = "parsing" /\ p_status' = "parsed" /\ UNCHANGED open
    BY <1>4, <1>13 DEF P!eof
  <2> QED BY <1>2, <1>3, <2>1 DEF FirstInList
<1>14. CASE P!UnexpectedEnd \/ P!MissingEnd \/ P!NoTarget
  BY <1>14 DEF P!UnexpectedEnd, P!MissingEnd, P!NoTarget, P!Abort
<1> QED BY <1>7, <1>8, <1>10, <1>11, <1>12, <1>13, <1>14 DEF P!Next

LEMMA StepTrees ==
    IInv /\ BracketInv /\ TreesInv /\ FirstInList /\ [Next]_vars => TreesInv' /\ FirstInList'
PROOF
<1> SUFFICES ASSUME IInv, BracketInv, TreesInv, FirstInList, [Next]_vars
             PROVE  TreesInv' /\ FirstInList'
  OBVIOUS
<1>1. CASE Lex
  <2>1. UNCHANGED <<p_pos, open, p_status>> /\ lex_status = "lexing"
    BY <1>1 DEF Lex, parserVars, L!Next, L!EmptyInput, L!Punctuate, L!Builtin, L!Number,
                L!Identifier, L!Quoted, L!String, L!Comment, L!Whitespace, L!Unknown,
                L!ReadBehind, L!End, L!Lexing, L!Reading
  <2>2. p_pos = 0 /\ p_status = "parsing"
    BY <2>1 DEF IInv, Inside
  <2>3. Len(open) = 1
    BY <2>2, CountZero DEF BracketInv, Passed
  <2>4. P!Top.type = "N_UNKNOWN" /\ P!Top' = P!Top
    BY <2>1, <2>3 DEF P!Top, IInv, ParseInv, Stacked
  <2>5. TreesInv'
    BY <2>1 DEF TreesInv, Forest, WellFormed, NodeFits
  <2> QED BY <2>4, <2>5 DEF FirstInList
<1>2. CASE Parse
  <2>1. lex_status = "done" /\ P!Next /\ UNCHANGED out
    BY <1>2 DEF Parse, lexerVars
  <2> QED BY <2>1, ParseKeepsTrees
<1>3. CASE UNCHANGED vars
  BY <1>3 DEF vars, lexerVars, parserVars, TreesInv, FirstInList, Forest, WellFormed,
              NodeFits, P!Top
<1> QED BY <1>1, <1>2, <1>3 DEF Next

LEMMA InitTrees == Init => TreesInv /\ FirstInList
PROOF
<1> SUFFICES ASSUME Init PROVE TreesInv /\ FirstInList
  OBVIOUS
<1> DEFINE root == P!Node("N_UNKNOWN", P!NoToken, <<>>)
<1>1. root.type = "N_UNKNOWN" /\ root.children = <<>>
  BY DEF P!Node
<1>2. open = <<root>>
  BY DEF Init, P!Init
<1> HIDE DEF root
<1>3. Len(open) = 1 /\ open[1] = root
  BY <1>2
<1>4. Forest(open, {})
  <2>1. \E T : root.children \in Seq(T)
    BY <1>1, Childless
  <2>2. Len(root.children) = 0
    BY <1>1
  <2>3. ASSUME NEW d \in 1..Len(open)
        PROVE  d = 1 /\ open[d] = root
    BY <1>3
  <2> SUFFICES ASSUME NEW d \in 1..Len(open)
               PROVE  /\ open[d].type \notin {"N_ATOM", "N_IDENT"}
                      /\ \E T : open[d].children \in Seq(T)
                      /\ \A k \in 1..Len(open[d].children) : open[d].children[k] \in {}
                      /\ d > 1 => NodeFits(open[d])
    BY DEF Forest
  <2>4. open[d].type \notin {"N_ATOM", "N_IDENT"} /\ ~(d > 1)
    BY <1>1, <2>3
  <2>5. \E T : open[d].children \in Seq(T)
    BY <2>1, <2>3
  <2>6. \A k \in 1..Len(open[d].children) : open[d].children[k] \in {}
    BY <2>2, <2>3
  <2> QED BY <2>4, <2>5, <2>6
<1>5. WellFormed({})
  BY DEF WellFormed
<1> QED BY <1>1, <1>3, <1>4, <1>5 DEF TreesInv, FirstInList, P!Top

(* Every non-empty set of numbers has a least one. *)
LEMMA LeastOf ==
    ASSUME NEW T \in SUBSET Nat, T # {}
    PROVE  \E x \in T : \A y \in T : ~(y < x)
PROOF
<1>1. PICK x \in T : \A y \in T : <<y, x>> \notin OpToRel(<, Nat)
  BY WFMin, NatLessThanWellFounded, Zenon
<1> QED BY <1>1 DEF OpToRel

(* the equation that defines level, up to n *)
Outer == UNION {ChildrenOf(open[k]) : k \in 1..Len(open)}
Levels(f, n) ==
    \A d \in 0..n : f[d] = IF d = 0 THEN Outer
                           ELSE UNION {ChildrenOf(m) : m \in f[d - 1]}

LEMMA SomeLevels ==
    ASSUME NEW n \in Nat
    PROVE  \E f : f = [d \in 0..n |-> f[d]] /\ Levels(f, n)
PROOF
<1> DEFINE Has(k) == \E f : f = [d \in 0..k |-> f[d]] /\ Levels(f, k)
           T == {k \in Nat : ~Has(k)}
<1> SUFFICES ASSUME T # {} PROVE FALSE
  OBVIOUS
<1>1. PICK k \in T : \A j \in T : ~(j < k)
  BY LeastOf
<1>2. Has(0)
  <2>1. PICK f : f = [d \in 0..0 |-> Outer]
    OBVIOUS
  <2>2. f = [d \in 0..0 |-> f[d]]
    BY <2>1
  <2>3. Levels(f, 0)
    BY <2>1 DEF Levels
  <2> QED BY <2>2, <2>3
<1>3. k \in Nat /\ k - 1 \in Nat
  <2> HIDE DEF Has
  <2>1. k \in Nat /\ k # 0
    BY <1>1, <1>2
  <2> QED BY <2>1
<1>4. PICK f : f = [d \in 0..k - 1 |-> f[d]] /\ Levels(f, k - 1)
  <2>1. k - 1 \notin T
    <3> HIDE DEF T
    <3> QED BY <1>1, <1>3
  <2> QED BY <1>3, <2>1
<1>5. PICK last : last = UNION {ChildrenOf(m) : m \in f[k - 1]}
  OBVIOUS
<1>6. PICK g : g = [d \in 0..k |-> IF d = k THEN last ELSE f[d]]
  OBVIOUS
<1>7. g = [d \in 0..k |-> g[d]]
  BY <1>6
<1>8. Levels(g, k)
  <2> SUFFICES ASSUME NEW d \in 0..k
               PROVE  g[d] = IF d = 0 THEN Outer
                             ELSE UNION {ChildrenOf(m) : m \in g[d - 1]}
    BY DEF Levels
  <2>1. CASE d = 0
    <3>1. d \in 0..k - 1 /\ d # k
      BY <1>3, <2>1
    <3> QED BY <1>4, <1>6, <2>1, <3>1 DEF Levels
  <2>2. CASE d # 0
    <3>1. d - 1 \in 0..k - 1 /\ d - 1 \in 0..k /\ d - 1 # k
      BY <1>3, <2>2
    <3>2. g[d - 1] = f[d - 1]
      BY <1>6, <3>1
    <3>3. CASE d = k
      BY <1>5, <1>6, <2>2, <3>2, <3>3
    <3>4. CASE d # k
      <4>1. d \in 0..k - 1
        BY <1>3, <3>4
      <4>2. g[d] = f[d]
        BY <1>6, <3>4
      <4> QED BY <1>4, <2>2, <3>2, <4>1, <4>2 DEF Levels
    <3> QED BY <3>3, <3>4
  <2> QED BY <2>1, <2>2
<1> QED BY <1>1, <1>7, <1>8

LEMMA LevelIs == ASSUME Len(out) \in Nat PROVE Levels(level, Len(out))
PROOF
<1>1. PICK f : f = [d \in 0..Len(out) |-> f[d]] /\ Levels(f, Len(out))
  BY SomeLevels
<1>2. f = [d \in 0..Len(out) |-> IF d = 0 THEN Outer
                                 ELSE UNION {ChildrenOf(m) : m \in f[d - 1]}]
  BY <1>1 DEF Levels
<1>3. level = [d \in 0..Len(out) |-> IF d = 0 THEN Outer
                                     ELSE UNION {ChildrenOf(m) : m \in level[d - 1]}]
  BY <1>2 DEF level, Outer
<1> QED BY <1>3 DEF Levels

(* Every node at every depth is in the set. *)
LEMMA LevelsWithin ==
    ASSUME Len(out) \in Nat, NEW S, WellFormed(S), Outer \subseteq S
    PROVE  \A d \in 0..Len(out) : level[d] \subseteq S
PROOF
<1> DEFINE T == {d \in 0..Len(out) : ~(level[d] \subseteq S)}
<1> SUFFICES ASSUME T # {} PROVE FALSE
  OBVIOUS
<1>1. PICK d \in T : \A j \in T : ~(j < d)
  <2>1. T \in SUBSET Nat
    OBVIOUS
  <2> HIDE DEF T
  <2> QED BY <2>1, LeastOf
<1>2. Levels(level, Len(out)) /\ d \in 0..Len(out)
  BY LevelIs
<1>3. CASE d = 0
  BY <1>2, <1>3 DEF Levels
<1>4. CASE d # 0
  <2>1. d - 1 \in 0..Len(out) /\ d - 1 < d
    BY <1>2, <1>4
  <2>2. level[d - 1] \subseteq S
    BY <1>1, <2>1
  <2>3. level[d] = UNION {ChildrenOf(m) : m \in level[d - 1]}
    BY <1>2, <1>4 DEF Levels
  <2>4. \A m \in S : ChildrenOf(m) \subseteq S
    BY DEF WellFormed, ChildrenOf
  <2>5. level[d] \subseteq S
    <3> HIDE DEF T
    <3> QED BY <2>2, <2>3, <2>4
  <2> QED BY <2>5
<1> QED BY <1>3, <1>4

(* Every tree the parser makes is one compile can take (cc.c:77-370): the  *)
(* token of each node fits its kind, for every text.                       *)
THEOREM TreesFitCompiler == ASSUME KeywordTypes PROVE Spec => []TreesFit
PROOF
<1>1. IInv /\ BracketInv /\ TreesInv /\ FirstInList /\ [Next]_vars => TreesInv' /\ FirstInList'
  BY StepTrees
<1>2. IInv /\ BracketInv /\ AcceptsBalanced /\ [Next]_vars => BracketInv' /\ AcceptsBalanced'
  BY StepBalanced
<1>3. IInv /\ TreesInv => TreesFit
  <2> SUFFICES ASSUME IInv, TreesInv, p_status = "parsed"
               PROVE  \A d \in 0..Len(out) : \A n \in level[d] : NodeFits(n)
    BY DEF TreesFit
  <2>1. Len(out) \in Nat
    BY DEF IInv, LexInv
  <2>2. PICK S : WellFormed(S) /\ Forest(open, S)
    BY DEF TreesInv
  <2>3. Outer \subseteq S
    BY <2>2 DEF Forest, ChildrenOf, Outer
  <2>4. \A d \in 0..Len(out) : level[d] \subseteq S
    BY <2>1, <2>2, <2>3, LevelsWithin
  <2> QED BY <2>2, <2>4 DEF WellFormed
<1> QED BY <1>1, <1>2, <1>3, InitBalanced, InitTrees, FrontEndInvariance, PTL DEF Spec

-----------------------------------------------------------------------------
(* Sequences of sequences.  f gathers what FlattenSeq puts together of the *)
(* first n members of s.                                                   *)
Gathers(f, s, n) == \A i \in 1..n : f[i] = IF i = 1 THEN s[i] ELSE f[i - 1] \o s[i]

LEMMA SomeGathers ==
    ASSUME NEW T, NEW n \in Nat, NEW s \in [1..n -> Seq(T)]
    PROVE  \E f \in [1..n -> Seq(T)] : Gathers(f, s, n)
PROOF
<1> DEFINE Has(k) == \E f \in [1..k -> Seq(T)] : Gathers(f, s, k)
           Lacking == {k \in 0..n : ~Has(k)}
<1> SUFFICES ASSUME Lacking # {} PROVE FALSE
  OBVIOUS
<1>1. PICK k \in Lacking : \A j \in Lacking : ~(j < k)
  <2>1. Lacking \in SUBSET Nat
    OBVIOUS
  <2> HIDE DEF Lacking
  <2> QED BY <2>1, LeastOf
<1>2. Has(0)
  <2>1. PICK f : f = [i \in 1..0 |-> <<>>]
    OBVIOUS
  <2>2. f \in [1..0 -> Seq(T)] /\ Gathers(f, s, 0)
    BY <2>1 DEF Gathers
  <2> QED BY <2>2
<1>3. k \in 1..n /\ k - 1 \in 0..n /\ k - 1 < k
  <2> HIDE DEF Has
  <2>1. k \in 0..n /\ k # 0
    BY <1>1, <1>2
  <2> QED BY <2>1
<1>4. PICK f \in [1..k - 1 -> Seq(T)] : Gathers(f, s, k - 1)
  <2>1. k - 1 \notin Lacking
    <3> HIDE DEF Lacking
    <3> QED BY <1>1, <1>3
  <2> QED BY <1>3, <2>1
<1>5. PICK last \in Seq(T) : last = IF k = 1 THEN s[k] ELSE f[k - 1] \o s[k]
  <2>1. s[k] \in Seq(T)
    BY <1>3
  <2>2. CASE k = 1
    BY <2>1, <2>2
  <2>3. CASE k # 1
    <3>1. f[k - 1] \in Seq(T)
      BY <1>3, <1>4, <2>3
    <3>2. f[k - 1] \o s[k] \in Seq(T)
      BY <2>1, <3>1
    <3> QED BY <2>3, <3>2
  <2> QED BY <2>2, <2>3
<1>6. PICK g : g = [i \in 1..k |-> IF i = k THEN last ELSE f[i]]
  OBVIOUS
<1>7. g \in [1..k -> Seq(T)]
  <2>1. \A i \in 1..k : i # k => i \in 1..k - 1
    BY <1>3
  <2> QED BY <1>4, <1>6, <2>1
<1>8. Gathers(g, s, k)
  <2> SUFFICES ASSUME NEW i \in 1..k
               PROVE  g[i] = IF i = 1 THEN s[i] ELSE g[i - 1] \o s[i]
    BY DEF Gathers
  <2>1. i # 1 => i - 1 \in 1..k /\ i - 1 # k
    BY <1>3
  <2>2. i # 1 => g[i - 1] = f[i - 1]
    BY <1>6, <2>1
  <2>3. CASE i = k
    BY <1>5, <1>6, <2>2, <2>3
  <2>4. CASE i # k
    <3>1. i \in 1..k - 1
      BY <1>3, <2>4
    <3> QED BY <1>4, <1>6, <2>2, <2>4, <3>1 DEF Gathers
  <2> QED BY <2>3, <2>4
<1> QED BY <1>1, <1>7, <1>8

(* Only one function gathers the same. *)
LEMMA OneGathers ==
    ASSUME NEW n \in Nat, NEW f, NEW g, NEW s, NEW t,
           Gathers(f, s, n), Gathers(g, t, n), \A i \in 1..n : s[i] = t[i]
    PROVE  \A i \in 1..n : f[i] = g[i]
PROOF
<1> DEFINE Unlike == {i \in 1..n : f[i] # g[i]}
<1> SUFFICES ASSUME Unlike # {} PROVE FALSE
  OBVIOUS
<1>1. PICK k \in Unlike : \A j \in Unlike : ~(j < k)
  <2>1. Unlike \in SUBSET Nat
    OBVIOUS
  <2> HIDE DEF Unlike
  <2> QED BY <2>1, LeastOf
<1>2. k \in 1..n /\ f[k] # g[k] /\ s[k] = t[k]
  BY <1>1
<1>3. CASE k = 1
  BY <1>2, <1>3 DEF Gathers
<1>4. CASE k # 1
  <2>1. k - 1 \in 1..n /\ k - 1 < k
    BY <1>2, <1>4
  <2>2. k - 1 \notin Unlike
    <3> HIDE DEF Unlike
    <3> QED BY <1>1, <2>1
  <2>3. f[k - 1] = g[k - 1]
    BY <2>1, <2>2
  <2> QED BY <1>2, <1>4, <2>3 DEF Gathers
<1> QED BY <1>3, <1>4

LEMMA FlatIs ==
    ASSUME NEW T, NEW n \in Nat \ {0}, NEW s \in [1..n -> Seq(T)]
    PROVE  \E f : Gathers(f, s, n) /\ FlattenSeq(s) = f[n] /\ f[n] \in Seq(T)
PROOF
<1>1. s \in Seq(Seq(T)) /\ Len(s) = n
  BY IsASeq
<1> DEFINE g == CHOOSE h : h = [i \in 1..n |-> IF i = 1 THEN s[i] ELSE h[i - 1] \o s[i]]
<1>2. PICK f \in [1..n -> Seq(T)] : Gathers(f, s, n)
  BY SomeGathers
<1>3. f = [i \in 1..n |-> IF i = 1 THEN s[i] ELSE f[i - 1] \o s[i]]
  BY <1>2 DEF Gathers
<1>4. g = [i \in 1..n |-> IF i = 1 THEN s[i] ELSE g[i - 1] \o s[i]]
  BY <1>3
<1>5. FlattenSeq(s) = g[n]
  BY <1>1 DEF FlattenSeq
<1> HIDE DEF g
<1>6. Gathers(g, s, n)
  BY <1>4 DEF Gathers
<1>7. g[n] = f[n]
  BY <1>2, <1>6, OneGathers
<1>8. f[n] \in Seq(T)
  BY <1>2
<1> QED BY <1>5, <1>6, <1>7, <1>8

LEMMA FlatEmpty ==
    ASSUME NEW T, NEW s \in [1..0 -> Seq(T)]
    PROVE  FlattenSeq(s) = <<>>
PROOF
<1>1. s \in Seq(Seq(T)) /\ Len(s) = 0
  BY IsASeq
<1>2. s = <<>>
  BY <1>1
<1> QED BY <1>1, <1>2 DEF FlattenSeq

LEMMA FlatTyped ==
    ASSUME NEW T, NEW n \in Nat, NEW s \in [1..n -> Seq(T)]
    PROVE  FlattenSeq(s) \in Seq(T)
PROOF
<1>1. CASE n = 0
  <2>1. FlattenSeq(s) = <<>>
    BY <1>1, FlatEmpty
  <2> QED BY <2>1
<1>2. CASE n # 0
  BY <1>2, FlatIs
<1> QED BY <1>1, <1>2

(* One sequence more is put at the end. *)
LEMMA FlatMore ==
    ASSUME NEW T, NEW n \in Nat, NEW s \in [1..n -> Seq(T)], NEW t \in [1..n + 1 -> Seq(T)],
           \A i \in 1..n : t[i] = s[i]
    PROVE  FlattenSeq(t) = FlattenSeq(s) \o t[n + 1]
PROOF
<1>1. PICK g : /\ Gathers(g, t, n + 1) /\ FlattenSeq(t) = g[n + 1]
  BY FlatIs
<1>2. CASE n = 0
  <2>1. g[1] = t[1] /\ t[1] \in Seq(T)
    BY <1>1, <1>2 DEF Gathers
  <2>2. FlattenSeq(s) = <<>>
    BY <1>2, FlatEmpty
  <2>3. <<>> \o t[1] = t[1]
    BY <2>1, ConcatEmptySeq
  <2> QED BY <1>1, <1>2, <2>1, <2>2, <2>3
<1>3. CASE n # 0
  <2>1. PICK f : Gathers(f, s, n) /\ FlattenSeq(s) = f[n]
    BY <1>3, FlatIs
  <2>2. n \in 1..n + 1 /\ n + 1 \in 1..n + 1 /\ n \in 1..n /\ n + 1 # 1 /\ (n + 1) - 1 = n
    BY <1>3
  <2>3. Gathers(g, t, n)
    BY <1>1, <2>2 DEF Gathers
  <2>4. f[n] = g[n]
    BY <2>1, <2>2, <2>3, OneGathers
  <2>5. g[n + 1] = g[(n + 1) - 1] \o t[n + 1]
    BY <1>1, <2>2 DEF Gathers
  <2> QED BY <1>1, <2>1, <2>2, <2>4, <2>5
<1> QED BY <1>2, <1>3

-----------------------------------------------------------------------------
(* Trees written back.  What a node is written as, where w has it of its   *)
(* children: the equation that defines written.                            *)
Body(n, w) == IF n.type \in {"N_ATOM", "N_IDENT"} THEN <<n.token.type>>
              ELSE Append(Opened(n, w), "T_DELIMITOR_RIGHT")

(* w has what each node of S is written as, and no node of S, whose height *)
(* is in h, is below itself.                                               *)
Writes(X, S, h, w, p) ==
    /\ w \in [S -> Seq(X)]
    /\ h \in [S -> Nat]
    /\ \A n \in S : w[n] = Body(n, w) /\ h[n] <= p
    /\ \A n \in S : \A k \in 1..Len(n.children) : h[n.children[k]] < h[n]

Spelled(X, s) == \A d \in 1..Len(s) : OpenerOf(s[d]) \in Seq(X)
Lines(s, w) == [d \in 1..Len(s) |-> Opened(s[d], w)]
Parsed(X, S, h, w, s, p, text) ==
    /\ WellFormed(S) /\ Forest(s, S) /\ Spelled(X, s) /\ Writes(X, S, h, w, p)
    /\ FlattenSeq(Lines(s, w)) = text
UnparseInv ==
    p_status \in {"parsing", "parsed"} =>
        \E S, h, w : Parsed(L!TokenTypes, S, h, w, open, p_pos, Read)

(* Relations between nodes, and between what is written of them. *)
Within(n, S) == \A k \in 1..Len(n.children) : n.children[k] \in S
Among(n, S) == Within(n, S) /\ \E U : n.children \in Seq(U)
Same(v, w, S) == \A x \in S : v[x] = w[x]
Grown(more, list, n) ==
    /\ more.type = list.type /\ more.token = list.token
    /\ more.children = Append(list.children, n)
Takes(list, n) == list.type = "N_LIST" /\ list.children = <<>> => n.type # "N_IDENT"
Extended(more, s, n) == more = [s EXCEPT ![Len(s)].children = Append(@, n)]

LEMMA OpenedTyped ==
    ASSUME NEW X, NEW S, NEW w \in [S -> Seq(X)], NEW n, Among(n, S),
           OpenerOf(n) \in Seq(X)
    PROVE  Opened(n, w) \in Seq(X)
PROOF
<1>1. PICK text \in Seq(X) :
          text = FlattenSeq([k \in 1..Len(n.children) |-> w[n.children[k]]])
  <2>1. PICK c : c = n.children
    OBVIOUS
  <2>2. Len(c) \in Nat /\ \A k \in 1..Len(c) : c[k] \in S
    BY <2>1 DEF Among, Within
  <2>3. PICK s : s = [k \in 1..Len(c) |-> w[c[k]]]
    OBVIOUS
  <2>4. s \in [1..Len(c) -> Seq(X)]
    BY <2>2, <2>3
  <2>5. FlattenSeq(s) \in Seq(X)
    BY <2>2, <2>4, FlatTyped
  <2> QED BY <2>1, <2>3, <2>5
<1>2. OpenerOf(n) \o text \in Seq(X)
  BY ConcatProperties
<1> QED BY <1>1, <1>2 DEF Opened

(* A node without children is only opened. *)
LEMMA OpenedEmpty ==
    ASSUME NEW X, NEW n, n.children = <<>>, OpenerOf(n) \in Seq(X), NEW w
    PROVE  Opened(n, w) = OpenerOf(n)
PROOF
<1>1. PICK s : s = [k \in 1..Len(n.children) |-> w[n.children[k]]]
  OBVIOUS
<1>2. Len(n.children) = 0
  OBVIOUS
<1>3. s \in [1..0 -> Seq(X)]
  BY <1>1, <1>2
<1>4. FlattenSeq(s) = <<>>
  BY <1>3, FlatEmpty
<1>5. OpenerOf(n) \o <<>> = OpenerOf(n)
  BY ConcatEmptySeq
<1> QED BY <1>1, <1>4, <1>5 DEF Opened

(* A list with one child more is written with that child at the end. *)
LEMMA OpenedMore ==
    ASSUME NEW X, NEW S, NEW w \in [S -> Seq(X)], NEW list, Among(list, S),
           OpenerOf(list) \in Seq(X), NEW n \in S, NEW more, Grown(more, list, n)
    PROVE  Opened(more, w) = Opened(list, w) \o w[n]
PROOF
<1>1. PICK c, d : c = list.children /\ d = more.children
  OBVIOUS
<1>2. /\ Len(c) \in Nat /\ Len(d) = Len(c) + 1
      /\ \A k \in 1..Len(c) : d[k] = c[k] /\ c[k] \in S
      /\ d[Len(c) + 1] = n
  <2>1. PICK U : c \in Seq(U)
    BY <1>1 DEF Among, Within
  <2>2. c \in Seq(U \cup {n}) /\ d = Append(c, n)
    BY <1>1, <2>1 DEF Grown
  <2>3. \A k \in 1..Len(c) : c[k] \in S
    BY <1>1 DEF Among, Within
  <2> QED BY <2>1, <2>2, <2>3
<1>3. \A k \in 1..Len(d) : d[k] \in S
  <2>1. \A k \in 1..Len(d) : k \in 1..Len(c) \/ k = Len(c) + 1
    BY <1>2
  <2> QED BY <1>2, <2>1
<1>4. PICK s, t : s = [k \in 1..Len(c) |-> w[c[k]]] /\ t = [k \in 1..Len(d) |-> w[d[k]]]
  OBVIOUS
<1>5. s \in [1..Len(c) -> Seq(X)]
  BY <1>2, <1>4
<1>6. t \in [1..Len(c) + 1 -> Seq(X)]
  BY <1>2, <1>3, <1>4
<1>7. /\ \A k \in 1..Len(c) : t[k] = s[k]
      /\ t[Len(c) + 1] = w[n]
  <2>1. \A k \in 1..Len(c) : k \in 1..Len(d)
    BY <1>2
  <2>2. Len(c) + 1 \in 1..Len(d)
    BY <1>2
  <2> QED BY <1>2, <1>4, <2>1, <2>2
<1>8. FlattenSeq(t) = FlattenSeq(s) \o w[n] /\ FlattenSeq(s) \in Seq(X)
  <2>1. FlattenSeq(s) \in Seq(X)
    BY <1>2, <1>5, FlatTyped
  <2>2. FlattenSeq(t) = FlattenSeq(s) \o t[Len(c) + 1]
    BY <1>2, <1>5, <1>6, <1>7, FlatMore
  <2> QED BY <1>7, <2>1, <2>2
<1>9. OpenerOf(more) = OpenerOf(list)
  BY DEF OpenerOf, Grown
<1>10. (OpenerOf(list) \o FlattenSeq(s)) \o w[n] = OpenerOf(list) \o (FlattenSeq(s) \o w[n])
  BY <1>8, ConcatAssociative
<1> QED BY <1>1, <1>4, <1>8, <1>9, <1>10 DEF Opened

(* The lists of s are written the same if more nodes are. *)
LEMMA OpenedSame ==
    ASSUME NEW S, NEW w, NEW v, Same(v, w, S), NEW n, Within(n, S)
    PROVE  Opened(n, v) = Opened(n, w)
PROOF
<1>1. [k \in 1..Len(n.children) |-> v[n.children[k]]]
        = [k \in 1..Len(n.children) |-> w[n.children[k]]]
  BY DEF Same, Within
<1> QED BY <1>1 DEF Opened

LEMMA LinesSame ==
    ASSUME NEW S, NEW w, NEW v, Same(v, w, S), NEW s, Forest(s, S)
    PROVE  Lines(s, v) = Lines(s, w)
PROOF
<1>1. ASSUME NEW d \in 1..Len(s) PROVE Opened(s[d], v) = Opened(s[d], w)
  <2>1. Within(s[d], S)
    BY DEF Forest, Within
  <2> QED BY <2>1, OpenedSame
<1> QED BY <1>1 DEF Lines

LEMMA LinesTyped ==
    ASSUME NEW X, NEW S, NEW w \in [S -> Seq(X)], NEW s, Forest(s, S), Spelled(X, s)
    PROVE  Lines(s, w) \in [1..Len(s) -> Seq(X)]
PROOF
<1>1. ASSUME NEW d \in 1..Len(s) PROVE Opened(s[d], w) \in Seq(X)
  <2>1. PICK n : n = s[d]
    OBVIOUS
  <2>2. Among(n, S) /\ OpenerOf(n) \in Seq(X)
    BY <2>1 DEF Forest, Spelled, Among, Within
  <2> QED BY <2>1, <2>2, OpenedTyped
<1> QED BY <1>1 DEF Lines

(* The node is written at the end if it becomes the last child of the last *)
(* list.                                                                   *)
LEMMA LinesMore ==
    ASSUME NEW X, NEW S, NEW w \in [S -> Seq(X)], NEW s, Stacked(s), Forest(s, S), Spelled(X, s),
           NEW n \in S, NEW more, Extended(more, s, n)
    PROVE  FlattenSeq(Lines(more, w)) = FlattenSeq(Lines(s, w)) \o w[n] /\ Spelled(X, more)
PROOF
<1>1. PICK R : s \in Seq(R)
  BY DEF Stacked
<1>2. PICK m \in Nat : m + 1 = Len(s)
  <2>1. Len(s) \in Nat /\ Len(s) # 0 /\ Len(s) - 1 \in Nat /\ (Len(s) - 1) + 1 = Len(s)
    BY <1>1 DEF Stacked
  <2> QED BY <2>1
<1>3. m + 1 \in 1..Len(s) /\ IsNode(s[m + 1])
  BY <1>2 DEF Stacked
<1>4. PICK list : list = s[m + 1]
  OBVIOUS
<1>5. PICK longer : longer = [list EXCEPT !.children = Append(@, n)]
  OBVIOUS
<1>6. Grown(longer, list, n)
  BY <1>3, <1>4, <1>5 DEF IsNode, Grown
<1>7. more = [s EXCEPT ![m + 1] = longer]
  BY <1>2, <1>3, <1>4, <1>5 DEF Extended
<1>8. /\ Len(more) = m + 1
      /\ \A d \in 1..m + 1 : more[d] = IF d = m + 1 THEN longer ELSE s[d]
  <2>1. more \in Seq(R \cup {longer}) /\ Len(more) = Len(s)
    BY <1>1, <1>3, <1>7
  <2>2. ASSUME NEW d \in 1..m + 1 PROVE more[d] = IF d = m + 1 THEN longer ELSE s[d]
    <3>1. d \in DOMAIN s
      BY <1>1, <1>2
    <3> QED BY <1>7, <3>1
  <2> QED BY <1>2, <2>1, <2>2
<1>9. Among(list, S)
  BY <1>3, <1>4 DEF Forest, Among, Within
<1>10. OpenerOf(list) \in Seq(X)
  BY <1>3, <1>4 DEF Spelled
<1>11. Opened(longer, w) = Opened(list, w) \o w[n]
  BY <1>6, <1>9, <1>10, OpenedMore
<1>12. Opened(list, w) \in Seq(X) /\ w[n] \in Seq(X)
  BY <1>9, <1>10, OpenedTyped
<1>13. PICK before, after, rest :
           before = Lines(s, w) /\ after = Lines(more, w)
           /\ rest = [d \in 1..m |-> Opened(s[d], w)]
  OBVIOUS
<1>14. before \in [1..m + 1 -> Seq(X)]
  BY <1>2, <1>13, LinesTyped
<1>15. \A d \in 1..m + 1 : before[d] = Opened(s[d], w) /\ after[d] = Opened(more[d], w)
  BY <1>2, <1>8, <1>13 DEF Lines
<1>16. Opened(list, w) \o w[n] \in Seq(X)
  BY <1>12, ConcatProperties
<1>17. \A d \in 1..m : d \in 1..m + 1 /\ d # m + 1
  OBVIOUS
<1>18. /\ \A d \in 1..m : rest[d] = before[d] /\ after[d] = before[d]
       /\ before[m + 1] = Opened(list, w) /\ after[m + 1] = Opened(list, w) \o w[n]
  <2>1. \A d \in 1..m : more[d] = s[d]
    BY <1>8, <1>17
  <2>2. m + 1 \in 1..m + 1
    OBVIOUS
  <2>3. more[m + 1] = longer
    BY <1>8, <2>2
  <2>4. \A d \in 1..m : rest[d] = Opened(s[d], w)
    BY <1>13
  <2>5. \A d \in 1..m : rest[d] = before[d] /\ after[d] = before[d]
    BY <1>15, <1>17, <2>1, <2>4
  <2> QED BY <1>4, <1>11, <1>15, <2>2, <2>3, <2>5
<1>19. rest \in [1..m -> Seq(X)]
  BY <1>13, <1>14, <1>17, <1>18
<1>20. after \in [1..m + 1 -> Seq(X)]
  <2>1. after = [d \in 1..m + 1 |-> Opened(more[d], w)]
    BY <1>8, <1>13 DEF Lines
  <2>2. \A d \in 1..m + 1 : after[d] \in Seq(X)
    <3>1. \A d \in 1..m + 1 : d = m + 1 \/ d \in 1..m
      OBVIOUS
    <3>2. \A d \in 1..m : before[d] \in Seq(X)
      BY <1>14, <1>17
    <3> QED BY <1>16, <1>18, <3>1, <3>2
  <2> QED BY <2>1, <2>2
<1>21. FlattenSeq(before) = FlattenSeq(rest) \o Opened(list, w)
  <2>1. FlattenSeq(before) = FlattenSeq(rest) \o before[m + 1]
    <3>1. \A d \in 1..m : before[d] = rest[d]
      BY <1>18
    <3> QED BY <1>14, <1>19, <3>1, FlatMore
  <2> QED BY <1>18, <2>1
<1>22. FlattenSeq(after) = FlattenSeq(rest) \o (Opened(list, w) \o w[n])
  <2>1. \A d \in 1..m : after[d] = rest[d]
    BY <1>18
  <2>2. FlattenSeq(after) = FlattenSeq(rest) \o after[m + 1]
    BY <1>19, <1>20, <2>1, FlatMore
  <2> QED BY <1>18, <2>2
<1>23. FlattenSeq(rest) \in Seq(X)
  BY <1>19, FlatTyped
<1>24. FlattenSeq(after) = FlattenSeq(before) \o w[n]
  <2>1. PICK a, b, c \in Seq(X) :
            a = FlattenSeq(rest) /\ b = Opened(list, w) /\ c = w[n]
    BY <1>12, <1>23
  <2>2. a \o (b \o c) = (a \o b) \o c
    BY ConcatAssociative
  <2> QED BY <1>21, <1>22, <2>1, <2>2
<1>25. Spelled(X, more)
  <2>1. OpenerOf(longer) = OpenerOf(list)
    BY <1>6 DEF OpenerOf, Grown
  <2> QED BY <1>2, <1>8, <1>10, <2>1 DEF Spelled
<1> QED BY <1>13, <1>24, <1>25

(* A node is written when its children are: either it is already, or it is *)
(* higher than they are.                                                   *)
LEMMA BodySame ==
    ASSUME NEW S, NEW w, NEW v, Same(v, w, S), NEW n, Within(n, S)
    PROVE  Body(n, v) = Body(n, w)
PROOF
<1>1. Opened(n, v) = Opened(n, w)
  BY OpenedSame
<1> QED BY <1>1 DEF Body

Wider(X, S, w, p, n, g, v) ==
    Writes(X, S \cup {n}, g, v, p + 1) /\ Same(v, w, S) /\ v[n] = Body(n, w)

LEMMA WritesMore ==
    ASSUME NEW X, NEW S, NEW h, NEW w, NEW p \in Nat, WellFormed(S), Writes(X, S, h, w, p),
           NEW n, Among(n, S), Body(n, w) \in Seq(X)
    PROVE  \E g, v : Wider(X, S, w, p, n, g, v)
PROOF
<1>1. /\ w \in [S -> Seq(X)] /\ h \in [S -> Nat]
      /\ \A x \in S : w[x] = Body(x, w) /\ h[x] <= p
      /\ \A x \in S : \A k \in 1..Len(x.children) : h[x.children[k]] < h[x]
  BY DEF Writes
<1>2. CASE n \in S
  <2>1. S \cup {n} = S
    BY <1>2
  <2>2. \A x \in S : h[x] <= p + 1
    BY <1>1
  <2>3. Writes(X, S \cup {n}, h, w, p + 1)
    BY <1>1, <2>1, <2>2 DEF Writes
  <2>4. Wider(X, S, w, p, n, h, w)
    BY <1>1, <1>2, <2>3 DEF Same, Wider
  <2> QED BY <2>4
<1>3. CASE n \notin S
  <2>1. PICK v : v = [x \in S \cup {n} |-> IF x \in S THEN w[x] ELSE Body(n, w)]
    OBVIOUS
  <2>2. PICK g : g = [x \in S \cup {n} |-> IF x \in S THEN h[x] ELSE p + 1]
    OBVIOUS
  <2>3. /\ \A x \in S : v[x] = w[x] /\ g[x] = h[x]
        /\ v[n] = Body(n, w) /\ g[n] = p + 1
    BY <1>3, <2>1, <2>2
  <2>4. Same(v, w, S)
    BY <2>3 DEF Same
  <2>5. v \in [S \cup {n} -> Seq(X)]
    BY <1>1, <2>1
  <2>6. g \in [S \cup {n} -> Nat]
    BY <1>1, <2>2
  <2>7. \A x \in S \cup {n} : \A k \in 1..Len(x.children) : x.children[k] \in S
    BY DEF WellFormed, Among, Within
  <2>8. ASSUME NEW x \in S \cup {n} PROVE Body(x, v) = Body(x, w)
    <3>1. Within(x, S)
      BY <2>7 DEF Within
    <3> QED BY <2>4, <3>1, BodySame
  <2>9. ASSUME NEW x \in S \cup {n} PROVE v[x] = Body(x, v) /\ g[x] <= p + 1
    <3>1. CASE x \in S
      <4>1. v[x] = Body(x, v)
        BY <1>1, <2>3, <2>8, <3>1
      <4>2. h[x] \in Nat /\ h[x] <= p /\ g[x] = h[x]
        BY <1>1, <2>3, <3>1
      <4> QED BY <4>1, <4>2
    <3>2. CASE x = n
      BY <2>3, <2>8, <3>2
    <3> QED BY <3>1, <3>2
  <2>10. ASSUME NEW x \in S \cup {n}, NEW k \in 1..Len(x.children)
        PROVE  g[x.children[k]] < g[x]
    <3>1. PICK y \in S : y = x.children[k]
      BY <2>7
    <3>2. g[y] = h[y] /\ h[y] \in Nat /\ h[y] <= p
      BY <1>1, <2>3
    <3>3. CASE x \in S
      <4>1. h[y] < h[x] /\ g[x] = h[x]
        BY <1>1, <2>3, <3>1, <3>3
      <4> QED BY <3>1, <3>2, <4>1
    <3>4. CASE x = n
      <4>1. g[x] = p + 1
        BY <2>3, <3>4
      <4> QED BY <3>1, <3>2, <4>1
    <3> QED BY <3>3, <3>4
  <2>11. Writes(X, S \cup {n}, g, v, p + 1)
    BY <2>5, <2>6, <2>9, <2>10 DEF Writes
  <2>12. Wider(X, S, w, p, n, g, v)
    BY <2>3, <2>4, <2>11 DEF Wider
  <2> QED BY <2>12
<1> QED BY <1>2, <1>3

(* A node becomes the last child of the last list of s. *)
LEMMA ParsedMore ==
    ASSUME NEW X, NEW S, NEW h, NEW w, NEW p \in Nat, NEW s, NEW text, Stacked(s),
           Parsed(X, S, h, w, s, p, text),
           NEW n, NodeFits(n), Among(n, S), Body(n, w) \in Seq(X),
           Takes(s[Len(s)], n), NEW more, Extended(more, s, n)
    PROVE  \E g, v : Parsed(X, S \cup {n}, g, v, more, p + 1, text \o Body(n, w))
PROOF
<1>1. /\ WellFormed(S) /\ Forest(s, S) /\ Spelled(X, s) /\ Writes(X, S, h, w, p)
      /\ FlattenSeq(Lines(s, w)) = text
  BY DEF Parsed
<1>2. PICK g, v : Wider(X, S, w, p, n, g, v)
  BY <1>1, WritesMore
<1>3. Writes(X, S \cup {n}, g, v, p + 1) /\ Same(v, w, S) /\ v[n] = Body(n, w)
  BY <1>2 DEF Wider
<1>4. WellFormed(S \cup {n})
  <2>1. \A k \in 1..Len(n.children) : n.children[k] \in S
    BY DEF Among, Within
  <2> QED BY <1>1, <2>1, WellFormedMore
<1>5. Forest(more, S \cup {n})
  <2>1. Forest([s EXCEPT ![Len(s)].children = Append(@, n)], S \cup {n})
    BY <1>1, ForestMore DEF Takes
  <2> QED BY <2>1 DEF Extended
<1>6. Lines(s, v) = Lines(s, w)
  BY <1>1, <1>3, LinesSame
<1>7. Forest(s, S \cup {n})
  BY <1>1 DEF Forest
<1>8. v \in [S \cup {n} -> Seq(X)] /\ n \in S \cup {n}
  BY <1>3 DEF Writes
<1>9. FlattenSeq(Lines(more, v)) = FlattenSeq(Lines(s, v)) \o v[n] /\ Spelled(X, more)
  BY <1>1, <1>7, <1>8, LinesMore
<1>10. FlattenSeq(Lines(more, v)) = text \o Body(n, w)
  BY <1>1, <1>3, <1>6, <1>9
<1> QED BY <1>3, <1>4, <1>5, <1>9, <1>10 DEF Parsed

(* A list is opened. *)
LEMMA ParsedOpened ==
    ASSUME NEW X, NEW S, NEW h, NEW w, NEW p \in Nat, NEW text, Stacked(open),
           Parsed(X, S, h, w, open, p, text),
           NEW n, NodeFits(n), n.children = <<>>, n.type \notin {"N_ATOM", "N_IDENT"},
           OpenerOf(n) \in Seq(X), NEW q \in Nat, p <= q
    PROVE  Parsed(X, S, h, w, Append(open, n), q, text \o OpenerOf(n))
PROOF
<1>1. /\ WellFormed(S) /\ Forest(open, S) /\ Spelled(X, open) /\ Writes(X, S, h, w, p)
      /\ FlattenSeq(Lines(open, w)) = text
  BY DEF Parsed
<1>2. PICK more : more = Append(open, n)
  OBVIOUS
<1>3. Forest(more, S)
  BY <1>1, <1>2, ForestOpened
<1>4. PICK m \in Nat : m = Len(open)
  BY DEF Stacked
<1>5. Len(more) = m + 1 /\ \A d \in 1..m + 1 : more[d] = IF d = m + 1 THEN n ELSE open[d]
  <2>1. PICK R : open \in Seq(R)
    BY DEF Stacked
  <2> QED BY <1>2, <1>4, <2>1
<1>6. Spelled(X, more)
  BY <1>1, <1>4, <1>5 DEF Spelled
<1>7. Writes(X, S, h, w, q)
  <2>1. h \in [S -> Nat] /\ \A x \in S : h[x] <= p
    BY <1>1 DEF Writes
  <2>2. \A x \in S : h[x] <= q
    BY <2>1
  <2> QED BY <1>1, <2>2 DEF Writes
<1>8. FlattenSeq(Lines(more, w)) = text \o OpenerOf(n)
  <2>1. w \in [S -> Seq(X)]
    BY <1>1 DEF Writes
  <2>2. PICK before, after : before = Lines(open, w) /\ after = Lines(more, w)
    OBVIOUS
  <2>3. before \in [1..m -> Seq(X)]
    BY <1>1, <1>4, <2>1, <2>2, LinesTyped
  <2>4. after \in [1..m + 1 -> Seq(X)]
    BY <1>3, <1>5, <1>6, <2>1, <2>2, LinesTyped
  <2>5. \A d \in 1..m : d \in 1..m + 1 /\ d # m + 1
    OBVIOUS
  <2>6. \A d \in 1..m : after[d] = before[d]
    BY <1>4, <1>5, <2>2, <2>5 DEF Lines
  <2>7. after[m + 1] = OpenerOf(n)
    <3>1. m + 1 \in 1..m + 1
      OBVIOUS
    <3>2. after[m + 1] = Opened(n, w)
      BY <1>5, <2>2, <3>1 DEF Lines
    <3> QED BY <3>2, OpenedEmpty
  <2>8. FlattenSeq(after) = FlattenSeq(before) \o after[m + 1]
    BY <2>3, <2>4, <2>6, FlatMore
  <2> QED BY <1>1, <2>2, <2>7, <2>8
<1> QED BY <1>1, <1>2, <1>3, <1>6, <1>7, <1>8 DEF Parsed

(* The innermost list becomes a child of the list around it. *)
LEMMA ParsedClosed ==
    ASSUME NEW X, NEW S, NEW h, NEW w, NEW p \in Nat, NEW text, Stacked(open), Len(open) > 1,
           Parsed(X, S, h, w, open, p, text), "T_DELIMITOR_RIGHT" \in X,
           NEW more, Extended(more, P!Below, P!Top)
    PROVE  \E R, g, v : Parsed(X, R, g, v, more, p + 1, text \o <<"T_DELIMITOR_RIGHT">>)
PROOF
<1>1. /\ WellFormed(S) /\ Forest(open, S) /\ Spelled(X, open) /\ Writes(X, S, h, w, p)
      /\ FlattenSeq(Lines(open, w)) = text /\ w \in [S -> Seq(X)]
  BY DEF Parsed, Writes
<1>2. PICK m \in Nat : m + 1 = Len(open) /\ m >= 1
  <2>1. PICK R : open \in Seq(R)
    BY DEF Stacked
  <2>2. PICK n \in Nat : n = Len(open) /\ n > 1
    BY <2>1
  <2>3. n - 1 \in Nat /\ (n - 1) + 1 = n /\ n - 1 >= 1
    BY <2>2
  <2> QED BY <2>2, <2>3
<1>3. PICK below, top : below = P!Below /\ top = P!Top
  OBVIOUS
<1>4. /\ top = open[m + 1] /\ Len(below) = m
      /\ \A d \in 1..m : below[d] = open[d]
  <2>1. PICK R : open \in Seq(R)
    BY DEF Stacked
  <2>2. below = SubSeq(open, 1, m)
    BY <1>2, <1>3 DEF P!Below
  <2> QED BY <1>2, <1>3, <2>1, <2>2 DEF P!Top
<1>5. m + 1 \in 1..Len(open) /\ \A d \in 1..m : d \in 1..Len(open)
  BY <1>2
<1>6. Forest(below, S) /\ Spelled(X, below) /\ Stacked(below)
  <2>1. Stacked(below)
    BY <1>3, BelowStacked
  <2> QED BY <1>1, <1>4, <1>5, <2>1 DEF Forest, Spelled
<1>7. /\ NodeFits(top) /\ Among(top, S) /\ top.type \notin {"N_ATOM", "N_IDENT"}
      /\ OpenerOf(top) \in Seq(X)
  <2>1. m + 1 > 1
    BY <1>2
  <2> QED BY <1>1, <1>4, <1>5, <2>1 DEF Forest, Spelled, Among, Within
<1>8. Takes(below[Len(below)], top)
  BY <1>7 DEF Takes
<1>9. PICK before, opened \in Seq(X) :
          before = FlattenSeq(Lines(below, w)) /\ opened = Opened(top, w)
  <2>1. Lines(below, w) \in [1..Len(below) -> Seq(X)]
    BY <1>1, <1>6, LinesTyped
  <2>2. FlattenSeq(Lines(below, w)) \in Seq(X)
    BY <1>4, <2>1, FlatTyped
  <2>3. Opened(top, w) \in Seq(X)
    BY <1>1, <1>7, OpenedTyped
  <2> QED BY <2>2, <2>3
<1>10. text = before \o opened
  <2>1. PICK s, t : s = Lines(below, w) /\ t = Lines(open, w)
    OBVIOUS
  <2>2. s \in [1..m -> Seq(X)]
    BY <1>1, <1>4, <1>6, <2>1, LinesTyped
  <2>3. t \in [1..m + 1 -> Seq(X)]
    BY <1>1, <1>2, <2>1, LinesTyped
  <2>4. \A d \in 1..m : t[d] = s[d]
    BY <1>4, <1>5, <2>1 DEF Lines
  <2>5. t[m + 1] = opened
    BY <1>4, <1>5, <1>9, <2>1 DEF Lines
  <2>6. FlattenSeq(t) = FlattenSeq(s) \o t[m + 1]
    BY <2>2, <2>3, <2>4, FlatMore
  <2> QED BY <1>1, <1>9, <2>1, <2>5, <2>6
<1>11. Body(top, w) = Append(opened, "T_DELIMITOR_RIGHT")
  BY <1>7, <1>9 DEF Body
<1>12. PICK body \in Seq(X) : body = Body(top, w)
  BY <1>11, AppendProperties
<1>13. before \o body = text \o <<"T_DELIMITOR_RIGHT">>
  <2>1. PICK end \in Seq(X) : end = <<"T_DELIMITOR_RIGHT">>
    <3>1. PICK c \in X : c = "T_DELIMITOR_RIGHT"
      OBVIOUS
    <3>2. <<c>> \in Seq(X)
      OBVIOUS
    <3> QED BY <3>1, <3>2
  <2>2. body = opened \o end
    BY <1>11, <1>12, <2>1, AppendIsConcat
  <2>3. before \o (opened \o end) = (before \o opened) \o end
    BY ConcatAssociative
  <2> QED BY <1>10, <2>1, <2>2, <2>3
<1>14. Parsed(X, S, h, w, below, p, before)
  BY <1>1, <1>6, <1>9 DEF Parsed
<1>15. Extended(more, below, top)
  BY <1>3
<1>16. \E g, v : Parsed(X, S \cup {top}, g, v, more, p + 1, before \o Body(top, w))
  BY <1>6, <1>7, <1>8, <1>12, <1>14, <1>15, ParsedMore
<1> QED BY <1>12, <1>13, <1>16

(* One token more is read. *)
Prefix(p) == [k \in 1..p |-> Type(out[k])]

LEMMA ReadMore ==
    ASSUME NEW X, NEW p \in Nat, \A k \in 1..p + 1 : Type(out[k]) \in X
    PROVE  Prefix(p) \in Seq(X) /\ Prefix(p + 1) = Prefix(p) \o <<Type(out[p + 1])>>
PROOF
<1>1. PICK s, t : s = Prefix(p) /\ t = Prefix(p + 1)
  OBVIOUS
<1>2. PICK x \in X : x = Type(out[p + 1])
  OBVIOUS
<1>3. /\ s \in [1..p -> X] /\ t \in [1..p + 1 -> X]
      /\ \A k \in 1..p : t[k] = s[k]
      /\ t[p + 1] = x
  BY <1>1, <1>2 DEF Prefix
<1>4. s \in Seq(X) /\ Len(s) = p /\ t \in Seq(X) /\ Len(t) = p + 1
  BY <1>3
<1>5. t = s \o <<x>>
  BY <1>3, <1>4
<1> QED BY <1>1, <1>2, <1>4, <1>5

(* What is written and read are types of tokens. *)
LEMMA TypesKnown ==
    /\ {"T_DELIMITOR_LEFT", "T_DELIMITOR_RIGHT", "T_BRAKET_LEFT", "T_CURLY_LEFT"}
           \subseteq L!TokenTypes
    /\ LexInv => \A k \in 1..Len(out) :
          out[k].type \in L!TokenTypes /\ Type(out[k]) \in L!TokenTypes
PROOF
<1>1. /\ L!Punctuation["("] = "T_DELIMITOR_LEFT" /\ L!Punctuation[")"] = "T_DELIMITOR_RIGHT"
      /\ L!Punctuation["["] = "T_BRAKET_LEFT" /\ L!Punctuation["{"] = "T_CURLY_LEFT"
      /\ {"(", ")", "[", "{"} \subseteq DOMAIN L!Punctuation
  BY DEF L!Punctuation
<1>2. {"T_DELIMITOR_LEFT", "T_DELIMITOR_RIGHT", "T_BRAKET_LEFT", "T_CURLY_LEFT"}
          \subseteq L!TokenTypes
  BY <1>1 DEF L!TokenTypes
<1>3. ASSUME LexInv, NEW k \in 1..Len(out)
      PROVE  out[k].type \in L!TokenTypes /\ Type(out[k]) \in L!TokenTypes
  <2>1. out[k] \in Tokens
    BY <1>3 DEF LexInv
  <2>2. out[k].type \in L!TokenTypes
    BY <2>1 DEF Tokens
  <2>3. Type(out[k]) = out[k].type \/ Type(out[k]) = "T_DELIMITOR_RIGHT"
    BY DEF Type
  <2> QED BY <1>2, <2>2, <2>3
<1> QED BY <1>2, <1>3

LEMMA TwoMore ==
    ASSUME NEW X, NEW s \in Seq(X), NEW x \in X, NEW y \in X
    PROVE  (s \o <<x>>) \o <<y>> = s \o <<x, y>>
PROOF
<1>1. PICK a : a = <<x>>
  OBVIOUS
<1>2. PICK b : b = <<y>>
  OBVIOUS
<1>3. PICK c : c = <<x, y>>
  OBVIOUS
<1>4. a \in Seq(X) /\ b \in Seq(X) /\ c \in Seq(X)
  BY <1>1, <1>2, <1>3
<1>5. a \o b = c
  <2>1. Len(a) = 1 /\ Len(b) = 1 /\ Len(c) = 2 /\ a[1] = x /\ b[1] = y /\ c[1] = x /\ c[2] = y
    BY <1>1, <1>2, <1>3
  <2>2. a \o b \in Seq(X) /\ Len(a \o b) = 2
    BY <1>4, <2>1, ConcatProperties
  <2>3. ASSUME NEW i \in 1..2 PROVE (a \o b)[i] = c[i]
    <3>1. (a \o b)[i] = IF i <= 1 THEN a[i] ELSE b[i - 1]
      BY <1>4, <2>1, ConcatProperties
    <3>2. i = 1 \/ i = 2
      OBVIOUS
    <3> QED BY <2>1, <3>1, <3>2
  <2> QED BY <1>4, <2>1, <2>2, <2>3, SeqEqual
<1>6. (s \o a) \o b = s \o (a \o b)
  BY <1>4, ConcatAssociative
<1> QED BY <1>1, <1>2, <1>3, <1>5, <1>6

(* Every label writes down what it reads. *)
LEMMA ParseKeepsText ==
    ASSUME IInv, FirstInList, UnparseInv, lex_status = "done", P!Next, UNCHANGED out,
           p_pos' \in 0..Len(out)
    PROVE  UnparseInv'
PROOF
<1> SUFFICES ASSUME p_status' \in {"parsing", "parsed"} PROVE UnparseInv'
  BY DEF UnparseInv
<1>1. /\ Stacked(open) /\ LexInv /\ Len(out) \in Nat
      /\ p_status = "parsing" => p_pos + 1 \in 1..Len(out)
  BY DEF IInv, LexInv, ParseInv, Inside
<1>2. PICK p \in Nat : p = p_pos
  BY DEF IInv, LexInv, ParseInv
<1>3. PICK X : X = L!TokenTypes /\ p = p_pos
  BY <1>2
<1>4. ASSUME p_status = "parsing"
      PROVE  \E S, h, w : Parsed(X, S, h, w, open, p, Prefix(p))
  BY <1>3, <1>4 DEF UnparseInv, Read, Prefix
<1>5. ASSUME NEW S, NEW h, NEW w, NEW q \in Nat, p_pos' = q,
             Parsed(X, S, h, w, open', q, Prefix(q))
      PROVE  UnparseInv'
  <2>1. Read' = Prefix(q)
    BY <1>5 DEF Read, Prefix
  <2> QED BY <1>3, <1>5, <2>1 DEF UnparseInv
<1>6. ASSUME NEW types, P!Parsing(types)
      PROVE  p_status = "parsing" /\ out[p + 1].type \in types /\ P!Current = out[p + 1]
  BY <1>3, <1>6 DEF P!Parsing, P!Current
<1>7. ASSUME NEW s, NEW n, P!AddChild(s, n), p_status = "parsing", Stacked(s)
      PROVE  Extended(open', s, n)
  <2>1. p_status' = "parsing"
    BY <1>7 DEF P!AddChild
  <2>2. open' = [s EXCEPT ![Len(s)].children = Append(@, n)]
    BY <1>7, <2>1, DepthAfter
  <2> QED BY <2>2 DEF Extended
<1>8. ASSUME p_status = "parsing"
      PROVE  /\ Prefix(p) \in Seq(X) /\ Prefix(p + 1) = Prefix(p) \o <<Type(out[p + 1])>>
             /\ out[p + 1].type \in X
  <2>1. p + 1 \in 1..Len(out)
    BY <1>1, <1>3, <1>8
  <2>2. \A k \in 1..p + 1 : k \in 1..Len(out)
    BY <1>1, <2>1
  <2>3. \A k \in 1..p + 1 : Type(out[k]) \in X
    BY <1>1, <1>3, <2>2, TypesKnown
  <2>4. out[p + 1].type \in X
    BY <1>1, <1>3, <2>1, TypesKnown
  <2> QED BY <2>3, <2>4, ReadMore
<1>9. CASE P!Atom \/ P!Ident
  <2>1. PICK n : /\ P!AddChild(open, n) /\ P!AdvanceBy(1)
                 /\ \/ P!Parsing(P!Atoms) /\ n = P!Node("N_ATOM", P!Current, <<>>)
                    \/ P!Parsing({"T_IDENT"}) /\ n = P!Node("N_IDENT", P!Current, <<>>)
    BY <1>9 DEF P!Atom, P!Ident
  <2>2. /\ p_status = "parsing" /\ p_pos' = p + 1 /\ p + 1 \in Nat
        /\ P!Current = out[p + 1] /\ out[p + 1].type \in P!Atoms \cup {"T_IDENT"}
    BY <1>3, <1>6, <2>1 DEF P!AdvanceBy
  <2>3. /\ n.type \in {"N_ATOM", "N_IDENT"} /\ n.token = out[p + 1] /\ n.children = <<>>
        /\ n.type = "N_ATOM" => out[p + 1].type \in P!Atoms
        /\ n.type = "N_IDENT" => out[p + 1].type = "T_IDENT"
    BY <1>6, <2>1, <2>2 DEF P!Node
  <2>4. NodeFits(n)
    BY <2>3 DEF NodeFits
  <2>5. Type(out[p + 1]) = out[p + 1].type
    BY <2>2 DEF Type, P!Atoms, P!Closers
  <2>6. ASSUME NEW w PROVE Body(n, w) = <<Type(out[p + 1])>>
    BY <2>3, <2>5 DEF Body
  <2>7. <<Type(out[p + 1])>> \in Seq(X)
    <3>1. PICK t \in X : t = Type(out[p + 1])
      BY <1>8, <2>2, <2>5
    <3>2. <<t>> \in Seq(X)
      OBVIOUS
    <3> QED BY <3>1, <3>2
  <2>8. PICK S, h, w : Parsed(X, S, h, w, open, p, Prefix(p))
    BY <1>4, <2>2
  <2>9. Among(n, S)
    BY <2>3, Childless DEF Among, Within
  <2>10. Takes(open[Len(open)], n)
    <3>1. CASE n.type = "N_ATOM"
      BY <3>1 DEF Takes
    <3>2. CASE n.type = "N_IDENT"
      <4>1. out[p_pos + 1].type = "T_IDENT"
        BY <1>3, <2>3, <3>2
      <4> QED BY <2>2, <4>1 DEF Takes, FirstInList, P!Top
    <3> QED BY <2>3, <3>1, <3>2
  <2>11. Extended(open', open, n)
    BY <1>1, <1>7, <2>1, <2>2
  <2>12. Body(n, w) \in Seq(X) /\ Prefix(p + 1) = Prefix(p) \o Body(n, w)
    BY <1>8, <2>2, <2>6, <2>7
  <2>13. PICK more : more = open'
    OBVIOUS
  <2>14. \E g, v : Parsed(X, S \cup {n}, g, v, more, p + 1, Prefix(p) \o Body(n, w))
    BY <1>1, <2>4, <2>8, <2>9, <2>10, <2>11, <2>12, <2>13, ParsedMore
  <2> QED BY <1>5, <2>2, <2>12, <2>13, <2>14
<1>10. ASSUME NEW n, NodeFits(n), n.children = <<>>, n.type \notin {"N_ATOM", "N_IDENT"},
             P!Open(n), p_status = "parsing", OpenerOf(n) \in Seq(X),
             NEW q \in Nat, p_pos' = q, p <= q, Prefix(q) = Prefix(p) \o OpenerOf(n)
      PROVE  UnparseInv'
  <2>1. PICK S, h, w : Parsed(X, S, h, w, open, p, Prefix(p))
    BY <1>4, <1>10
  <2>2. open' = Append(open, n)
    BY <1>10 DEF P!Open
  <2>3. Parsed(X, S, h, w, Append(open, n), q, Prefix(p) \o OpenerOf(n))
    BY <1>1, <1>10, <2>1, ParsedOpened
  <2> QED BY <1>5, <1>10, <2>2, <2>3
<1>11. CASE P!stmt_begin
  <2> DEFINE head == out[p_pos + 2]
             n == P!Node(P!HeadType(head), head, <<>>)
  <2>1. P!Parsing({"T_DELIMITOR_LEFT"}) /\ P!Open(n)
        /\ P!AdvanceBy(IF P!HeadType(head) = "N_LIST" THEN 1 ELSE 2)
    BY <1>11 DEF P!stmt_begin
  <2>2. /\ n.type = P!HeadType(head) /\ n.children = <<>> /\ n.token = head
        /\ n.type \in {"N_BUILTIN", "N_BIN", "N_CALL", "N_LIST"}
    BY DEF P!Node, P!HeadType
  <2>3. /\ n.type = "N_BUILTIN" => head.type = "T_BUILTIN"
        /\ n.type = "N_BIN" => head.type \in P!Operators
        /\ n.type = "N_CALL" => head.type = "T_IDENT"
    BY <2>2 DEF P!HeadType, P!Operators
  <2> HIDE DEF n
  <2>4. NodeFits(n)
    BY <2>2, <2>3 DEF NodeFits
  <2>5. p_status = "parsing" /\ out[p + 1].type = "T_DELIMITOR_LEFT"
    BY <1>6, <2>1
  <2>6. /\ Prefix(p) \in Seq(X)
        /\ Prefix(p + 1) = Prefix(p) \o <<"T_DELIMITOR_LEFT">>
    <3>1. Type(out[p + 1]) = "T_DELIMITOR_LEFT"
      BY <2>5 DEF Type, P!Closers
    <3> QED BY <1>8, <2>5, <3>1
  <2>7. PICK paren \in X : paren = "T_DELIMITOR_LEFT"
    BY <1>3, TypesKnown
  <2>8. CASE n.type = "N_LIST"
    <3>1. p_pos' = p + 1 /\ p <= p + 1 /\ p + 1 \in Nat
      BY <1>3, <2>1, <2>2, <2>8 DEF P!AdvanceBy
    <3>2. OpenerOf(n) = <<paren>> /\ <<paren>> \in Seq(X)
      BY <2>7, <2>8 DEF OpenerOf
    <3>3. n.type \notin {"N_ATOM", "N_IDENT"}
      BY <2>8
    <3> QED BY <1>10, <2>1, <2>2, <2>4, <2>5, <2>6, <2>7, <3>1, <3>2, <3>3
  <2>9. CASE n.type # "N_LIST"
    <3>1. p_pos' = p + 2 /\ p <= p + 2 /\ p + 2 \in Nat
      BY <1>3, <2>1, <2>2, <2>9 DEF P!AdvanceBy
    <3>2. \A k \in 1..p + 2 : k \in 1..Len(out)
      BY <1>1, <3>1
    <3>3. \A k \in 1..p + 2 : Type(out[k]) \in X
      BY <1>1, <1>3, <3>2, TypesKnown
    <3>4. p + 1 \in Nat /\ (p + 1) + 1 = p + 2
      OBVIOUS
    <3>5. Prefix(p + 2) = Prefix(p + 1) \o <<Type(out[p + 2])>>
      BY <3>3, <3>4, ReadMore
    <3>6. head = out[p + 2] /\ Type(out[p + 2]) = head.type
      <4>1. head.type \notin P!Closers
        BY <2>2, <2>3, <2>9 DEF P!Closers, P!Operators
      <4> QED BY <1>3, <4>1 DEF Type
    <3>7. PICK t \in X : t = head.type
      <4>1. p + 2 \in 1..p + 2
        OBVIOUS
      <4> QED BY <3>3, <3>6, <4>1
    <3>8. OpenerOf(n) = <<paren, t>> /\ <<paren, t>> \in Seq(X)
      BY <2>2, <2>7, <2>9, <3>7 DEF OpenerOf
    <3>9. (Prefix(p) \o <<paren>>) \o <<t>> = Prefix(p) \o <<paren, t>>
      BY <2>6, TwoMore
    <3>10. Prefix(p + 2) = Prefix(p) \o OpenerOf(n)
      BY <2>6, <2>7, <3>5, <3>6, <3>7, <3>8, <3>9
    <3>11. n.type \notin {"N_ATOM", "N_IDENT"}
      BY <2>2
    <3>12. OpenerOf(n) \in Seq(X)
      BY <3>8
    <3> QED BY <1>10, <2>1, <2>2, <2>4, <2>5, <3>1, <3>10, <3>11, <3>12
  <2> QED BY <2>8, <2>9
<1>12. CASE P!arr_start \/ P!obj_start
  <2>1. PICK type, opener :
            /\ P!Open(P!Node(type, P!NoToken, <<>>)) /\ P!AdvanceBy(1) /\ P!Parsing({opener})
            /\ \/ type = "N_ARRAY" /\ opener = "T_BRAKET_LEFT"
               \/ type = "N_OBJECT" /\ opener = "T_CURLY_LEFT"
    BY <1>12 DEF P!arr_start, P!obj_start
  <2> DEFINE n == P!Node(type, P!NoToken, <<>>)
  <2>2. n.type = type /\ n.children = <<>> /\ n.token = P!NoToken
    BY DEF P!Node
  <2>3. P!Open(n) /\ p_status = "parsing" /\ out[p + 1].type = opener
    BY <1>6, <2>1
  <2>4. p_pos' = p + 1 /\ p <= p + 1 /\ p + 1 \in Nat
    BY <1>3, <2>1 DEF P!AdvanceBy
  <2> HIDE DEF n
  <2>5. NodeFits(n) /\ n.type \notin {"N_ATOM", "N_IDENT"} /\ OpenerOf(n) = <<opener>>
    BY <2>1, <2>2 DEF NodeFits, OpenerOf
  <2>6. Type(out[p + 1]) = opener
    BY <2>1, <2>3 DEF Type, P!Closers
  <2>7. OpenerOf(n) \in Seq(X)
    <3>1. PICK t \in X : t = opener
      BY <1>3, <2>1, TypesKnown
    <3>2. <<t>> \in Seq(X)
      OBVIOUS
    <3> QED BY <2>5, <3>1, <3>2
  <2>8. Prefix(p + 1) = Prefix(p) \o OpenerOf(n)
    BY <1>8, <2>3, <2>5, <2>6
  <2> QED BY <1>10, <2>2, <2>3, <2>4, <2>5, <2>7, <2>8
<1>13. CASE P!stmt_end \/ P!arr_end \/ P!obj_end
  <2>1. PICK type \in P!Closers : P!Close(type)
    BY <1>13 DEF P!stmt_end, P!arr_end, P!obj_end, P!Closers
  <2>2. /\ P!Parsing({type}) /\ Len(open) > 1 /\ P!AddChild(P!Below, P!Top) /\ P!AdvanceBy(1)
    BY <2>1 DEF P!Close
  <2>3. p_status = "parsing" /\ out[p + 1].type = type /\ p_pos' = p + 1 /\ p + 1 \in Nat
    BY <1>3, <1>6, <2>2 DEF P!AdvanceBy
  <2>4. Type(out[p + 1]) = "T_DELIMITOR_RIGHT"
    BY <2>1, <2>3 DEF Type
  <2>5. Stacked(P!Below)
    BY <1>1, <2>2, BelowStacked
  <2>6. Extended(open', P!Below, P!Top)
    BY <1>7, <2>2, <2>3, <2>5
  <2>7. PICK S, h, w : Parsed(X, S, h, w, open, p, Prefix(p))
    BY <1>4, <2>3
  <2>8. "T_DELIMITOR_RIGHT" \in X
    BY <1>3, TypesKnown
  <2>9. PICK more : more = open'
    OBVIOUS
  <2>10. \E R, g, v : Parsed(X, R, g, v, more, p + 1, Prefix(p) \o <<"T_DELIMITOR_RIGHT">>)
    BY <1>1, <2>2, <2>6, <2>7, <2>8, <2>9, ParsedClosed
  <2>11. Prefix(p + 1) = Prefix(p) \o <<"T_DELIMITOR_RIGHT">>
    BY <1>8, <2>3, <2>4
  <2> QED BY <1>5, <2>3, <2>9, <2>10, <2>11
<1>14. CASE P!eof
  <2>1. p_status = "parsing" /\ p_pos' = p /\ open' = open
    BY <1>3, <1>6, <1>14 DEF P!eof
  <2> QED BY <1>4, <1>5, <2>1
<1>15. CASE P!UnexpectedEnd \/ P!MissingEnd \/ P!NoTarget
  BY <1>15 DEF P!UnexpectedEnd, P!MissingEnd, P!NoTarget, P!Abort
<1> QED BY <1>9, <1>11, <1>12, <1>13, <1>14, <1>15 DEF P!Next

LEMMA StepText ==
    IInv /\ BracketInv /\ FirstInList /\ UnparseInv /\ IInv' /\ [Next]_vars => UnparseInv'
PROOF
<1> SUFFICES ASSUME IInv, BracketInv, FirstInList, UnparseInv, IInv', [Next]_vars
             PROVE  UnparseInv'
  OBVIOUS
<1>1. ASSUME UNCHANGED <<p_pos, open, p_status>>, Read' = Read PROVE UnparseInv'
  BY <1>1 DEF UnparseInv
<1>2. CASE Lex
  <2>1. UNCHANGED <<p_pos, open, p_status>> /\ lex_status = "lexing"
    BY <1>2 DEF Lex, parserVars, L!Next, L!EmptyInput, L!Punctuate, L!Builtin, L!Number,
                L!Identifier, L!Quoted, L!String, L!Comment, L!Whitespace, L!Unknown,
                L!ReadBehind, L!End, L!Lexing, L!Reading
  <2>2. p_pos = 0
    BY <2>1 DEF IInv, Inside
  <2>3. \A k \in 1..p_pos : FALSE
    BY <2>2
  <2>4. Read' = Read
    BY <2>1, <2>3 DEF Read
  <2> QED BY <1>1, <2>1, <2>4
<1>3. CASE Parse
  <2>1. lex_status = "done" /\ P!Next /\ UNCHANGED out
    BY <1>3 DEF Parse, lexerVars
  <2>2. p_pos' \in 0..Len(out)
    BY <2>1 DEF IInv, ParseInv
  <2> QED BY <2>1, <2>2, ParseKeepsText
<1>4. CASE UNCHANGED vars
  <2>1. Read' = Read
    BY <1>4 DEF vars, lexerVars, parserVars, Read, Type
  <2> QED BY <1>1, <1>4, <2>1 DEF vars, parserVars
<1> QED BY <1>2, <1>3, <1>4 DEF Next

LEMMA InitText == input \in Seq(STRING) /\ Init => UnparseInv
PROOF
<1> SUFFICES ASSUME input \in Seq(STRING), Init PROVE UnparseInv
  OBVIOUS
<1>1. PICK root, X : root = P!Node("N_UNKNOWN", P!NoToken, <<>>) /\ X = L!TokenTypes
  OBVIOUS
<1>2. root.type = "N_UNKNOWN" /\ root.children = <<>> /\ OpenerOf(root) = <<>>
  BY <1>1 DEF P!Node, OpenerOf
<1>3. open = <<root>> /\ p_pos = 0
  BY <1>1 DEF Init, P!Init
<1>4. Len(open) = 1 /\ open[1] = root
  BY <1>3
<1>5. PICK w : w = [n \in {} |-> 0]
  OBVIOUS
<1>6. w \in [{} -> Seq(X)] /\ w \in [{} -> Nat]
  BY <1>5
<1>7. Writes(X, {}, w, w, 0)
  BY <1>6 DEF Writes
<1>8. WellFormed({})
  BY DEF WellFormed
<1>9. OpenerOf(root) \in Seq(X)
  BY <1>2
<1>10. \A d \in 1..Len(open) : d = 1 /\ open[d] = root
  BY <1>4
<1>11. Spelled(X, open)
  BY <1>9, <1>10 DEF Spelled
<1>12. Forest(open, {})
  <2>1. /\ \E T : root.children \in Seq(T)
        /\ \A k \in 1..Len(root.children) : root.children[k] \in {}
    BY <1>2, Childless
  <2>2. root.type \notin {"N_ATOM", "N_IDENT"}
    BY <1>2
  <2>3. ASSUME NEW d \in 1..Len(open)
        PROVE  /\ open[d].type \notin {"N_ATOM", "N_IDENT"}
               /\ \E T : open[d].children \in Seq(T)
               /\ \A k \in 1..Len(open[d].children) : open[d].children[k] \in {}
               /\ ~(d > 1)
    BY <1>10, <2>1, <2>2
  <2> QED BY <2>3 DEF Forest
<1>13. FlattenSeq(Lines(open, w)) = Read
  <2>1. PICK lines : lines = Lines(open, w)
    OBVIOUS
  <2>2. lines \in [1..1 -> Seq(X)]
    BY <1>4, <1>6, <1>11, <1>12, <2>1, LinesTyped
  <2>3. lines[1] = <<>>
    <3>1. lines[1] = Opened(root, w)
      BY <1>4, <2>1 DEF Lines
    <3> QED BY <1>2, <1>9, <3>1, OpenedEmpty
  <2>4. PICK n \in Nat \ {0} : n = 1
    OBVIOUS
  <2>5. PICK f : Gathers(f, lines, n) /\ FlattenSeq(lines) = f[n]
    BY <2>2, <2>4, FlatIs
  <2>6. Read = <<>>
    BY <1>3 DEF Read
  <2>7. f[1] = lines[1]
    BY <2>4, <2>5 DEF Gathers
  <2> QED BY <2>1, <2>3, <2>4, <2>5, <2>6, <2>7
<1>14. Parsed(X, {}, w, w, open, 0, Read)
  BY <1>7, <1>8, <1>11, <1>12, <1>13 DEF Parsed
<1> QED BY <1>1, <1>3, <1>14 DEF UnparseInv

(* No node is at a depth that its height does not leave room for. *)
LEMMA Sinking ==
    ASSUME NEW S, NEW h \in [S -> Nat], NEW p \in Nat, Len(out) \in Nat, WellFormed(S),
           Outer \subseteq S, \A n \in S : h[n] <= p,
           \A n \in S : \A k \in 1..Len(n.children) : h[n.children[k]] < h[n]
    PROVE  \A d \in 0..Len(out) : \A n \in level[d] : h[n] <= p - d
PROOF
<1> DEFINE Deep(d) == \A n \in level[d] : h[n] <= p - d
           T == {d \in 0..Len(out) : ~Deep(d)}
<1> SUFFICES ASSUME T # {} PROVE FALSE
  OBVIOUS
<1>1. PICK d \in T : \A j \in T : ~(j < d)
  <2>1. T \in SUBSET Nat
    OBVIOUS
  <2> HIDE DEF T
  <2> QED BY <2>1, LeastOf
<1>2. Levels(level, Len(out)) /\ d \in 0..Len(out) /\ ~Deep(d)
  BY LevelIs
<1>3. \A j \in 0..Len(out) : level[j] \subseteq S
  BY LevelsWithin
<1>4. CASE d = 0
  <2>1. \A n \in level[d] : h[n] \in Nat /\ h[n] <= p
    BY <1>2, <1>3
  <2> QED BY <1>2, <1>4, <2>1
<1>5. CASE d # 0
  <2>1. d - 1 \in 0..Len(out) /\ d - 1 < d
    BY <1>2, <1>5
  <2>2. Deep(d - 1)
    <3> HIDE DEF Deep
    <3> QED BY <1>1, <2>1
  <2>3. level[d] = UNION {ChildrenOf(m) : m \in level[d - 1]}
    BY <1>2, <1>5 DEF Levels
  <2>4. ASSUME NEW n \in level[d] PROVE h[n] <= p - d
    <3>1. PICK m \in level[d - 1] : n \in ChildrenOf(m)
      BY <2>3
    <3>2. m \in S /\ n \in S
      BY <1>2, <1>3, <2>1
    <3>3. h[n] < h[m]
      BY <3>1, <3>2 DEF ChildrenOf
    <3>4. h[m] <= p - (d - 1)
      BY <2>2
    <3>5. h[n] \in Nat /\ h[m] \in Nat
      BY <3>2
    <3> QED BY <1>2, <3>3, <3>4, <3>5
  <2> QED BY <1>2, <2>4
<1> QED BY <1>4, <1>5

(* The lists that are open and the nodes below them have their children    *)
(* among the nodes built.                                                  *)
LEMMA BuiltWithin ==
    ASSUME NEW X, NEW S, NEW h, NEW w, NEW p \in Nat, NEW text, Len(out) \in Nat,
           p <= Len(out), Parsed(X, S, h, w, open, p, text)
    PROVE  /\ Built \subseteq S
           /\ \A n \in Built : Within(n, Built)
           /\ \A d \in 1..Len(open) : Within(open[d], Built)
PROOF
<1>1. /\ WellFormed(S) /\ Forest(open, S) /\ h \in [S -> Nat]
      /\ \A n \in S : h[n] <= p
      /\ \A n \in S : \A k \in 1..Len(n.children) : h[n.children[k]] < h[n]
  BY DEF Parsed, Writes
<1>2. Outer \subseteq S
  BY <1>1 DEF Forest, ChildrenOf, Outer
<1>3. \A d \in 0..Len(out) : level[d] \subseteq S
  BY <1>1, <1>2, LevelsWithin
<1>4. \A d \in 0..Len(out) : \A n \in level[d] : h[n] <= p - d
  BY <1>1, <1>2, Sinking
<1>5. Levels(level, Len(out))
  BY LevelIs
<1>6. ASSUME NEW n \in Built PROVE Within(n, Built)
  <2>1. PICK d \in 0..Len(out) : n \in level[d]
    BY DEF Built
  <2>2. n \in S /\ h[n] <= p - d /\ h[n] \in Nat
    BY <1>1, <1>3, <1>4, <2>1
  <2> SUFFICES ASSUME NEW k \in 1..Len(n.children) PROVE n.children[k] \in Built
    BY DEF Within
  <2>3. PICK c \in S : c = n.children[k]
    BY <1>1, <2>2 DEF WellFormed
  <2>4. h[c] \in Nat /\ h[c] < h[n]
    BY <1>1, <2>2, <2>3
  <2>5. d + 1 \in 0..Len(out) /\ d + 1 # 0 /\ (d + 1) - 1 = d
    BY <2>2, <2>4
  <2>6. level[d + 1] = UNION {ChildrenOf(m) : m \in level[(d + 1) - 1]}
    BY <1>5, <2>5 DEF Levels
  <2>7. c \in ChildrenOf(n)
    BY <2>3 DEF ChildrenOf
  <2>8. c \in level[d + 1]
    BY <2>1, <2>5, <2>6, <2>7
  <2> QED BY <2>3, <2>5, <2>8 DEF Built
<1>7. ASSUME NEW d \in 1..Len(open) PROVE Within(open[d], Built)
  <2>1. level[0] = Outer /\ 0 \in 0..Len(out)
    <3>1. PICK e : e = 0 /\ e \in 0..Len(out)
      OBVIOUS
    <3>2. level[e] = Outer
      BY <1>5, <3>1 DEF Levels
    <3> QED BY <3>1, <3>2
  <2>2. ChildrenOf(open[d]) \subseteq Built
    BY <2>1 DEF Outer, Built
  <2> QED BY <2>2 DEF Within, ChildrenOf
<1>8. Built \subseteq S
  BY <1>3 DEF Built
<1> QED BY <1>6, <1>7, <1>8

(* What the invariant knows of the nodes is what they are written as. *)
LEMMA WrittenIs ==
    ASSUME NEW X, NEW S, NEW h, NEW w, NEW p \in Nat, NEW text, Len(out) \in Nat,
           p <= Len(out), Parsed(X, S, h, w, open, p, text)
    PROVE  Same(written, w, Built)
PROOF
<1>1. /\ h \in [S -> Nat] /\ \A n \in S : w[n] = Body(n, w)
      /\ \A n \in S : \A k \in 1..Len(n.children) : h[n.children[k]] < h[n]
  BY DEF Parsed, Writes
<1>2. /\ Built \subseteq S
      /\ \A n \in Built : Within(n, Built)
  BY BuiltWithin
<1>3. PICK v : v = [n \in Built |-> w[n]]
  OBVIOUS
<1>4. ASSUME NEW n \in Built PROVE v[n] = Body(n, v)
  <2>1. Same(v, w, Built)
    BY <1>3 DEF Same
  <2>2. Body(n, v) = Body(n, w)
    BY <1>2, <2>1, BodySame
  <2> QED BY <1>1, <1>2, <1>3, <2>2
<1>5. v = [n \in Built |-> Body(n, v)]
  BY <1>3, <1>4
<1>6. written = [n \in Built |-> Body(n, written)]
  BY <1>5 DEF written, Body
<1>7. \A n \in Built : written[n] = Body(n, written)
  BY <1>6
<1> DEFINE T == {h[n] : n \in {m \in Built : written[m] # w[m]}}
<1> SUFFICES ASSUME T # {} PROVE FALSE
  BY DEF Same
<1>8. PICK x \in T : \A y \in T : ~(y < x)
  <2>1. T \in SUBSET Nat
    BY <1>1, <1>2
  <2> HIDE DEF T
  <2> QED BY <2>1, LeastOf
<1>9. PICK n \in Built : x = h[n] /\ written[n] # w[n]
  BY <1>8
<1>10. ASSUME NEW k \in 1..Len(n.children)
       PROVE  written[n.children[k]] = w[n.children[k]]
  <2>1. PICK c \in Built : c = n.children[k]
    BY <1>2 DEF Within
  <2>2. h[c] < h[n]
    BY <1>1, <1>2, <2>1
  <2>3. h[c] \notin T
    <3> HIDE DEF T
    <3> QED BY <1>8, <1>9, <2>2
  <2> QED BY <2>1, <2>3
<1>11. [k \in 1..Len(n.children) |-> written[n.children[k]]]
         = [k \in 1..Len(n.children) |-> w[n.children[k]]]
  BY <1>10
<1>12. Body(n, written) = Body(n, w)
  BY <1>11 DEF Body, Opened
<1> QED BY <1>1, <1>2, <1>7, <1>9, <1>12

(* No token is lost, doubled or moved between the lexer and the compiler   *)
(* (parser.c:33-241): at every moment the lists that are open, written     *)
(* back one after the other, are the tokens read so far, for every text.   *)
THEOREM ParserLosesNothing == ASSUME KeywordTypes PROVE Spec => []Unparses
PROOF
<1>1. IInv /\ BracketInv /\ FirstInList /\ UnparseInv /\ IInv' /\ [Next]_vars => UnparseInv'
  BY StepText
<1>2. IInv /\ BracketInv /\ TreesInv /\ FirstInList /\ [Next]_vars => TreesInv' /\ FirstInList'
  BY StepTrees
<1>3. IInv /\ BracketInv /\ AcceptsBalanced /\ [Next]_vars => BracketInv' /\ AcceptsBalanced'
  BY StepBalanced
<1>4. IInv /\ UnparseInv => Unparses
  <2> SUFFICES ASSUME IInv, UnparseInv, p_status \in {"parsing", "parsed"}
               PROVE  FlattenSeq([d \in 1..Len(open) |-> Opened(open[d], written)]) = Read
    BY DEF Unparses
  <2>1. PICK p \in Nat : p = p_pos /\ Len(out) \in Nat /\ p <= Len(out)
    BY DEF IInv, LexInv, ParseInv
  <2>2. PICK S, h, w : Parsed(L!TokenTypes, S, h, w, open, p, Read)
    BY <2>1 DEF UnparseInv
  <2>3. Same(written, w, Built)
    BY <2>1, <2>2, WrittenIs
  <2>4. \A d \in 1..Len(open) : Within(open[d], Built)
    BY <2>1, <2>2, BuiltWithin
  <2>5. \A d \in 1..Len(open) : Opened(open[d], written) = Opened(open[d], w)
    BY <2>3, <2>4, OpenedSame
  <2>6. [d \in 1..Len(open) |-> Opened(open[d], written)] = Lines(open, w)
    BY <2>5 DEF Lines
  <2>7. FlattenSeq(Lines(open, w)) = Read
    BY <2>2 DEF Parsed
  <2> QED BY <2>6, <2>7
<1> QED BY <1>1, <1>2, <1>3, <1>4, InitText, InitBalanced, InitTrees, FrontEndInvariance, PTL
        DEF Spec
-----------------------------------------------------------------------------
(* Numbers.  Induction up to n, for what can be said with a set.           *)
LEMMA UpTo ==
    ASSUME NEW n \in Nat, NEW T, 0 \in T, \A k \in 1..n : k - 1 \in T => k \in T
    PROVE  \A k \in 0..n : k \in T
PROOF
<1> DEFINE Outside == {k \in 0..n : k \notin T}
<1> SUFFICES ASSUME Outside # {} PROVE FALSE
  OBVIOUS
<1>1. PICK k \in Outside : \A j \in Outside : ~(j < k)
  <2>1. Outside \in SUBSET Nat
    OBVIOUS
  <2> HIDE DEF Outside
  <2> QED BY <2>1, LeastOf
<1>2. k \in 1..n /\ k - 1 \in 0..n /\ k - 1 < k
  <2>1. k \in 0..n /\ k # 0
    BY <1>1
  <2> QED BY <2>1
<1>3. k - 1 \in T
  BY <1>1, <1>2
<1> QED BY <1>1, <1>2, <1>3

(* A loop over a text: the value before it, and that after each turn. *)
LEMMA SomeLoop ==
    ASSUME NEW n \in Nat, NEW base \in Nat, NEW G \in [(1..n) \X Nat -> Nat]
    PROVE  \E f \in [0..n -> Nat] : f[0] = base /\ \A k \in 1..n : f[k] = G[<<k, f[k - 1]>>]
PROOF
<1> DEFINE Runs(f, m) == f[0] = base /\ \A k \in 1..m : f[k] = G[<<k, f[k - 1]>>]
           T == {m \in 0..n : \E f \in [0..m -> Nat] : Runs(f, m)}
<1>1. 0 \in T
  <2>1. PICK f : f = [k \in 0..0 |-> base]
    OBVIOUS
  <2>2. f \in [0..0 -> Nat] /\ Runs(f, 0)
    BY <2>1
  <2> QED BY <2>2
<1>2. ASSUME NEW m \in 1..n, m - 1 \in T PROVE m \in T
  <2>1. PICK f \in [0..m - 1 -> Nat] : Runs(f, m - 1)
    BY <1>2
  <2>2. PICK last \in Nat : last = G[<<m, f[m - 1]>>]
    <3>1. m - 1 \in 0..m - 1
      OBVIOUS
    <3>2. <<m, f[m - 1]>> \in (1..n) \X Nat
      BY <2>1, <3>1
    <3> QED BY <3>2
  <2>3. PICK g : g = [k \in 0..m |-> IF k = m THEN last ELSE f[k]]
    OBVIOUS
  <2>4. \A k \in 0..m : k # m => k \in 0..m - 1
    OBVIOUS
  <2>5. g \in [0..m -> Nat]
    BY <2>1, <2>3, <2>4
  <2>6. \A k \in 0..m - 1 : k \in 0..m /\ k # m /\ g[k] = f[k]
    BY <2>3
  <2>7. g[m] = last
    BY <2>3
  <2>8. ASSUME NEW k \in 1..m PROVE g[k] = G[<<k, g[k - 1]>>]
    <3>1. k - 1 \in 0..m - 1
      OBVIOUS
    <3>2. g[k - 1] = f[k - 1]
      BY <2>6, <3>1
    <3>3. CASE k = m
      BY <2>2, <2>7, <3>2, <3>3
    <3>4. CASE k # m
      <4>1. k \in 1..m - 1 /\ k \in 0..m - 1
        BY <3>4
      <4> QED BY <2>1, <2>6, <3>2, <4>1
    <3> QED BY <3>3, <3>4
  <2>9. g[0] = base
    <3>1. 0 \in 0..m - 1
      OBVIOUS
    <3> QED BY <2>1, <2>6, <3>1
  <2> QED BY <2>5, <2>8, <2>9
<1>3. n \in T
  <2> HIDE DEF T
  <2>1. \A k \in 0..n : k \in T
    BY <1>1, <1>2, UpTo
  <2> QED BY <2>1
<1> QED BY <1>3

(* Digits gathered from the left, and places summed up from the right,     *)
(* come to the same.                                                       *)
LEMMA Horner ==
    ASSUME NEW n \in Nat, NEW digit \in [1..n -> 0..9],
           NEW unit \in [0..n -> Nat], NEW sum \in [0..n -> Nat], NEW left \in [0..n -> Nat],
           unit[0] = 1, \A k \in 1..n : unit[k] = 10 * unit[k - 1],
           sum[0] = 0, \A k \in 1..n : sum[k] = sum[k - 1] + digit[n - k + 1] * unit[k - 1],
           left[0] = 0, \A k \in 1..n : left[k] = 10 * left[k - 1] + digit[k]
    PROVE  sum[n] = left[n]
PROOF
<1> DEFINE Whole(k) == left[k] * unit[n - k] + sum[n - k]
           T == {k \in 0..n : Whole(k) = sum[n]}
<1>1. 0 \in T
  <2>1. n - 0 = n /\ 0 \in 0..n /\ n \in 0..n
    OBVIOUS
  <2>2. unit[n] \in Nat /\ sum[n] \in Nat
    BY <2>1
  <2>3. 0 * unit[n] + sum[n] = sum[n]
    BY <2>2
  <2> QED BY <2>1, <2>3
<1>2. ASSUME NEW k \in 1..n, k - 1 \in T PROVE k \in T
  <2>1. PICK m \in 1..n : m = n - k + 1
    OBVIOUS
  <2>2. n - (k - 1) = m /\ n - k = m - 1 /\ n - m + 1 = k /\ k - 1 \in 0..n /\ m - 1 \in 0..n
    BY <2>1
  <2>3. PICK l \in Nat, u \in Nat, s \in Nat, d \in 0..9 :
            l = left[k - 1] /\ u = unit[m - 1] /\ s = sum[m - 1] /\ d = digit[k]
    BY <2>2
  <2>4. left[k] = 10 * l + d
    BY <2>3
  <2>5. unit[m] = 10 * u
    BY <2>3
  <2>6. sum[m] = s + d * u
    BY <2>2, <2>3
  <2>7. l * (10 * u) + (s + d * u) = (10 * l + d) * u + s
    OBVIOUS
  <2>8. left[k - 1] * unit[m] + sum[m] = sum[n]
    BY <1>2, <2>2
  <2>9. left[k] * unit[m - 1] + sum[m - 1] = (10 * l + d) * u + s
    BY <2>3, <2>4, Zenon
  <2>10. left[k - 1] * unit[m] + sum[m] = l * (10 * u) + (s + d * u)
    BY <2>3, <2>5, <2>6, Zenon
  <2>11. left[k] * unit[m - 1] + sum[m - 1] = sum[n]
    BY <2>7, <2>8, <2>9, <2>10, Zenon
  <2>12. n - k = m - 1
    BY <2>2
  <2>13. Whole(k) = sum[n]
    BY <2>11, <2>12, Zenon
  <2>14. k \in 0..n
    OBVIOUS
  <2> HIDE DEF Whole
  <2> QED BY <2>13, <2>14
<1>3. n \in T
  <2> HIDE DEF T
  <2>1. \A k \in 0..n : k \in T
    BY <1>1, <1>2, UpTo
  <2> QED BY <2>1
<1>4. n - n = 0 /\ n \in 0..n
  OBVIOUS
<1>5. left[n] * 1 + 0 = left[n]
  <2>1. left[n] \in Nat
    BY <1>4
  <2> QED BY <2>1
<1> QED BY <1>3, <1>4, <1>5

(* What the digits of a text, from the left, add up to. *)
Gathered(left, text, n) ==
    /\ left \in [0..n -> Nat] /\ left[0] = 0
    /\ \A k \in 1..n : left[k] = 10 * left[k - 1] + DigitValue(text[k])
AreDigits(text, n) == Len(text) = n /\ \A k \in 1..n : DigitValue(text[k]) \in 0..9

LEMMA DecimalIs ==
    ASSUME NEW n \in Nat, NEW text, AreDigits(text, n)
    PROVE  \E left : Gathered(left, text, n) /\ N!Decimal(text) = left[n]
PROOF
<1>1. PICK digit : digit = [k \in 1..n |-> DigitValue(text[k])]
  OBVIOUS
<1>2. digit \in [1..n -> 0..9] /\ \A k \in 1..n : digit[k] = DigitValue(text[k])
  BY <1>1 DEF AreDigits
<1>3. PICK left \in [0..n -> Nat] :
          left[0] = 0 /\ \A k \in 1..n : left[k] = 10 * left[k - 1] + digit[k]
  <2>1. PICK G : G = [p \in (1..n) \X Nat |-> 10 * p[2] + digit[p[1]]]
    OBVIOUS
  <2>2. G \in [(1..n) \X Nat -> Nat]
    <3>1. \A p \in (1..n) \X Nat : 10 * p[2] + digit[p[1]] \in Nat
      BY <1>2
    <3> QED BY <2>1, <3>1
  <2>3. \A k \in 1..n, x \in Nat : G[<<k, x>>] = 10 * x + digit[k]
    BY <2>1
  <2>4. 0 \in Nat
    OBVIOUS
  <2>5. PICK f \in [0..n -> Nat] : f[0] = 0 /\ \A k \in 1..n : f[k] = G[<<k, f[k - 1]>>]
    BY <2>2, <2>4, SomeLoop
  <2>6. \A k \in 1..n : f[k - 1] \in Nat
    BY <2>5
  <2>7. \A k \in 1..n : f[k] = 10 * f[k - 1] + digit[k]
    BY <2>3, <2>5, <2>6
  <2> QED BY <2>5, <2>7
<1> DEFINE Unit(f) == [k \in 0..n |-> IF k = 0 THEN 1 ELSE 10 * f[k - 1]]
           unit == CHOOSE f : f = Unit(f)
           Sum(f) == [k \in 0..n |->
                        IF k = 0 THEN 0
                        ELSE f[k - 1] + DigitValue(text[n - k + 1]) * unit[k - 1]]
           sum == CHOOSE f : f = Sum(f)
<1>4. N!Decimal(text) = sum[n]
  BY DEF N!Decimal, AreDigits
<1>5. unit = Unit(unit)
  <2>1. PICK G : G = [p \in (1..n) \X Nat |-> 10 * p[2]]
    OBVIOUS
  <2>2. G \in [(1..n) \X Nat -> Nat] /\ \A k \in 1..n, x \in Nat : G[<<k, x>>] = 10 * x
    BY <2>1
  <2>3. 1 \in Nat
    OBVIOUS
  <2>4. PICK f \in [0..n -> Nat] : f[0] = 1 /\ \A k \in 1..n : f[k] = G[<<k, f[k - 1]>>]
    BY <2>2, <2>3, SomeLoop
  <2>5. \A k \in 1..n : f[k - 1] \in Nat
    BY <2>4
  <2>6. \A k \in 0..n : f[k] = IF k = 0 THEN 1 ELSE 10 * f[k - 1]
    <3>1. \A k \in 0..n : k = 0 \/ k \in 1..n
      OBVIOUS
    <3>2. \A k \in 1..n : f[k] = 10 * f[k - 1]
      BY <2>2, <2>4, <2>5
    <3> QED BY <2>4, <3>1, <3>2
  <2>7. f = Unit(f)
    BY <2>4, <2>6
  <2> HIDE DEF Unit
  <2> QED BY <2>7
<1>6. unit \in [0..n -> Nat] /\ unit[0] = 1 /\ \A k \in 1..n : unit[k] = 10 * unit[k - 1]
  <2> HIDE DEF unit
  <2>1. unit[0] = 1 /\ \A k \in 1..n : unit[k] = 10 * unit[k - 1]
    BY <1>5
  <2>2. PICK T : T = {k \in 0..n : unit[k] \in Nat}
    OBVIOUS
  <2>3. 0 \in T /\ \A k \in 1..n : k - 1 \in T => k \in T
    BY <2>1, <2>2
  <2>4. \A k \in 0..n : k \in T
    BY <2>3, UpTo
  <2>5. \A k \in 0..n : unit[k] \in Nat
    BY <2>2, <2>4
  <2> QED BY <1>5, <2>1, <2>5
<1> HIDE DEF unit
<1>7. \A k \in 1..n : DigitValue(text[n - k + 1]) = digit[n - k + 1] /\ digit[n - k + 1] \in 0..9
  <2>1. \A k \in 1..n : n - k + 1 \in 1..n
    OBVIOUS
  <2> QED BY <1>2, <2>1
<1>8. \A k \in 1..n, x \in Nat : x + digit[n - k + 1] * unit[k - 1] \in Nat
  <2> TAKE k \in 1..n, x \in Nat
  <2>1. k - 1 \in 0..n
    OBVIOUS
  <2>2. unit[k - 1] \in Nat /\ digit[n - k + 1] \in 0..9
    BY <1>6, <1>7, <2>1
  <2>3. PICK d \in Nat, u \in Nat : d = digit[n - k + 1] /\ u = unit[k - 1]
    BY <2>2
  <2>4. x + d * u \in Nat
    OBVIOUS
  <2> QED BY <2>3, <2>4
<1>9. sum = Sum(sum)
  <2>1. PICK G : G = [p \in (1..n) \X Nat |-> p[2] + digit[n - p[1] + 1] * unit[p[1] - 1]]
    OBVIOUS
  <2>2. \A k \in 1..n, x \in Nat : G[<<k, x>>] = x + digit[n - k + 1] * unit[k - 1]
    BY <2>1
  <2>3. G \in [(1..n) \X Nat -> Nat]
    BY <1>8, <2>1
  <2>4. 0 \in Nat
    OBVIOUS
  <2>5. PICK f \in [0..n -> Nat] : f[0] = 0 /\ \A k \in 1..n : f[k] = G[<<k, f[k - 1]>>]
    BY <2>3, <2>4, SomeLoop
  <2>6. \A k \in 1..n : f[k - 1] \in Nat
    BY <2>5
  <2>7. \A k \in 1..n : f[k] = f[k - 1] + DigitValue(text[n - k + 1]) * unit[k - 1]
    BY <1>7, <2>2, <2>5, <2>6
  <2>8. f = Sum(f)
    BY <2>5, <2>7
  <2> HIDE DEF Sum
  <2> QED BY <2>8
<1>10. /\ sum \in [0..n -> Nat] /\ sum[0] = 0
       /\ \A k \in 1..n : sum[k] = sum[k - 1] + digit[n - k + 1] * unit[k - 1]
  <2> HIDE DEF sum
  <2>1. sum[0] = 0 /\ \A k \in 1..n : sum[k] = sum[k - 1] + digit[n - k + 1] * unit[k - 1]
    BY <1>7, <1>9
  <2>2. PICK T : T = {k \in 0..n : sum[k] \in Nat}
    OBVIOUS
  <2>3. 0 \in T
    BY <2>1, <2>2
  <2>6. ASSUME NEW k \in 1..n, k - 1 \in T PROVE k \in T
    <3>1. PICK x \in Nat : x = sum[k - 1]
      BY <2>2, <2>6
    <3>2. sum[k] \in Nat
      BY <1>8, <2>1, <3>1
    <3> QED BY <2>2, <3>2
  <2>4. \A k \in 0..n : k \in T
    BY <2>3, <2>6, UpTo
  <2>5. \A k \in 0..n : sum[k] \in Nat
    BY <2>2, <2>4
  <2> QED BY <1>9, <2>1, <2>5
<1> HIDE DEF sum
<1>11. sum[n] = left[n]
  BY <1>2, <1>3, <1>6, <1>10, Horner
<1>12. Gathered(left, text, n)
  BY <1>2, <1>3 DEF Gathered
<1> QED BY <1>4, <1>11, <1>12

(* The value so far if it is at most m, and Refused from then on. *)
Clip(x, m) == IF x <= m THEN x ELSE N!Refused

LEMMA IntStepClips ==
    ASSUME NEW x \in Nat, NEW d \in 0..9
    PROVE  N!IntStep(Clip(x, INT64_MAX - 10), d) = Clip(10 * x + d, INT64_MAX - 10)
PROOF
<1>1. PICK m \in Nat : m = INT64_MAX /\ m > 9
  BY WidthAssumption
<1>2. x < (m - d) \div 10 <=> 10 * x + d <= m - 10
  BY <1>1
<1>3. x <= m - 10 => x # -1 /\ x * 10 + d = 10 * x + d
  OBVIOUS
<1>4. 10 * x + d <= m - 10 => x <= m - 10
  OBVIOUS
<1> QED BY <1>1, <1>2, <1>3, <1>4 DEF N!IntStep, N!Refused, Clip

LEMMA FitsClips ==
    ASSUME NEW x \in Nat, NEW d \in 0..9
    PROVE  (IF N!Fits(Clip(x, UINT64_MAX), d) THEN Clip(x, UINT64_MAX) * 10 + d ELSE N!Refused)
                = Clip(10 * x + d, UINT64_MAX)
PROOF
<1>1. PICK m \in Nat : m = UINT64_MAX
  BY WidthAssumption
<1>2. m >= d => (x <= (m - d) \div 10 <=> 10 * x + d <= m)
  OBVIOUS
<1>3. x <= m => x # -1 /\ x * 10 + d = 10 * x + d
  OBVIOUS
<1>4. 10 * x + d <= m => x <= m
  OBVIOUS
<1>5. m < d => ~(x <= (m - d) \div 10) /\ ~(10 * x + d <= m)
  OBVIOUS
<1> QED BY <1>1, <1>2, <1>3, <1>4, <1>5 DEF N!Fits, N!Refused, Clip

(* Str_to_int64_t on a text of digits. *)
LEMMA IntegersExact ==
    ASSUME NEW n \in Nat \ {0}, NEW text, AreDigits(text, n)
    PROVE  N!IntegerExact(text)
PROOF
<1>1. PICK left : Gathered(left, text, n) /\ N!Decimal(text) = left[n]
  BY DecimalIs
<1> DEFINE Loop(f) == [k \in 0..n |->
                         IF k = 0 THEN 0 ELSE N!IntStep(f[k - 1], DigitValue(text[k]))]
           loop == CHOOSE f : f = Loop(f)
           At(k) == Clip(left[k], INT64_MAX - 10)
<1>2. N!Str_to_int64_t(text) = loop[n]
  <2>1. Len(text) = n /\ text # <<>>
    BY DEF AreDigits
  <2> QED BY <2>1 DEF N!Str_to_int64_t
<1>3. At(0) = 0 /\ \A k \in 1..n : At(k) = N!IntStep(At(k - 1), DigitValue(text[k]))
  <2>1. At(0) = 0
    BY <1>1, WidthAssumption DEF Gathered, Clip
  <2>2. ASSUME NEW k \in 1..n PROVE At(k) = N!IntStep(At(k - 1), DigitValue(text[k]))
    <3>1. k - 1 \in 0..n
      OBVIOUS
    <3>2. PICK x \in Nat, d \in 0..9 : x = left[k - 1] /\ d = DigitValue(text[k])
      BY <1>1, <3>1 DEF Gathered, AreDigits
    <3>3. left[k] = 10 * x + d
      BY <1>1, <3>2 DEF Gathered
    <3> QED BY <3>2, <3>3, IntStepClips
  <2> QED BY <2>1, <2>2
<1> HIDE DEF At
<1>4. loop = Loop(loop)
  <2>1. PICK f : f = [k \in 0..n |-> At(k)]
    OBVIOUS
  <2>2. \A k \in 0..n : f[k] = IF k = 0 THEN 0 ELSE N!IntStep(f[k - 1], DigitValue(text[k]))
    <3>1. \A k \in 0..n : k = 0 \/ (k \in 1..n /\ k - 1 \in 0..n)
      OBVIOUS
    <3> QED BY <1>3, <2>1, <3>1
  <2>3. f = Loop(f)
    BY <2>1, <2>2
  <2> HIDE DEF Loop
  <2> QED BY <2>3
<1> HIDE DEF loop
<1>5. loop[0] = 0 /\ \A k \in 1..n : loop[k] = N!IntStep(loop[k - 1], DigitValue(text[k]))
  BY <1>4
<1>6. loop[n] = At(n)
  <2>1. PICK T : T = {k \in 0..n : loop[k] = At(k)}
    OBVIOUS
  <2>2. 0 \in T
    BY <1>3, <1>5, <2>1
  <2>3. ASSUME NEW k \in 1..n, k - 1 \in T PROVE k \in T
    BY <1>3, <1>5, <2>1, <2>3
  <2>4. \A k \in 0..n : k \in T
    BY <2>2, <2>3, UpTo
  <2> QED BY <2>1, <2>4
<1> QED BY <1>1, <1>2, <1>6 DEF At, Clip, N!IntegerExact

(* A text with a dot in it. *)
OneDot(text, n, dot) ==
    /\ Len(text) = n /\ text[dot] = "."
    /\ \A k \in 1..n : k # dot => text[k] # "." /\ DigitValue(text[k]) \in 0..9

LEMMA DotTakenOut ==
    ASSUME NEW X, NEW text \in Seq(X), NEW n \in Nat, Len(text) = n, NEW dot \in 1..n,
           NEW rest, rest = SubSeq(text, 1, dot - 1) \o SubSeq(text, dot + 1, n)
    PROVE  /\ Len(rest) = n - 1
           /\ \A k \in 1..n - 1 : rest[k] = IF k < dot THEN text[k] ELSE text[k + 1]
PROOF
<1>1. PICK before, behind :
          before = SubSeq(text, 1, dot - 1) /\ behind = SubSeq(text, dot + 1, n)
  OBVIOUS
<1>2. /\ before \in Seq(X) /\ Len(before) = dot - 1
      /\ \A k \in 1..dot - 1 : before[k] = text[k]
  BY <1>1
<1>3. /\ behind \in Seq(X) /\ Len(behind) = n - dot
      /\ \A k \in 1..n - dot : behind[k] = text[dot + k]
  BY <1>1
<1>4. rest = before \o behind
  BY <1>1
<1>5. Len(rest) = n - 1
  BY <1>2, <1>3, <1>4
<1>6. \A k \in 1..n - 1 : rest[k] = IF k <= dot - 1 THEN before[k] ELSE behind[k - (dot - 1)]
  <2>1. PICK p \in Nat, q \in Nat : p = Len(before) /\ q = Len(behind)
    BY <1>2, <1>3
  <2>2. p = dot - 1 /\ p + q = n - 1
    BY <1>2, <1>3, <2>1
  <2>3. before \in Seq(X) /\ behind \in Seq(X)
    BY <1>2, <1>3
  <2>4. \A k \in 1..Len(before) + Len(behind) :
            (before \o behind)[k] =
                IF k <= Len(before) THEN before[k] ELSE behind[k - Len(before)]
    BY <2>3, ConcatProperties
  <2>5. \A k \in 1..p + q : rest[k] = IF k <= p THEN before[k] ELSE behind[k - p]
    BY <1>4, <2>1, <2>4, Zenon
  <2> QED BY <2>2, <2>5
<1>7. ASSUME NEW k \in 1..n - 1 PROVE rest[k] = IF k < dot THEN text[k] ELSE text[k + 1]
  <2>1. CASE k < dot
    <3>1. k \in 1..dot - 1 /\ k <= dot - 1
      BY <2>1
    <3> QED BY <1>2, <1>6, <2>1, <3>1
  <2>2. CASE ~(k < dot)
    <3>1. k - (dot - 1) \in 1..n - dot /\ ~(k <= dot - 1) /\ dot + (k - (dot - 1)) = k + 1
      BY <2>2
    <3> QED BY <1>3, <1>6, <2>2, <3>1
  <2> QED BY <2>1, <2>2
<1> QED BY <1>5, <1>7

(* A turn at a digit, and one at the dot. *)
State(m, e, s, h) == [mantissa |-> m, exponent |-> e, seen_dot |-> s, has_digits |-> h]

DigitTaken(m, e, s, c, gathered, behind, any) ==
    /\ s \in BOOLEAN /\ c # "." /\ any = TRUE
    /\ gathered = IF N!Fits(m, DigitValue(c)) THEN m * 10 + DigitValue(c) ELSE N!Refused
    /\ behind = IF s = TRUE THEN e - 1 ELSE e

LEMMA DigitTurn ==
    ASSUME NEW m, NEW e, NEW s, NEW h, NEW c, NEW gathered, NEW behind, NEW any,
           DigitTaken(m, e, s, c, gathered, behind, any)
    PROVE  N!DoubleStep(State(m, e, s, h), c) = State(gathered, behind, s, any)
  BY DEF N!DoubleStep, State, DigitTaken

LEMMA DotTurn ==
    ASSUME NEW m, NEW e, NEW s, NEW h
    PROVE  N!DoubleStep(State(m, e, s, h), ".") = State(m, e, TRUE, h)
  BY DEF N!DoubleStep, State

(* Str_to_double on a text of digits with one dot. *)
LEMMA DoublesExact ==
    ASSUME NEW X, NEW text \in Seq(X), NEW n \in Nat, NEW dot \in 1..n, OneDot(text, n, dot)
    PROVE  N!DoubleExact(text)
PROOF
<1>1. PICK rest : rest = SubSeq(text, 1, dot - 1) \o SubSeq(text, dot + 1, n)
  OBVIOUS
<1>2. /\ Len(rest) = n - 1
      /\ \A k \in 1..n - 1 : rest[k] = IF k < dot THEN text[k] ELSE text[k + 1]
  <2>1. Len(text) = n
    BY DEF OneDot
  <2> QED BY <1>1, <2>1, DotTakenOut
<1>3. n - 1 \in Nat /\ AreDigits(rest, n - 1)
  <2>1. ASSUME NEW k \in 1..n - 1 PROVE DigitValue(rest[k]) \in 0..9
    <3>1. k \in 1..n /\ k + 1 \in 1..n
      OBVIOUS
    <3>2. k < dot => k # dot
      OBVIOUS
    <3>3. ~(k < dot) => k + 1 # dot
      OBVIOUS
    <3> QED BY <1>2, <3>1, <3>2, <3>3 DEF OneDot
  <2> QED BY <1>2, <2>1 DEF AreDigits
<1>4. PICK left : Gathered(left, rest, n - 1) /\ N!Decimal(rest) = left[n - 1]
  BY <1>3, DecimalIs
<1> DEFINE Taken(k) == IF k < dot THEN k ELSE k - 1
           After(k) == IF k < dot THEN 0 ELSE dot - k
           Seen(k) == IF k < dot THEN FALSE ELSE TRUE
           Some(k) == IF Taken(k) = 0 THEN FALSE ELSE TRUE
           At(k) == State(Clip(left[Taken(k)], UINT64_MAX), After(k), Seen(k), Some(k))
           Loop(f) == [k \in 0..n |-> IF k = 0 THEN N!Zero ELSE N!DoubleStep(f[k - 1], text[k])]
           loop == CHOOSE f : f = Loop(f)
<1>5. At(0) = N!Zero
  <2>1. Taken(0) = 0 /\ After(0) = 0 /\ Seen(0) = FALSE /\ Some(0) = FALSE
    OBVIOUS
  <2>2. Clip(left[0], UINT64_MAX) = 0
    BY <1>4, WidthAssumption DEF Gathered, Clip
  <2> HIDE DEF Taken, After, Seen, Some
  <2> QED BY <2>1, <2>2 DEF N!Zero, State
<1>6. ASSUME NEW k \in 1..n PROVE At(k) = N!DoubleStep(At(k - 1), text[k])
  <2>1. CASE k = dot
    <3>1. /\ Taken(k) = Taken(k - 1)
          /\ After(k) = 0 /\ After(k - 1) = 0 /\ Seen(k) = TRUE
      BY <2>1
    <3>2. Some(k) = Some(k - 1)
      BY <3>1
    <3>3. text[k] = "."
      BY <2>1 DEF OneDot
    <3> HIDE DEF Taken, After, Seen, Some
    <3>4. PICK m, e, s, h : /\ m = Clip(left[Taken(k - 1)], UINT64_MAX) /\ e = After(k - 1)
                            /\ s = Seen(k - 1) /\ h = Some(k - 1)
      OBVIOUS
    <3>5. At(k - 1) = State(m, e, s, h)
      BY <3>4
    <3>6. At(k) = State(m, e, TRUE, h)
      BY <3>1, <3>2, <3>4
    <3>7. N!DoubleStep(State(m, e, s, h), ".") = State(m, e, TRUE, h)
      BY DotTurn
    <3> HIDE DEF At
    <3> QED BY <3>3, <3>5, <3>6, <3>7, Zenon
  <2>2. CASE k # dot
    <3>1. PICK j \in 1..n - 1 : j = Taken(k)
      BY <2>2
    <3>2. Taken(k - 1) = j - 1 /\ j > 0 /\ j - 1 \in 0..n - 1 /\ Some(k) = TRUE
      BY <2>2, <3>1
    <3>3. text[k] # "." /\ text[k] = rest[j] /\ DigitValue(text[k]) \in 0..9
      <4>1. text[k] # "." /\ DigitValue(text[k]) \in 0..9
        BY <2>2 DEF OneDot
      <4>2. k < dot => j < dot /\ j = k
        BY <3>1
      <4>3. ~(k < dot) => ~(j < dot) /\ j + 1 = k
        BY <2>2, <3>1
      <4> QED BY <1>2, <4>1, <4>2, <4>3
    <3>4. PICK x \in Nat, d \in 0..9 : x = left[j - 1] /\ d = DigitValue(text[k])
      BY <1>4, <3>2, <3>3 DEF Gathered
    <3>5. left[j] = 10 * x + d
      BY <1>4, <3>3, <3>4 DEF Gathered
    <3>6. Seen(k) = Seen(k - 1)
      BY <2>2
    <3>7. After(k) = IF Seen(k - 1) = TRUE THEN After(k - 1) - 1 ELSE After(k - 1)
      BY <2>2
    <3> HIDE DEF Taken, After, Seen, Some
    <3>8. PICK m : m = Clip(x, UINT64_MAX)
      OBVIOUS
    <3>9. PICK gathered, behind, any :
               gathered = Clip(left[j], UINT64_MAX) /\ behind = After(k) /\ any = Some(k)
      OBVIOUS
    <3>10. PICK e, s, h, c :
               e = After(k - 1) /\ s = Seen(k - 1) /\ h = Some(k - 1) /\ c = text[k]
      OBVIOUS
    <3>11. At(k - 1) = State(m, e, s, h)
      BY <3>2, <3>4, <3>8, <3>10
    <3>13. N!DoubleStep(State(m, e, s, h), c) = State(gathered, behind, s, any)
      <4>1. c # "."
        BY <3>3, <3>10
      <4>2. gathered = IF N!Fits(m, DigitValue(c)) THEN m * 10 + DigitValue(c) ELSE N!Refused
        BY <3>4, <3>5, <3>8, <3>9, <3>10, FitsClips
      <4>3. behind = IF s = TRUE THEN e - 1 ELSE e
        BY <3>7, <3>9, <3>10
      <4>4. s \in BOOLEAN
        BY <3>10 DEF Seen
      <4>6. any = TRUE
        BY <3>2, <3>9
      <4>5. DigitTaken(m, e, s, c, gathered, behind, any)
        BY <4>1, <4>2, <4>3, <4>4, <4>6 DEF DigitTaken
      <4> QED BY <4>5, DigitTurn
    <3>12. At(k) = State(Clip(left[j], UINT64_MAX), After(k), Seen(k), Some(k))
      BY <3>1, <3>2
    <3> HIDE DEF At
    <3> QED BY <3>6, <3>9, <3>10, <3>11, <3>12, <3>13, Zenon
  <2> QED BY <2>1, <2>2
<1> HIDE DEF At
<1>7. loop = Loop(loop)
  <2>1. PICK f : f = [k \in 0..n |-> At(k)]
    OBVIOUS
  <2>2. \A k \in 0..n :
            f[k] = IF k = 0 THEN N!Zero ELSE N!DoubleStep(f[k - 1], text[k])
    <3>1. \A k \in 0..n : k = 0 \/ (k \in 1..n /\ k - 1 \in 0..n)
      OBVIOUS
    <3> QED BY <1>5, <1>6, <2>1, <3>1
  <2>3. f = Loop(f)
    BY <2>1, <2>2
  <2> HIDE DEF Loop
  <2> QED BY <2>3
<1>8. Len(text) = n
  BY DEF OneDot
<1>9. N!Str_to_double(text) =
          IF loop[n].has_digits /\ loop[n].mantissa # N!Refused
          THEN N!Scaled(loop[n].mantissa, loop[n].exponent) ELSE N!RefusedDouble
  BY <1>8 DEF N!Str_to_double
<1> HIDE DEF loop
<1>10. loop[0] = N!Zero /\ \A k \in 1..n : loop[k] = N!DoubleStep(loop[k - 1], text[k])
  BY <1>7
<1>11. loop[n] = At(n)
  <2>1. PICK T : T = {k \in 0..n : loop[k] = At(k)}
    OBVIOUS
  <2>2. 0 \in T
    BY <1>5, <1>10, <2>1
  <2>3. ASSUME NEW k \in 1..n, k - 1 \in T PROVE k \in T
    BY <1>6, <1>10, <2>1, <2>3
  <2>4. \A k \in 0..n : k \in T
    BY <2>2, <2>3, UpTo
  <2> QED BY <2>1, <2>4
<1>12. /\ loop[n].mantissa = Clip(left[n - 1], UINT64_MAX) /\ loop[n].exponent = dot - n
       /\ (loop[n].has_digits <=> n - 1 # 0)
  <2>1. Taken(n) = n - 1 /\ After(n) = dot - n /\ (Some(n) <=> n - 1 # 0)
    OBVIOUS
  <2> HIDE DEF Taken, After, Seen, Some
  <2>2. loop[n] = State(Clip(left[n - 1], UINT64_MAX), dot - n, Seen(n), Some(n))
    BY <1>11, <2>1 DEF At
  <2>3. loop[n].has_digits = Some(n)
    BY <2>2 DEF State
  <2> QED BY <2>1, <2>2, <2>3 DEF State
<1>13. dot = CHOOSE k \in 1..Len(text) : text[k] = "."
  BY <1>8 DEF OneDot
<1>14. N!DoubleExact(text) <=>
          (N!Str_to_double(text) =
              IF rest = <<>> \/ N!Decimal(rest) > UINT64_MAX THEN N!RefusedDouble
              ELSE N!Scaled(N!Decimal(rest), dot - n))
  BY <1>1, <1>8, <1>13 DEF N!DoubleExact
<1>15. rest = <<>> <=> n - 1 = 0
  <2>1. rest \in Seq(X)
    BY <1>1, <1>8
  <2> QED BY <1>2, <2>1
<1>16. PICK x \in Nat, u \in Nat : x = N!Decimal(rest) /\ x = left[n - 1] /\ u = UINT64_MAX
  BY <1>3, <1>4, WidthAssumption DEF Gathered
<1>17. Clip(x, u) = IF x > u THEN N!Refused ELSE x
  BY DEF Clip
<1>18. x # N!Refused
  BY DEF N!Refused
<1> QED BY <1>9, <1>12, <1>14, <1>15, <1>16, <1>17, <1>18 DEF N!RefusedDouble

(* The text of t is one Str_to_int64_t or Str_to_double is made for. *)
Numeral(t) ==
    /\ t.type = "T_INTEGER" =>
          t.start < t.end /\ \A k \in t.start..t.end - 1 : L!Char(k) \in Digits
    /\ t.type = "T_DOUBLE" =>
          \E dot \in t.start..t.end - 1 :
              /\ L!Char(dot) = "."
              /\ \A k \in t.start..t.end - 1 : k # dot => L!Char(k) \in Digits \ {"."}
NumeralInv == \A k \in 1..Len(out) : Numeral(out[k])
NoNumber(t) == t.type \notin {"T_INTEGER", "T_DOUBLE"}

LEMMA NumeralExact ==
    ASSUME LexInv, NEW t \in Tokens, Numeral(t)
    PROVE  /\ t.type = "T_INTEGER" => N!IntegerExact(Text(t))
           /\ t.type = "T_DOUBLE" => N!DoubleExact(Text(t))
PROOF
<1>1. PICK start \in 0..Len(input), end \in 0..Len(input) :
          start = t.start /\ end = t.end /\ start <= end
  BY DEF Tokens
<1>2. PICK text, n : text = Text(t) /\ n = end - start
  OBVIOUS
<1>3. Len(input) \in Nat /\ start \in Nat /\ end \in Nat /\ n \in Nat
  BY <1>1, <1>2 DEF LexInv
<1>4. text = SubSeq(input, start + 1, end)
  BY <1>1, <1>2 DEF Text
<1>5. /\ text \in Seq(STRING) /\ Len(text) = n
      /\ \A k \in 1..n : text[k] = input[start + k]
  BY <1>1, <1>2, <1>3, <1>4 DEF LexInv
<1>6. ASSUME NEW k \in 1..n
      PROVE  start + k - 1 \in start..end - 1 /\ text[k] = L!Char(start + k - 1)
  <2>1. start + k - 1 \in start..end - 1 /\ start + k - 1 < Len(input) /\ start + k - 1 + 1 = start + k
    BY <1>1, <1>2, <1>3
  <2> QED BY <1>5, <2>1 DEF L!Char
<1>7. CASE t.type = "T_INTEGER"
  <2>1. start < end /\ \A k \in start..end - 1 : L!Char(k) \in Digits
    BY <1>1, <1>7 DEF Numeral
  <2>2. n \in Nat \ {0}
    BY <1>2, <1>3, <2>1
  <2>3. AreDigits(text, n)
    BY <1>5, <1>6, <2>1, DigitAssumption DEF AreDigits
  <2> QED BY <1>2, <1>7, <2>2, <2>3, IntegersExact
<1>8. CASE t.type = "T_DOUBLE"
  <2>1. PICK dot \in start..end - 1 :
            /\ L!Char(dot) = "."
            /\ \A k \in start..end - 1 : k # dot => L!Char(k) \in Digits \ {"."}
    BY <1>1, <1>8 DEF Numeral
  <2>2. PICK place \in 1..n : place = dot - start + 1 /\ start + place - 1 = dot
    BY <1>2, <1>3
  <2>3. \A k \in 1..n : k # place => start + k - 1 # dot
    BY <1>3, <2>2
  <2>4. text[place] = "."
    BY <1>6, <2>1, <2>2
  <2>5. ASSUME NEW k \in 1..n, k # place
        PROVE  text[k] # "." /\ DigitValue(text[k]) \in 0..9
    BY <1>6, <2>1, <2>3, <2>5, DigitAssumption
  <2>6. OneDot(text, n, place)
    BY <1>5, <2>4, <2>5 DEF OneDot
  <2> QED BY <1>2, <1>3, <1>5, <1>8, <2>6, DoublesExact
<1> QED BY <1>7, <1>8

(* A token that is no number, or a numeral, is written. *)
LEMMA NumeralsWritten ==
    ASSUME LexInv, NumeralInv, UNCHANGED input, NEW T, NEW ts \in Seq(T), L!Emit(ts),
           \A k \in 1..Len(ts) : Numeral(ts[k])
    PROVE  NumeralInv'
PROOF
<1>1. \A t : (Numeral(t))' <=> Numeral(t)
  BY DEF Numeral, L!Char
<1>2. CASE out' = out
  BY <1>1, <1>2 DEF NumeralInv
<1>3. CASE out' = out \o ts
  <2>1. PICK X, all : X = Tokens \cup T /\ all = out'
    OBVIOUS
  <2>2. out \in Seq(X) /\ ts \in Seq(X) /\ Len(out) \in Nat /\ Len(ts) \in Nat
    BY <2>1 DEF LexInv
  <2>3. /\ Len(all) = Len(out) + Len(ts)
        /\ \A k \in 1..Len(out) + Len(ts) :
              all[k] = IF k <= Len(out) THEN out[k] ELSE ts[k - Len(out)]
    BY <1>3, <2>1, <2>2
  <2>4. ASSUME NEW k \in 1..Len(all) PROVE Numeral(all[k])
    <3>1. CASE k <= Len(out)
      <4>1. k \in 1..Len(out) /\ all[k] = out[k]
        BY <2>2, <2>3, <3>1
      <4> QED BY <4>1 DEF NumeralInv
    <3>2. CASE ~(k <= Len(out))
      <4>1. k - Len(out) \in 1..Len(ts) /\ all[k] = ts[k - Len(out)]
        BY <2>2, <2>3, <3>2
      <4> QED BY <4>1
    <3> QED BY <3>1, <3>2
  <2> QED BY <1>1, <2>1, <2>4 DEF NumeralInv
<1> QED BY <1>2, <1>3 DEF L!Emit

LEMMA NumeralWritten ==
    ASSUME LexInv, NumeralInv, UNCHANGED input, NEW token, L!Emit(<<token>>), Numeral(token)
    PROVE  NumeralInv'
PROOF
<1>1. PICK ts, T : ts = <<token>> /\ T = {token}
  OBVIOUS
<1>2. ts \in Seq(T) /\ Len(ts) = 1 /\ ts[1] = token
  BY <1>1
<1>3. \A k \in 1..Len(ts) : Numeral(ts[k])
  BY <1>2
<1>4. L!Emit(ts)
  BY <1>1
<1> QED BY <1>2, <1>3, <1>4, NumeralsWritten

LEMMA NoNumberIsNumeral == ASSUME NEW t, NoNumber(t) PROVE Numeral(t)
  BY DEF NoNumber, Numeral

(* Nothing is written. *)
LEMMA NumeralsStay == ASSUME NumeralInv, UNCHANGED <<input, out>> PROVE NumeralInv'
  BY DEF NumeralInv, Numeral, L!Char

(* At most one element means that two are the same. *)
LEMMA AtMostOne ==
    ASSUME NEW S, IsFiniteSet(S), ~(Cardinality(S) > 1), NEW x \in S, NEW y \in S
    PROVE  x = y
PROOF
<1> SUFFICES ASSUME x # y PROVE FALSE
  OBVIOUS
<1>1. IsFiniteSet(S \ {x}) /\ Cardinality(S \ {x}) = Cardinality(S) - 1
  BY FS_RemoveElement
<1>2. Cardinality(S \ {x}) \in Nat /\ Cardinality(S) \in Nat
  BY <1>1, FS_CardinalityType
<1>3. Cardinality(S \ {x}) = 0
  BY <1>1, <1>2
<1>4. S \ {x} = {}
  BY <1>1, <1>3, FS_EmptySet
<1> QED BY <1>4

LEMMA LexerCounts == ASSUME NEW S PROVE L!Cardinality(S) = Cardinality(S)
  BY DEF L!Cardinality, Cardinality

(* The label of numbers writes numerals. *)
LEMMA NumberKeepsNumerals ==
    ASSUME LexInv, NumeralInv, L!Number
    PROVE  NumeralInv'
PROOF
<1> DEFINE end == L!RunEnd(pos, L!NumberChars)
           dots == {p \in pos..end - 1 : L!Char(p) = "."}
           type == IF dots = {} THEN "T_INTEGER" ELSE "T_DOUBLE"
           token == L!Token(type, pos, end)
<1>1. Len(input) \in Nat /\ pos \in 0..Len(input) /\ "NUL" \notin L!NumberChars
  BY ClassAssumption DEF LexInv, L!NumberChars
<1>2. PICK e \in pos..Len(input) :
          /\ e = end /\ L!Char(e) \notin L!NumberChars
          /\ \A k \in pos..e - 1 : L!Char(k) \in L!NumberChars
  BY <1>1, RunEndRuns
<1>5. L!Cardinality(dots) = Cardinality(dots)
  BY LexerCounts
<1>3. CASE Cardinality(dots) > 1
  <2>1. UNCHANGED <<input, out>>
    BY <1>3, <1>5, Zenon DEF L!Number, L!inputVars
  <2> QED BY <2>1, NumeralsStay
<1>4. CASE ~(Cardinality(dots) > 1)
  <2>1. L!Emit(<<token>>) /\ UNCHANGED input
    <3>1. L!Emit(<<token>>) /\ L!MoveTo(end)
      BY <1>4, <1>5, Zenon DEF L!Number
    <3> QED BY <3>1 DEF L!MoveTo, L!inputVars
  <2>2. pos \in Nat /\ e \in Nat /\ pos < e
    <3>1. L!Char(pos) \in L!NumberChars
      BY DEF L!Number, L!Lexing, L!Cur
    <3>2. pos # e
      BY <1>2, <3>1
    <3> QED BY <1>1, <1>2, <3>2
  <2>3. token.type = type /\ token.start = pos /\ token.end = e
    BY <1>2 DEF L!Token
  <2>4. \A k \in pos..e - 1 : k \in dots \/ L!Char(k) \in Digits \ {"."}
    BY <1>2 DEF L!NumberChars
  <2>5. CASE dots = {}
    <3>1. \A k \in pos..e - 1 : L!Char(k) \in Digits
      BY <2>4, <2>5
    <3>2. type = "T_INTEGER"
      BY <2>5
    <3> HIDE DEF type, token
    <3>3. Numeral(token)
      BY <2>2, <2>3, <3>1, <3>2 DEF Numeral
    <3> QED BY <2>1, <3>3, NumeralWritten
  <2>6. CASE dots # {}
    <3>1. PICK dot \in dots : TRUE
      BY <2>6
    <3>2. dot \in pos..e - 1 /\ L!Char(dot) = "."
      BY <1>2, <3>1
    <3>3. IsFiniteSet(dots)
      <4>1. IsFiniteSet(pos..e - 1)
        BY <2>2, FS_Interval
      <4>2. dots \subseteq pos..e - 1
        BY <1>2
      <4> QED BY <4>1, <4>2, FS_Subset
    <3>4. \A k \in dots : k = dot
      <4> HIDE DEF dots
      <4> QED BY <1>4, <3>1, <3>3, AtMostOne
    <3>5. type = "T_DOUBLE"
      BY <2>6
    <3> HIDE DEF type, token, dots
    <3>6. \A k \in pos..e - 1 : k # dot => L!Char(k) \in Digits \ {"."}
      BY <2>4, <3>4
    <3>7. Numeral(token)
      BY <2>3, <3>2, <3>5, <3>6 DEF Numeral
    <3> QED BY <2>1, <3>7, NumeralWritten
  <2> QED BY <2>5, <2>6
<1> QED BY <1>3, <1>4

(* No other label writes a number. *)
LEMMA LexKeepsNumerals ==
    ASSUME LexInv, KeywordTypes, NumeralInv, L!Next
    PROVE  NumeralInv'
PROOF
<1>1. Len(input) \in Nat /\ pos \in 0..Len(input)
  BY DEF LexInv
<1>2. \A type, start, end :
          /\ L!Interned(type).type = type /\ L!Token(type, start, end).type = type
  BY DEF L!Interned, L!Token
<1>3. CASE L!EmptyInput \/ L!End
  <2>1. UNCHANGED input
    BY <1>3 DEF L!EmptyInput, L!End, L!inputVars
  <2>2. PICK marker : marker = L!Interned("T_EOF")
    OBVIOUS
  <2>3. Numeral(marker)
    BY <1>2, <2>2, NoNumberIsNumeral DEF NoNumber
  <2>4. out' = out \/ out' = <<marker>> \/ out' = Append(out, marker)
    BY <1>3, <2>2 DEF L!EmptyInput, L!End
  <2>5. PICK all : all = out'
    OBVIOUS
  <2>6. \A k \in 1..Len(all) : (k \in 1..Len(out) /\ all[k] = out[k]) \/ all[k] = marker
    <3>1. CASE all = out
      BY <3>1
    <3>2. CASE all = <<marker>>
      BY <3>2
    <3>3. CASE all = Append(out, marker)
      BY <3>3 DEF LexInv
    <3> QED BY <2>4, <2>5, <3>1, <3>2, <3>3
  <2>7. \A k \in 1..Len(all) : Numeral(all[k])
    BY <2>3, <2>6 DEF NumeralInv
  <2>8. \A t : (Numeral(t))' <=> Numeral(t)
    BY <2>1 DEF Numeral, L!Char
  <2> QED BY <2>5, <2>7, <2>8 DEF NumeralInv
<1>4. CASE L!Punctuate
  <2>1. PICK token : token = L!Interned(L!Punctuation[L!Cur])
    OBVIOUS
  <2>2. L!Cur \in DOMAIN L!Punctuation /\ L!Emit(<<token>>) /\ UNCHANGED input
    BY <1>4, <2>1 DEF L!Punctuate, L!Lexing, L!MoveTo, L!inputVars
  <2>3. NoNumber(token)
    BY <2>1, <2>2 DEF L!Punctuation, L!Interned, L!Token, NoNumber
  <2> QED BY <2>2, <2>3, NoNumberIsNumeral, NumeralWritten
<1>5. CASE L!Builtin
  <2> DEFINE end == L!RunEnd(pos + 1, L!Alphanumeric)
  <2>1. PICK eof, token : eof = L!Interned("T_EOF") /\ token = L!Token("T_BUILTIN", pos + 1, end)
    OBVIOUS
  <2>2. PICK marker : marker = IF end = pos + 1 THEN <<eof>> ELSE <<>>
    OBVIOUS
  <2>3. PICK ts, T : ts = Append(marker, token) /\ T = {eof, token}
    OBVIOUS
  <2>4. L!Emit(ts) /\ UNCHANGED input
    BY <1>5, <2>1, <2>2, <2>3 DEF L!Builtin, L!MoveTo, L!inputVars
  <2>5. ts \in Seq(T)
    <3>1. eof \in T /\ token \in T
      BY <2>3
    <3>2. <<eof>> \in Seq(T) /\ <<>> \in Seq(T)
      BY <3>1
    <3>3. marker \in Seq(T)
      BY <2>2, <3>2
    <3> QED BY <2>3, <3>1, <3>3
  <2> HIDE DEF end
  <2>6. Numeral(eof) /\ Numeral(token)
    BY <1>2, <2>1, NoNumberIsNumeral DEF NoNumber
  <2>7. \A k \in 1..Len(ts) : Numeral(ts[k])
    <3>1. \A k \in 1..Len(ts) : ts[k] \in T
      BY <2>5
    <3> QED BY <2>3, <2>6, <3>1
  <2> QED BY <2>4, <2>5, <2>7, NumeralsWritten
<1>6. CASE L!Identifier
  <2> DEFINE end == L!RunEnd(pos, L!Alphanumeric)
             type == Keyword(SubSeq(input, pos + 1, end))
  <2>1. PICK token :
            token = IF type = "T_IDENT" THEN L!Token(type, pos, end) ELSE L!Interned(type)
    OBVIOUS
  <2>2. L!Emit(<<token>>) /\ UNCHANGED input
    BY <1>6, <2>1 DEF L!Identifier, L!MoveTo, L!inputVars
  <2>3. type \in {"T_TRUE", "T_FALSE", "T_IDENT"}
    <3>1. "NUL" \notin L!Alphanumeric
      BY ClassAssumption DEF L!Alphanumeric
    <3>2. end \in pos..Len(input)
      BY <1>1, <3>1, RunEndRuns
    <3>3. SubSeq(input, pos + 1, end) \in Seq(STRING)
      BY <1>1, <3>2 DEF LexInv
    <3> QED BY <3>3 DEF KeywordTypes
  <2> HIDE DEF type, end
  <2>4. NoNumber(token)
    BY <1>2, <2>1, <2>3 DEF NoNumber
  <2> QED BY <2>2, <2>4, NoNumberIsNumeral, NumeralWritten
<1>7. CASE L!Quoted \/ L!String
  <2>1. PICK token : /\ token.type \in {"T_STRING", "T_EOF"}
                     /\ L!Emit(<<token>>) /\ UNCHANGED input
    <3>1. CASE L!Quoted
      BY <1>2, <3>1 DEF L!Quoted, L!MoveTo, L!inputVars
    <3>2. CASE L!String
      BY <1>2, <3>2 DEF L!String, L!MoveTo, L!inputVars
    <3> QED BY <1>7, <3>1, <3>2
  <2>2. NoNumber(token)
    BY <2>1 DEF NoNumber
  <2> QED BY <2>1, <2>2, NoNumberIsNumeral, NumeralWritten
<1>8. CASE L!Comment \/ L!Whitespace \/ L!Unknown \/ L!ReadBehind
  BY <1>8, NumeralsStay
     DEF L!Comment, L!Whitespace, L!Unknown, L!ReadBehind, L!MoveTo, L!inputVars
<1> QED BY <1>3, <1>4, <1>5, <1>6, <1>7, <1>8, NumberKeepsNumerals DEF L!Next

(* Every integer literal becomes its decimal value and every double        *)
(* literal its digits scaled by those behind the dot, and exactly those    *)
(* that do not fit are refused (strings.c:71-126), for every text and      *)
(* every width.                                                            *)
THEOREM NumbersAreExact == ASSUME KeywordTypes PROVE Spec => []NumbersExact
PROOF
<1>1. Init => NumeralInv
  BY DEF Init, L!Init, NumeralInv
<1>2. IInv /\ NumeralInv /\ [Next]_vars => NumeralInv'
  <2> SUFFICES ASSUME IInv, NumeralInv, [Next]_vars PROVE NumeralInv'
    OBVIOUS
  <2>1. CASE Lex
    BY <2>1, LexKeepsNumerals DEF Lex, IInv
  <2>2. CASE Parse \/ UNCHANGED vars
    <3>1. UNCHANGED <<input, out>>
      BY <2>2 DEF Parse, lexerVars, vars
    <3> QED BY <3>1, NumeralsStay
  <2> QED BY <2>1, <2>2 DEF Next
<1>3. IInv /\ NumeralInv => NumbersExact
  <2> SUFFICES ASSUME IInv, NumeralInv, NEW k \in 1..Len(out)
               PROVE  /\ out[k].type = "T_INTEGER" => N!IntegerExact(Text(out[k]))
                      /\ out[k].type = "T_DOUBLE" => N!DoubleExact(Text(out[k]))
    BY DEF NumbersExact
  <2>1. PICK t \in Tokens : t = out[k] /\ Numeral(t)
    BY DEF IInv, LexInv, NumeralInv
  <2> QED BY <2>1, NumeralExact DEF IInv
<1> QED BY <1>1, <1>2, <1>3, FrontEndInvariance, PTL DEF Spec
=============================================================================
