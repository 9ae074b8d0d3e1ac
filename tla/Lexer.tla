------------------------------- MODULE Lexer --------------------------------
(***************************************************************************)
(* The lexer (lexer.c): one action per label Lexer_all jumps to.           *)
(*                                                                         *)
(* A character is a member of a small alphabet.  "high" is any byte above  *)
(* 127, negative in the char the loops read it into.  The byte behind the  *)
(* input is read as well.  It is zero if the text is that of +r, a C       *)
(* string, or a file that leaves a rest of its last page, which mmap fills *)
(* with zeros; behind a file of whole pages lies memory that is not the    *)
(* program's.  A token's text is the range start..end - 1 of input         *)
(* positions, which count from 0.                                          *)
(***************************************************************************)
EXTENDS Integers, Sequences, FiniteSets

CONSTANTS
    Letters, Digits,     \* bytes of these classes; "_" counts as a letter
    Keyword(_),          \* T_TRUE, T_FALSE or T_IDENT, by the hash of a text
    MIN_MEM              \* the least size main.c provides for

VARIABLES
    input,
    zero_behind,    \* the byte behind the input is zero
    pos,
    out,            \* the tokens written
    lex_status

lexVars == <<input, zero_behind, pos, out, lex_status>>

Token(type, start, end) == [type |-> type, start |-> start, end |-> end]
Interned(type) == Token(type, 0, 0)

Punctuation ==
    [c \in {"(", ")", "[", "]", "{", "}", "+", "-", "*", "/", "="} |->
        CASE c = "(" -> "T_DELIMITOR_LEFT" [] c = ")" -> "T_DELIMITOR_RIGHT"
          [] c = "[" -> "T_BRAKET_LEFT"    [] c = "]" -> "T_BRAKET_RIGHT"
          [] c = "{" -> "T_CURLY_LEFT"     [] c = "}" -> "T_CURLY_RIGHT"
          [] c = "+" -> "T_PLUS"           [] c = "-" -> "T_MINUS"
          [] c = "*" -> "T_ASTERISKS"      [] c = "/" -> "T_SLASH"
          [] c = "=" -> "T_EQUAL"]
Blank == {"space", "tab", "newline"}
Alphanumeric == Letters \cup Digits \cup {"-"}
NumberChars == Digits \cup {"."}
Known == Alphanumeric \cup DOMAIN Punctuation \cup Blank
            \cup {"@", ".", ";", "'", "quote", "NUL"}

Char(p) == IF p < Len(input) THEN input[p + 1] ELSE "NUL"
Cur == Char(pos)

(* where the run of characters of S that starts at p ends *)
RunEnd(p, S) ==
    CHOOSE q \in p..Len(input) :
        Char(q) \notin S /\ \A k \in p..q - 1 : Char(k) \in S

(* main.c allots one pointer per byte of input, but at least MIN_MEM *)
Size == IF Len(input) < MIN_MEM THEN MIN_MEM ELSE Len(input)

(* out[count++]: nothing checks that the token still fits *)
Emit(tokens) ==
    IF Len(out) + Len(tokens) <= Size
    THEN out' = out \o tokens /\ UNCHANGED lex_status
    ELSE lex_status' = "undefined" /\ UNCHANGED out

AtEnd == pos = Len(input)
Reading == lex_status = "lexing" /\ input # <<>> /\ (AtEnd => zero_behind)
Lexing(c) == Reading /\ Cur \in c
inputVars == <<input, zero_behind>>
MoveTo(p) == pos' = p /\ UNCHANGED inputVars

-----------------------------------------------------------------------------
Init ==
    /\ pos = 0
    /\ out = <<>>
    /\ lex_status = "lexing"

EmptyInput ==
    /\ lex_status = "lexing" /\ input = <<>>
    /\ out' = <<Interned("T_EOF")>>
    /\ lex_status' = "done"
    /\ UNCHANGED <<inputVars, pos>>

Punctuate ==
    /\ Lexing(DOMAIN Punctuation)
    /\ Emit(<<Interned(Punctuation[Cur])>>)
    /\ MoveTo(pos + 1)

(* an @ without a name is an end marker and a builtin without a name *)
Builtin ==
    /\ Lexing({"@"})
    /\ LET end == RunEnd(pos + 1, Alphanumeric)
           marker == IF end = pos + 1 THEN <<Interned("T_EOF")>> ELSE <<>>
       IN  Emit(Append(marker, Token("T_BUILTIN", pos + 1, end))) /\ MoveTo(end)

NumberWithoutDot ==    \* mutant: a number ends at its dot
    /\ Lexing(NumberChars)
    /\ LET end == IF Cur = "." THEN pos + 1 ELSE RunEnd(pos, Digits)
       IN  Emit(<<Token("T_INTEGER", pos, end)>>) /\ MoveTo(end)
Number ==
    /\ Lexing(NumberChars)
    /\ LET end == RunEnd(pos, NumberChars)
           dots == {p \in pos..end - 1 : Char(p) = "."}
       IN  IF Cardinality(dots) > 1
           THEN lex_status' = "aborted" /\ UNCHANGED <<inputVars, pos, out>>
           ELSE /\ Emit(<<Token(IF dots = {} THEN "T_INTEGER" ELSE "T_DOUBLE", pos, end)>>)
                /\ MoveTo(end)

Identifier ==
    /\ Lexing(Letters)
    /\ LET end == RunEnd(pos, Alphanumeric)
           type == Keyword(SubSeq(input, pos + 1, end))
       IN  /\ Emit(<<IF type = "T_IDENT" THEN Token(type, pos, end) ELSE Interned(type)>>)
           /\ MoveTo(end)

Quoted ==
    /\ Lexing({"'"})
    /\ LET end == RunEnd(pos + 1, Alphanumeric)
       IN  Emit(<<Token("T_STRING", pos + 1, end)>>) /\ MoveTo(end)

(* cc > 0 ends the loop at a zero byte and at every byte above 127 *)
Positive(q) == Char(q) \notin {"NUL", "high"}
TextEnd(p, close) ==
    CHOOSE q \in p..Len(input) :
        /\ ~Positive(q) \/ Char(q) = close
        /\ \A k \in p..q - 1 : Positive(k) /\ Char(k) # close

StringSkipping ==    \* mutant: skips the closing quote that is not there
    /\ Lexing({"quote"})
    /\ LET end == TextEnd(pos + 1, "quote")
       IN  /\ Emit(<<IF Char(end) = "quote" THEN Token("T_STRING", pos + 1, end)
                     ELSE Interned("T_EOF")>>)
           /\ MoveTo(end + 1)
String ==
    /\ Lexing({"quote"})
    /\ LET end == TextEnd(pos + 1, "quote")
       IN  IF Char(end) = "quote"
           THEN Emit(<<Token("T_STRING", pos + 1, end)>>) /\ MoveTo(end + 1)
           ELSE Emit(<<Interned("T_EOF")>>) /\ MoveTo(end)

Comment ==
    /\ Lexing({";"})
    /\ MoveTo(TextEnd(pos, "newline"))
    /\ UNCHANGED <<out, lex_status>>

WhitespaceStays ==    \* mutant: pos is not incremented
    Lexing(Blank) /\ MoveTo(pos) /\ UNCHANGED <<out, lex_status>>
Whitespace ==
    /\ Lexing(Blank)
    /\ MoveTo(pos + 1)
    /\ UNCHANGED <<out, lex_status>>

Unknown ==
    /\ Reading /\ Cur \notin Known
    /\ lex_status' = "aborted"
    /\ UNCHANGED <<inputVars, pos, out>>

(* whatever follows the input, which may end the process or be lexed, at   *)
(* the latest when the next label is looked up                             *)
ReadBehind ==
    /\ lex_status = "lexing" /\ input # <<>> /\ AtEnd /\ ~zero_behind
    /\ lex_status' = "undefined"
    /\ UNCHANGED <<inputVars, pos, out>>

End ==
    /\ Lexing({"NUL"})
    /\ IF Len(out) < Size THEN out' = Append(out, Interned("T_EOF")) /\ lex_status' = "done"
       ELSE lex_status' = "undefined" /\ UNCHANGED out
    /\ UNCHANGED <<inputVars, pos>>

Next == \/ EmptyInput \/ Punctuate \/ Builtin \/ Number \/ Identifier \/ Quoted
        \/ String \/ Comment \/ Whitespace \/ Unknown \/ ReadBehind \/ End

-----------------------------------------------------------------------------
(* Properties                                                              *)

TokenTypes == {Punctuation[c] : c \in DOMAIN Punctuation}
    \cup {"T_STRING", "T_TRUE", "T_FALSE", "T_DOUBLE", "T_INTEGER", "T_BUILTIN",
          "T_IDENT", "T_EOF"}

(* Every variable of the lexer has its type, and no token's text leaves    *)
(* the input: tokens are windows into it, not copies.                      *)
TypeOK ==
    /\ pos \in 0..Len(input)
    /\ Len(out) <= Size
    /\ \A k \in 1..Len(out) :
          /\ out[k].type \in TokenTypes
          /\ out[k].start \in 0..Len(input) /\ out[k].end \in out[k].start..Len(input)
    /\ lex_status \in {"lexing", "done", "aborted", "undefined"}

(* Tokens with a text come in the order of the input and do not overlap,   *)
(* and each is as long as it can be: the character behind it could not     *)
(* have been part of it (lexer.c:163-329).                                 *)
Textual(t) == t.type \in {"T_STRING", "T_DOUBLE", "T_INTEGER", "T_BUILTIN", "T_IDENT"}
Extends(t) ==
    CASE t.type \in {"T_DOUBLE", "T_INTEGER"} -> NumberChars
      [] t.type = "T_STRING" /\ Char(t.start - 1) = "quote" -> {}
      [] OTHER -> Alphanumeric
LexemesMaximal ==
    /\ \A j, k \in 1..Len(out) :
          j < k /\ Textual(out[j]) /\ Textual(out[k]) => out[j].end <= out[k].start
    /\ \A k \in 1..Len(out) : Textual(out[k]) =>
          /\ Char(out[k].end) \notin Extends(out[k])
          /\ out[k].end <= pos
=============================================================================
