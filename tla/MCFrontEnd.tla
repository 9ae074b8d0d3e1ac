----------------------------- MODULE MCFrontEnd -----------------------------
(***************************************************************************)
(* All short texts: up to three characters of every class, four over the   *)
(* classes that interact, six over nested lists, the texts that fill the   *)
(* token array, and numbers beyond every limit.  A text of whole pages may *)
(* be that of a file.                                                      *)
(***************************************************************************)
EXTENDS Reading

CONSTANT PAGE_SIZE

MCLetters == {"a", "t"}
MCDigits == {"0", "1", "9"}
MCDigitValue(c) == CASE c = "0" -> 0 [] c = "1" -> 1 [] c = "9" -> 9
MCKeyword(text) == IF text = <<"t">> THEN "T_TRUE" ELSE "T_IDENT"

Every == {"(", ")", "[", "]", "{", "}", "+", "-", "@", "a", "t", "1", ".", "'",
          "quote", "space", "newline", ";", "high", "?"}
Interacting == {"(", ")", "]", "+", "@", "a", "1", ".", "'", "quote", "high"}
Nesting == {"(", ")", "[", "a", "+", "space"}

Texts(chars, n) == UNION {[1..k -> chars] : k \in 0..n}

MCInputs == Texts(Every, 3) \cup Texts(Interacting, 4) \cup [1..6 -> Nesting]
              \cup Texts({"@"}, 6) \cup Texts(MCDigits \cup {"."}, 5)

MCInit ==
    /\ input \in MCInputs
    /\ zero_behind \in {z \in BOOLEAN : z \/ Len(input) % PAGE_SIZE = 0}
    /\ Init

MCSpec == MCInit /\ [][Next]_vars /\ WF_vars(Next)
=============================================================================
