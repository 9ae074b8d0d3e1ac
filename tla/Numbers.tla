------------------------------- MODULE Numbers ------------------------------
(***************************************************************************)
(* From the text of a number to its value (strings.c).  The loops over the *)
(* text are functions of the characters read so far.  Refused stands for a *)
(* failed ASSERT, which ends the process.                                  *)
(***************************************************************************)
EXTENDS Integers, Sequences

CONSTANTS
    INT64_MAX, UINT64_MAX,
    DigitValue(_)             \* c - '0'

ASSUME LimitAssumption == INT64_MAX \in Nat /\ UINT64_MAX \in Nat /\ INT64_MAX > 9

Refused == -1

(* one turn of the loop of Str_to_int64_t *)
IntStepLoose(r, digit) ==    \* mutant: the digit is left out of the test
    IF r # Refused /\ r < INT64_MAX \div 10 THEN r * 10 + digit ELSE Refused
IntStep(r, digit) ==
    IF r # Refused /\ r < (INT64_MAX - digit) \div 10 THEN r * 10 + digit ELSE Refused

Str_to_int64_t(text) ==
    LET r[k \in 0..Len(text)] == IF k = 0 THEN 0 ELSE IntStep(r[k - 1], DigitValue(text[k]))
    IN  IF text = <<>> THEN Refused ELSE r[Len(text)]

(* Str_to_double: digits are gathered in mantissa, and those behind the    *)
(* dot lower exponent.  The result is mantissa * 10^exponent as the        *)
(* floating point unit rounds it.                                          *)
Zero == [mantissa |-> 0, exponent |-> 0, seen_dot |-> FALSE, has_digits |-> FALSE]
Fits(mantissa, digit) == mantissa # Refused /\ mantissa <= (UINT64_MAX - digit) \div 10

DoubleStep(d, c) ==
    IF c = "." THEN [d EXCEPT !.seen_dot = TRUE]
    ELSE [d EXCEPT
            !.has_digits = TRUE,
            !.mantissa = IF Fits(@, DigitValue(c)) THEN @ * 10 + DigitValue(c) ELSE Refused,
            !.exponent = IF d.seen_dot THEN @ - 1 ELSE @]

Scaled(mantissa, exponent) == [mantissa |-> mantissa, exponent |-> exponent]
RefusedDouble == Scaled(Refused, 0)

Str_to_double(text) ==
    LET d[k \in 0..Len(text)] == IF k = 0 THEN Zero ELSE DoubleStep(d[k - 1], text[k])
        end == d[Len(text)]
    IN  IF end.has_digits /\ end.mantissa # Refused THEN Scaled(end.mantissa, end.exponent)
        ELSE RefusedDouble

-----------------------------------------------------------------------------
(* What a text of digits denotes, place by place from the right: unit[k]   *)
(* is the value of one at the place k + 1, sum[k] that of the last k       *)
(* digits.                                                                 *)
Decimal(digits) ==
    LET n == Len(digits)
        unit[k \in 0..n] == IF k = 0 THEN 1 ELSE 10 * unit[k - 1]
        sum[k \in 0..n] ==
            IF k = 0 THEN 0 ELSE sum[k - 1] + DigitValue(digits[n - k + 1]) * unit[k - 1]
    IN  sum[n]

(* An integer literal becomes its decimal value; refused are exactly the   *)
(* values above INT64_MAX - 10, the ten largest that would fit included    *)
(* (strings.c:71-83).                                                      *)
IntegerExact(text) ==
    Str_to_int64_t(text) = IF Decimal(text) <= INT64_MAX - 10 THEN Decimal(text) ELSE Refused

(* A literal with one dot becomes its digits, scaled by the number of      *)
(* digits behind the dot; refused are exactly the dot alone and digits     *)
(* that exceed UINT64_MAX (strings.c:85-126).                              *)
DoubleExact(text) ==
    LET dot == CHOOSE k \in 1..Len(text) : text[k] = "."
        digits == SubSeq(text, 1, dot - 1) \o SubSeq(text, dot + 1, Len(text))
    IN  Str_to_double(text) =
            IF digits = <<>> \/ Decimal(digits) > UINT64_MAX THEN RefusedDouble
            ELSE Scaled(Decimal(digits), dot - Len(text))
=============================================================================
