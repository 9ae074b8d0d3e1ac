------------------------------ MODULE Options -------------------------------
(***************************************************************************)
(* The command line (6cl/6cl.c SixParse, process_argument), for the three  *)
(* types main's options have.  A word is what an argument looks like to    *)
(* SixParse: its form ("rest" without the prefix, "short" if two           *)
(* characters long, else "long"), the name behind the prefix, and the text *)
(* it is as the value of an option.                                        *)
(***************************************************************************)
EXTENDS Integers, Sequences, FiniteSets, FiniteSetsExt

CONSTANTS
    Flags,           \* a sequence of [name, short, type, default]
    NameHash,        \* fnv1a & __HASH_TABLE_MASK
    Helping,         \* the names that begin with "help"
    Numeral,         \* strtol of the texts that are numbers as a whole
    SIX_MAX_REST

VARIABLES
    argv,            \* without the name of the program
    arg_i,           \* i, the next word
    value,           \* the flags' values
    rest,
    six_status

sixVars == <<arg_i, value, rest, six_status>>

Options == 1..Len(Flags)

-----------------------------------------------------------------------------
Init ==
    /\ arg_i = 1
    /\ value = [f \in Options |-> Flags[f].default]
    /\ rest = <<>>
    /\ six_status = "parsing"

Parsing == six_status = "parsing" /\ arg_i <= Len(argv)
Word == argv[arg_i]

Stop(why) == six_status' = why /\ UNCHANGED <<arg_i, value, rest>>

RestArgument ==
    /\ Parsing /\ Word.form = "rest"
    /\ IF Len(rest) + 1 >= SIX_MAX_REST THEN Stop("usage")
       ELSE rest' = Append(rest, Word) /\ arg_i' = arg_i + 1 /\ UNCHANGED <<value, six_status>>

AsksForHelp == \/ Word.form = "short" /\ Word.name = "h"
               \/ Word.form = "long" /\ Word.name \in Helping

Help == Parsing /\ AsksForHelp /\ Stop("help")

(* table_short and hash_table_long: a short option is looked up by its     *)
(* character, a long one by its hash alone                                 *)
Matching ==
    CASE Word.form = "short" -> {f \in Options : Flags[f].short = Word.name}
      [] Word.form = "long"  -> {f \in Options : NameHash[Flags[f].name] = NameHash[Word.name]}
      [] OTHER               -> {}

UnknownOption ==
    /\ Parsing /\ Word.form # "rest" /\ ~AsksForHelp /\ Matching = {}
    /\ Stop("usage")

(* of two options with one entry the one registered last has it *)
Registered == Max(Matching)
AtOption == Parsing /\ ~AsksForHelp /\ Matching # {}

Set(f, v) == value' = [value EXCEPT ![f] = v]

SetFlagStaying ==    \* mutant: i is not incremented
    /\ AtOption /\ Flags[Registered].type = "BOOL"
    /\ Set(Registered, TRUE)
    /\ UNCHANGED <<arg_i, rest, six_status>>
SetFlag ==
    /\ AtOption /\ Flags[Registered].type = "BOOL"
    /\ Set(Registered, TRUE)
    /\ arg_i' = arg_i + 1
    /\ UNCHANGED <<rest, six_status>>

(* process_argument on a word as the value of an option *)
Accepts(type, text) == type = "STR" \/ text \in DOMAIN Numeral
Converted(type, text) == IF type = "STR" THEN text ELSE Numeral[text]
TakesValue == AtOption /\ Flags[Registered].type # "BOOL"
ValueGiven ==
    TakesValue /\ arg_i < Len(argv) /\ Accepts(Flags[Registered].type, argv[arg_i + 1].text)

SetFlagToRereading ==    \* mutant: the value is read again as a word
    /\ ValueGiven
    /\ Set(Registered, Converted(Flags[Registered].type, argv[arg_i + 1].text))
    /\ arg_i' = arg_i + 1
    /\ UNCHANGED <<rest, six_status>>
SetFlagTo ==
    /\ ValueGiven
    /\ Set(Registered, Converted(Flags[Registered].type, argv[arg_i + 1].text))
    /\ arg_i' = arg_i + 2
    /\ UNCHANGED <<rest, six_status>>

BadValue == TakesValue /\ ~ValueGiven /\ Stop("usage")

End == six_status = "parsing" /\ arg_i > Len(argv) /\ Stop("parsed")

Next ==
    /\ \/ RestArgument \/ Help \/ UnknownOption \/ SetFlag \/ SetFlagTo \/ BadValue \/ End
    /\ UNCHANGED argv

-----------------------------------------------------------------------------
(* What a command line says, word by word.  A word is taken for itself,    *)
(* unless it is the value of the option before it.                         *)
Named(w) == {f \in Options : \/ w.form = "short" /\ w.name = Flags[f].short
                             \/ w.form = "long" /\ w.name = Flags[f].name}
Wants(w) == \E f \in Named(w) : Flags[f].type # "BOOL"
own[p \in 1..Len(argv)] == p = 1 \/ ~(own[p - 1] /\ Wants(argv[p - 1]))
Own == {p \in 1..Len(argv) : own[p]}
Uses(f) == {p \in Own : f \in Named(argv[p])}
Said(f) == LET last == Max(Uses(f))
           IN  IF Uses(f) = {} THEN Flags[f].default
               ELSE IF Flags[f].type = "BOOL" THEN TRUE
               ELSE Converted(Flags[f].type, argv[last + 1].text)
Places == {p \in Own : argv[p].form = "rest"}
Sound(p) ==
    /\ argv[p].form # "rest" => Named(argv[p]) # {}
    /\ Wants(argv[p]) => /\ p < Len(argv)
                         /\ \A f \in Named(argv[p]) : Accepts(Flags[f].type, argv[p + 1].text)

(* Whatever the order of the words, an option has the value its last use   *)
(* gives it, a value is never taken for an option or a file, not even one  *)
(* that begins with the prefix, and the other words are the rest arguments *)
(* in their order.  A line is refused only for a reason (6cl.c:333-405).   *)
LastOneWins ==
    /\ six_status = "parsed" =>
          /\ \A p \in Own : Sound(p)
          /\ value = [f \in Options |-> Said(f)]
          /\ Len(rest) = Cardinality(Places)
          /\ \A p \in Places : rest[Cardinality({q \in Places : q <= p})] = argv[p]
    /\ six_status = "usage" =>
          (\E p \in Own : ~Sound(p)) \/ Cardinality(Places) >= SIX_MAX_REST
=============================================================================
