----------------------------- MODULE MainProofs -----------------------------
(***************************************************************************)
(* The options in the whole program: whatever runs behind SixParse, main   *)
(* keeps to what the command line says, and none of its options can be     *)
(* taken for another.                                                      *)
(***************************************************************************)
EXTENDS Main, TLAPS

SixProofs == INSTANCE OptionsProofs

Spec == SixProofs!Line /\ Init /\ [][Next]_vars

(* The table of main.c:54-102 has eight names and eight letters. *)
LEMMA MainsFlagsDiffer == ASSUME SIX_MAX_REST \in Nat PROVE SixProofs!FlagsDiffer
  BY DEF SixProofs!FlagsDiffer, SixProofs!Options, Flags, Flag

-----------------------------------------------------------------------------
(* What is proved of Options is said of the same definitions.              *)

LEMMA SameWords ==
    /\ Six!Options = SixProofs!Options
    /\ Six!Word = SixProofs!Word
    /\ Six!Parsing <=> SixProofs!Parsing
    /\ Six!AsksForHelp <=> SixProofs!AsksForHelp
    /\ Six!Matching = SixProofs!Matching
    /\ Six!Registered = SixProofs!Registered
  BY DEF Six!Options, SixProofs!Options, Six!Word, SixProofs!Word, Six!Parsing,
         SixProofs!Parsing, Six!AsksForHelp, SixProofs!AsksForHelp, Six!Matching,
         SixProofs!Matching, Six!Registered, SixProofs!Registered, Six!Max, SixProofs!Max

LEMMA SameValues ==
    /\ Six!AtOption <=> SixProofs!AtOption
    /\ Six!TakesValue <=> SixProofs!TakesValue
    /\ Six!ValueGiven <=> SixProofs!ValueGiven
    /\ \A type, text : Six!Accepts(type, text) <=> SixProofs!Accepts(type, text)
    /\ \A type, text : Six!Converted(type, text) = SixProofs!Converted(type, text)
PROOF
<1>1. Six!AtOption <=> SixProofs!AtOption
  BY SameWords DEF Six!AtOption, SixProofs!AtOption
<1>2. \A type, text : /\ Six!Accepts(type, text) <=> SixProofs!Accepts(type, text)
                      /\ Six!Converted(type, text) = SixProofs!Converted(type, text)
  BY DEF Six!Accepts, SixProofs!Accepts, Six!Converted, SixProofs!Converted
<1>3. Six!TakesValue <=> SixProofs!TakesValue
  BY <1>1, SameWords DEF Six!TakesValue, SixProofs!TakesValue
<1>4. Six!ValueGiven <=> SixProofs!ValueGiven
  BY <1>2, <1>3, SameWords DEF Six!ValueGiven, SixProofs!ValueGiven
<1> QED BY <1>1, <1>2, <1>3, <1>4

LEMMA SameInit == Six!Init <=> SixProofs!Init
  BY SameWords DEF Six!Init, SixProofs!Init

LEMMA SameNext == Six!Next <=> SixProofs!Next
PROOF
<1>1. \A why : Six!Stop(why) <=> SixProofs!Stop(why)
  BY DEF Six!Stop, SixProofs!Stop
<1>2. Six!RestArgument <=> SixProofs!RestArgument
  BY <1>1, SameWords DEF Six!RestArgument, SixProofs!RestArgument
<1>3. Six!Help <=> SixProofs!Help
  BY <1>1, SameWords DEF Six!Help, SixProofs!Help
<1>4. Six!UnknownOption <=> SixProofs!UnknownOption
  BY <1>1, SameWords DEF Six!UnknownOption, SixProofs!UnknownOption
<1>5. \A f, v : Six!Set(f, v) <=> SixProofs!Set(f, v)
  BY DEF Six!Set, SixProofs!Set
<1>6. Six!SetFlag <=> SixProofs!SetFlag
  BY <1>5, SameWords, SameValues DEF Six!SetFlag, SixProofs!SetFlag
<1>7. Six!SetFlagTo <=> SixProofs!SetFlagTo
  BY <1>5, SameWords, SameValues DEF Six!SetFlagTo, SixProofs!SetFlagTo
<1>8. Six!BadValue <=> SixProofs!BadValue
  BY <1>1, SameValues DEF Six!BadValue, SixProofs!BadValue
<1>9. Six!End <=> SixProofs!End
  BY <1>1 DEF Six!End, SixProofs!End
<1> QED BY <1>2, <1>3, <1>4, <1>6, <1>7, <1>8, <1>9 DEF Six!Next, SixProofs!Next

LEMMA SameWins == Six!LastOneWins <=> SixProofs!LastOneWins
PROOF
<1>1. \A w : Six!Named(w) = SixProofs!Named(w)
  BY SameWords DEF Six!Named, SixProofs!Named
<1>2. \A w : Six!Wants(w) <=> SixProofs!Wants(w)
  BY <1>1 DEF Six!Wants, SixProofs!Wants
<1>3. Six!own = SixProofs!own
  BY DEF Six!own, SixProofs!own, Six!Wants, SixProofs!Wants, Six!Named, SixProofs!Named,
         Six!Options, SixProofs!Options
<1>4. Six!Own = SixProofs!Own
  BY <1>3 DEF Six!Own, SixProofs!Own
<1>5. \A f : Six!Uses(f) = SixProofs!Uses(f)
  BY <1>1, <1>4 DEF Six!Uses, SixProofs!Uses
<1>6. \A T : Six!Max(T) = SixProofs!Max(T)
  BY DEF Six!Max, SixProofs!Max
<1>7. \A f : Six!Said(f) = SixProofs!Said(f)
  BY <1>5, <1>6, SameValues DEF Six!Said, SixProofs!Said
<1>8. Six!Places = SixProofs!Places
  BY <1>4 DEF Six!Places, SixProofs!Places
<1>9. \A p : Six!Sound(p) <=> SixProofs!Sound(p)
  BY <1>1, <1>2, SameValues DEF Six!Sound, SixProofs!Sound
<1>10. \A T : Six!Cardinality(T) = SixProofs!Cardinality(T)
  BY DEF Six!Cardinality, SixProofs!Cardinality
<1> QED BY <1>4, <1>7, <1>8, <1>9, <1>10, SameWords DEF Six!LastOneWins, SixProofs!LastOneWins

-----------------------------------------------------------------------------
(* Only SixParse touches what it keeps, and nothing it keeps is touched    *)
(* later (main.c:54-147, 6cl.c:333-405): when main reads its options, an   *)
(* option has the value its last use gives it, for every command line.     *)
THEOREM OptionsObeyed == ASSUME SIX_MAX_REST \in Nat PROVE Spec => []LastOneWins
PROOF
<1>1. Init => SixProofs!Init
  BY SameInit DEF Init
<1>2. [Next]_vars => [SixProofs!Next]_<<argv, SixProofs!sixVars>>
  <2> SUFFICES ASSUME [Next]_vars, ~SixParse PROVE UNCHANGED <<argv, SixProofs!sixVars>>
    BY SameNext DEF SixParse
  <2>1. UNCHANGED optionVars
    BY DEF Next, EndEarly, ReadInput, Understand, FailFrontEnd, StartCompiler, Compile,
           FailCompiler, MapHeap, NoHeap, Run, HeapExhausted, Return, vars
  <2> QED BY <2>1 DEF optionVars, SixProofs!sixVars
<1>3. SixProofs!LastOneWins => LastOneWins
  BY SameWins DEF LastOneWins
<1>4. SixProofs!Spec => []SixProofs!LastOneWins
  BY MainsFlagsDiffer, SixProofs!LastUseWins
<1>5. Spec => SixProofs!Spec
  BY <1>1, <1>2, PTL DEF Spec, SixProofs!Spec
<1> QED BY <1>3, <1>4, <1>5, PTL
=============================================================================
