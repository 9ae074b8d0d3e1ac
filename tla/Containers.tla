----------------------------- MODULE Containers -----------------------------
(***************************************************************************)
(* The growing arrays, a List of values (adts.c) and a Builder of bytes    *)
(* (builder.c), in the memory of a bump allocator that others use as well. *)
(* memory holds what was written to an address, a value being written to   *)
(* its first byte.                                                         *)
(***************************************************************************)
EXTENDS Bump, Sequences

CONSTANTS
    Caps,                    \* the capacities callers ask for
    Pieces,                  \* the texts and the values they append
    Elements,
    BUILDER_DEFAULT_SIZE,
    LIST_DEFAULT_CAP,
    VALUE_SIZE               \* sizeof(Value)

ASSUME ContainersAssumption ==
    /\ Caps \subseteq Nat /\ BUILDER_DEFAULT_SIZE \in Nat /\ LIST_DEFAULT_CAP \in Nat
    /\ Pieces \subseteq Seq(STRING)
    /\ VALUE_SIZE \in Nat \ {0}

(* appended, in a container, is history: what its user has appended *)
VARIABLES memory, builder, cstr, list, fault

containerVars == <<memory, builder, cstr, list, fault>>

NotYet == [cap |-> 0]
Working == state = "live" /\ fault = "none"

(* texts in memory, and whether bump_request gave what was asked for *)
Reading(start, n) == [k \in 1..n |-> memory[start + k - 1]]
Written(m, start, text) ==
    [a \in DOMAIN m |-> IF a \in start..start + Len(text) - 1 THEN text[a - start + 1] ELSE m[a]]
Granted == state' = "live"

-----------------------------------------------------------------------------
CInit ==
    /\ Init
    /\ memory = [a \in 0..len - 1 |-> "zero"]
    /\ builder = NotYet /\ cstr = NotYet /\ list = NotYet
    /\ fault = "none"

Others ==
    /\ fault = "none"
    /\ (\E size \in Sizes : bump_request(size)) \/ bump_destroy
    /\ UNCHANGED containerVars

Builder_new(size) ==
    LET cap == IF size = 0 THEN BUILDER_DEFAULT_SIZE ELSE size
    IN  /\ Working /\ builder = NotYet
        /\ bump_request(cap)
        /\ builder' = IF Granted THEN [cap |-> cap, buffer |-> Align(pos), len |-> 0, appended |-> <<>>]
                      ELSE builder
        /\ UNCHANGED <<memory, cstr, list, fault>>

AppendTo(buffer, cap, m, text) ==
    IF builder.len + Len(text) <= cap
    THEN /\ memory' = Written(m, buffer + builder.len, text)
         /\ builder' = [cap |-> cap, buffer |-> buffer, len |-> builder.len + Len(text),
                        appended |-> builder.appended \o text]
         /\ UNCHANGED fault
    ELSE fault' = "overrun" /\ UNCHANGED <<memory, builder>>

(* Builder_append_Str, and with a text of length one Builder_append_char   *)
(* and Builder_append_byte                                                 *)
AppendInPlace(text) ==
    /\ Working /\ builder # NotYet
    /\ builder.len + Len(text) <= builder.cap
    /\ AppendTo(builder.buffer, builder.cap, memory, text)
    /\ UNCHANGED <<vars, cstr, list>>

(* Builder_grow: by half, once, however long the text is *)
Grown == builder.cap + builder.cap \div 2
GrowsFor(text) == builder.len + Len(text) > builder.cap
AppendForgetting(text) ==    \* mutant: the old bytes are not copied
    /\ Working /\ builder # NotYet /\ GrowsFor(text)
    /\ bump_request(Grown)
    /\ IF Granted THEN AppendTo(Align(pos), Grown, memory, text)
       ELSE UNCHANGED <<memory, builder, fault>>
    /\ UNCHANGED <<cstr, list>>
AppendGrowing(text) ==
    /\ Working /\ builder # NotYet /\ GrowsFor(text)
    /\ bump_request(Grown)
    /\ IF Granted
       THEN AppendTo(Align(pos), Grown,
                     Written(memory, Align(pos), Reading(builder.buffer, builder.len)), text)
       ELSE UNCHANGED <<memory, builder, fault>>
    /\ UNCHANGED <<cstr, list>>

Builder_as_cstr ==
    /\ Working /\ builder # NotYet
    /\ bump_request(builder.len + 1)
    /\ IF Granted
       THEN /\ memory' = Written(memory, Align(pos),
                                 Append(Reading(builder.buffer, builder.len), "NUL"))
            /\ cstr' = [cap |-> builder.len + 1, buffer |-> Align(pos), text |-> builder.appended]
       ELSE UNCHANGED <<memory, cstr>>
    /\ UNCHANGED <<builder, list, fault>>

List_new(n) ==
    LET cap == IF n < LIST_DEFAULT_CAP THEN LIST_DEFAULT_CAP ELSE n
    IN  /\ Working /\ list = NotYet
        /\ bump_request(cap * VALUE_SIZE)
        /\ list' = IF Granted THEN [cap |-> cap, elements |-> Align(pos), len |-> 0, appended |-> <<>>]
                   ELSE list
        /\ UNCHANGED <<memory, builder, cstr, fault>>

(* the allocator a list would grow with is never set: growing it reads NULL *)
List_append(v) ==
    /\ Working /\ list # NotYet
    /\ IF list.len + 1 >= list.cap
       THEN fault' = "null" /\ UNCHANGED <<memory, list>>
       ELSE /\ memory' = Written(memory, list.elements + list.len * VALUE_SIZE, <<v>>)
            /\ list' = [list EXCEPT !.len = @ + 1, !.appended = Append(@, v)]
            /\ UNCHANGED fault
    /\ UNCHANGED <<vars, builder, cstr>>

List_get(idx) ==
    IF idx >= list.len THEN "None" ELSE memory[list.elements + idx * VALUE_SIZE]

CNext ==
    \/ Others
    \/ \E n \in Caps : Builder_new(n) \/ List_new(n)
    \/ \E text \in Pieces : AppendInPlace(text) \/ AppendGrowing(text)
    \/ Builder_as_cstr
    \/ \E v \in Elements : List_append(v)

CSpec == CInit /\ [][CNext]_<<vars, containerVars>>

-----------------------------------------------------------------------------
(* Whatever else is requested and appended in between, a builder, a copy   *)
(* made of it and a list hold what was appended to them, through every     *)
(* growth, until an append overruns a builder or grows a list              *)
(* (builder.c:16-31, adts.c:17-41).                                        *)
ContentsKept ==
    Working =>
        /\ builder # NotYet => Reading(builder.buffer, builder.len) = builder.appended
        /\ cstr # NotYet => Reading(cstr.buffer, cstr.cap) = Append(cstr.text, "NUL")
        /\ list # NotYet =>
              \A idx \in 0..list.cap :
                  List_get(idx) = IF idx < Len(list.appended) THEN list.appended[idx + 1] ELSE "None"
=============================================================================
