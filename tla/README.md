# A verification of purple-garden

purple-garden is a small Lisp: a C program of about 3500 lines that reads a
text, lexes and parses it, compiles the tree to bytecode for a register machine
and executes the bytecode. It runs in one thread and one process; nothing is
persisted. What is hard about it is not concurrency but *sequences*: nested
expressions that share one register counter, a single pass compiler that patches
jumps later, call frames that live on two linked lists at once, tables of a
fixed size, and checks that are made at one place and relied upon at another.

## 1. Inventory

| component | state it keeps | operations | what makes it correct |
|---|---|---|---|
| Lexer (`lexer.c`) | input, `pos`, tokens written | one label per character class | maximal tokens in order, an end marker last, comes to an end |
| Parser (`parser.c`) | `pos`, stack of open lists | one label per token type | loses no token, stays inside the tokens, accepts balanced texts only |
| Compiler (`cc.c`) | bytecode, global pool and its hash buckets, register marks and count, function table, the C stack | `compile` per node kind, `cc` | registers have one owner and are given back, jumps land, calls enter finished bodies, a literal loads that literal |
| Machine (`vm.c`) | `pc`, registers, frames, current frame, free list, `arg_count` | one per opcode | frames form a stack of scopes, every LEAVE returns behind the outstanding CALL, `arg_count` is never stale |
| Builtins (`builtins.c`) | none of their own | print, println, len, type, Some | read the registers the compiler filled |
| Values (`common.c`) | none | comparison, conversion | see the machine |
| Bump allocator (`bump.c`) | region, `pos` | init, request, destroy | aligned, disjoint blocks inside the region |
| xcgc (`xcgc.c`) | heap, `pos` | init, request, destroy | the same; its collection is not written |
| Pipeline (`main.c`, `io.c`) | the allocators, the input, the exit code | parse the options, read, lex, parse, compile, choose a heap, run, tear down | one phase after the other; the exit code tells how the program ended |
| Strings, numbers (`strings.c`) | none | hashing, conversion, concatenation | a number is its digits' value, or is refused; no product overflows |
| List, Builder (`adts.c`, `builder.c`) | growing arrays | append, get, export | what was appended is what is read, through every growth |
| Options (`6cl/`) | flags, rest arguments | `SixParse` | words mean the same in every order |
| `dis.c`, `stat.c` | none | print the bytecode | pure output |

The components interact by shared data, phase after phase: the lexer's token
array is the parser's input, the tree is the compiler's, and the compiler
writes straight into the machine's bytecode and global pool. Compiler and
machine also share two conventions nothing checks: which register an argument
is in, and that a function is a JMP, a body and a LEAVE. All memory comes from
an `Allocator` (`mem.h`), whose two implementations are modules of their own
here.

`PROJECT.json` lists the hazards, each with its line and the properties that
would notice it going wrong. A hazard without a property has a note: mostly the
code runs into undefined behaviour there and the model ends the run with a status
that says so (`undefined`, `crashed`, `out_of_bytecode`, "null", "overrun"). The
type invariants admit these endings, so they do not catch such a hazard.

## 2. Modules

| module | built from | model checked by | proved in |
|---|---|---|---|
| FrontEnd | Lexer, Parser | MCFrontEnd, through Reading | FrontEndProofs |
| Reading | FrontEnd, Numbers | MCFrontEnd | FrontEndProofs |
| Cc | Values, Config | MCCc | CcProofs, CcCodeProofs |
| PurpleGarden | Cc, Vm; implements Scopes | MCPurpleGarden | PurpleGardenProofs (on CcCodeProofs) |
| Options | | MCConformance, through Main | OptionsProofs |
| Main | Options, FrontEnd, Numbers, PurpleGarden, Mem | MCConformance | MainProofs (on OptionsProofs) |
| Conformance | Main, Semantics | MCConformance | |
| Bump | Mem; implements Arena | MCBump | ContainersProofs |
| Containers | Bump; implements Arena | MCBump | ContainersProofs |
| Xcgc | Mem | MCXcgc | XcgcProofs |

`Syntax` has the constructors of trees that the MC modules build programs with.
A module ending in `Proofs` holds the theorems about the module it is named
after; `ContainersProofs` has those about Bump as well, and `CcCodeProofs` adds to `CcProofs` what is proved about the generated code.

**Lexer, Parser, FrontEnd.** One action per label of `Lexer_all` and
`Parser_all`. A character is a member of a small alphabet and a token's text a
range of positions, since the lexer copies nothing. The two arrays without
bounds checks, of tokens and of top-level nodes, and the parser's stack of 256
entries are modelled with their sizes: a write behind one ends the run as
`undefined`. So does main's own confusion of bytes and nodes (`main.c:196-198`),
which makes the root's array an eighth of what its capacity claims, and so does
the byte behind a file of whole pages, which the lexer looks at before it knows
that the input has ended (`zero_behind`, `ReadBehind`). A builtin or an operator
that does not follow a "(" has no entry in the parser's jump table: `crashed`.
`FrontEnd` runs one after the other, as main does.

`FrontEnd` also says what the two owe to the compiler: `AcceptsBalanced` and
`TreesFit` (every tree is one `compile` can take).

**Reading** compares what the front end makes of a text with the text:
`Unparses` (the open lists, written back, are the tokens read) and
`NumbersExact` (the literals have the values their digits denote).

**Numbers** translates `Str_to_int64_t` and `Str_to_double`, the loop of
each as a recursive function of the characters read so far. A double is its mantissa and exponent; what the floating point
unit makes of them is a parameter.

**Cc.** The recursion of `compile` is an explicit stack of activations, an
action the code between two recursive calls. An activation carries its node, the
number of recursive calls made, and the locals of the C function that survive
one: `r` or `registers` (`regs`), the slot of a jump to patch (`mark`),
`backfill_slots`, `encountered_default_cause`. `base`, the number of registers
on entry, is a history field no action reads. ASSERT and TODO end the run with a
status that names the reason. The uninitialised entries of `backfill_slots` are
a choice: read as 0 they are skipped (`MatchEnd`), otherwise the program writes
to a stray place (`MatchGarbage`). Hashes are parameters of the model, assumed
injective only on the language's own builtin names, which the real ones are.
Addresses count instructions, where the code counts the two words of each.

**Vm, Scopes.** One action per opcode. Frames are numbered heap objects, their
`prev` link serves the scope chain and the free list as in the code, and
`freelist_push` leaves the variables alone, as the code does since its `memset`
was commented out. `Scopes` is what frames are for, by the comment of
`vm.h:10-15`: a stack in which only the innermost scope changes. `PurpleGarden`
composes Cc and Vm as main does and maps the frames to such a stack
(`ImplementsScopes`).

**Values** translates the arithmetic, comparison and builtins: integers of
`IntBits` bits that wrap around, the two divisions that trap, truncating
division, `is_some` surviving in-place arithmetic. Doubles are opaque; their
operations and the tolerance of equality are parameters.

**Options** is `SixParse` for the three types main's options have. A word of the
command line is what it looks like to `SixParse`: its form, its name and the
text it is as a value. One action per way a word is taken.

**Main** is the process: `Args_parse`, the reading of the text, the phases and
the exit. It instantiates `Options`, `FrontEnd` and `PurpleGarden`; `phase` says
which of them runs, and `exit` how the process ended: "success", "failure" (an
exit code, also of every failed ASSERT), "killed" (a trap or a NULL read) or
"undefined". `Tree` makes the compiler's trees of the parser's nodes, with the
names, literals and hashes the compiler looks at; `Token_to_value` converts the
literals. The heap the machine runs in is the bump allocator or xcgc, by `+b`,
with the arithmetic of `size_t`; `Requested` is what the machine's next step asks
of it, and a request that does not fit ends the process (`HeapExhausted`).
`argv` and the texts of the files are the inputs.

**Semantics, Conformance.** `Semantics` is a definition of the language by
recursion over the tree, without bytecode, registers, jumps or frames.
Arithmetic, comparison and `@len` are defined there anew, from the tests and
documents: an integer result is the exact one reduced to the width, a quotient is
the number that leaves a remainder of the dividend's sign, and a length is what
`tests/test.c` and `docs/lang.md` say. Shared with the machine are the records of
`Values`, the operations on doubles, which are parameters, and the two builtins
that only wrap or name a value (`Some`, `type`): the comparison does not see a
fault in those. On two points no document decides, and the reference follows the
code: a division without a quotient kills the process, and `@len` of a number, a
boolean or an option fails (`builtins.c:81`; the comment at `builtins.c:68` says
"else None").
`Conformance` says that the process prints what that definition prints, exits
the way it ends, and leaves its value in r0. `meant`, the trees a text was
written for, is a history variable: the model writes trees as texts and lets the
program under test read them.

**Mem, Arena, Bump, Xcgc.** `Arena` is the promise of `Allocator::request`,
`Bump` implements it, `Xcgc` does so except for the end of its heap. Positions
are offsets, `blocks` a history variable.

**Containers** puts a `List` and a `Builder` into the memory of the bump
allocator, where others make requests as well. `memory` is what was written to
an address, `appended` in a container a history of what its user appended.
`Builder_grow` copies the new size from the old buffer; the bytes behind `len`
are never read, so the model copies `len` bytes. An append that does not fit
after one growth ends the run as an "overrun", a list that grows as "null".

Operators marked `mutant` in the modules are plausible bugs. The check puts each
in the place of the operator it mutates to show that the property named for it
in `PROJECT.json` can fail.

## 3. Runs

| run | module, cfg | shows |
|---|---|---|
| front_end | MCFrontEnd | tokens are maximal and in order; the open lists written back are the tokens read; the parser never looks behind the tokens; it accepts exactly the texts that balance (of whatever kind of bracket) and whose heads follow a "("; every tree is one the compiler can take; numbers are their digits' value, or refused exactly beyond the limits; both end |
| cc | MCCc | asserts on registers hold, registers have one owner, are balanced and never clobbered; jumps land ahead and inside, none crosses the border of a body; calls enter finished bodies; literals load themselves; compilation ends |
| machine | MCPurpleGarden | frames are partitioned into scopes and free list; calls nest in bodies; LEAVE only inside a call; argument counts are fresh; frames implement scopes; every program terminates |
| conformance | MCConformance | from the command line to the exit code, the process does what the text means; options mean what they say in every order; the process ends |
| bump | MCBump | the bump allocator implements the arena; a builder, its copy and a list keep what was appended |
| xcgc | MCXcgc | disjoint aligned blocks; the heap is overrun by less than the alignment |
| arguments, redefining, literals, match_default, length, xcgc_heap | the cfg each names | six places where the code does not do what its comments say (section 5) |

**Bounds and why they are enough.**
*front_end*: all texts of up to three characters of every class, four over the
eleven classes that interact (quotes, names, numbers, dots, a byte above 127),
six over nested lists, up to six `@`, and numbers of up to five characters, with
a stack of 4 lists, arrays sized for 12 bytes, pages of 4 bytes and integers of 7
(mantissas of 8) bits: each array limit is exceeded by some text, numbers stand
on both sides of both limits, and each label is followed by each other.
*cc*: programs that put every expression into every position of every other, and
functions into functions, cases and conditions; 6 registers, 9 globals, 36
instructions, so that sums nested five deep, six literals and five sums in a row
exhaust each table, at every point of an expression.
*machine*: three layers of functions called from operands, arguments, conditions
and bodies, with 2 preallocated frames, so that frames come from the list, from
the allocator and from the list again; and one program for every way to end.
*conformance*: every expression two levels deep over every construct, after a
binding and a definition, written as a text and given to `+r`; the four operations
on all pairs of eight operands, among them the least integer, -1, 0, one whose
double overflows, a double and a string, with integers of 8 bits; and every command
line of up to three words out of thirteen: flags with and without a value, long
and short, known and unknown, files that exist and do not, numbers, negative
numbers and texts that are also words. 1 KB counts 4 bytes, a page 16, `size_t`
has 10 bits, a frame 16 bytes, the xcgc heap 100 and up to two rest arguments fit,
so that a heap of one page is exhausted by the third frame of a program, one of
eight KB is not, and a negative size is refused by mmap.
*bump, xcgc*: regions of one to three pages of 16 bytes and heaps of 32 and 48
bytes with requests of odd, empty and excessive size; builders that start with 3
or 4 bytes and texts of 1 and 3, so that appends fit, grow, and overrun the grown
buffer, and lists of 3 values, so that the last append grows.
The sizes the build fixes are the constants of `Config`; the proofs hold for
all their values.

**Fairness.** `WF(Next)` everywhere: the process is a single thread that keeps
running until it stops, so it takes a step whenever it can. Nothing more is
assumed. `CHECK_DEADLOCK FALSE` is there because every program really stops.

**What the passing runs leave out.** The programs of `cc` and `machine` contain
no argument that defines the function it is an argument of (the run *redefining*
shows what happens), those of *conformance* make no call while a register is
held (`Straight`, the run *arguments*), have their default case last (the run
*match_default*), no string that spells a number (the run *literals*) and no
`@len` of a string or a list (the run *length*). A
program with a heap its user chose is compared only if it did not run out of it.
`LiteralsLoaded` holds for literals that share no bucket, as the hashes of that
run give them; a collision breaks it by construction of `cc.c:113-118`, and the
run *literals* shows one the lexer makes. Of the options' names no two hashes
agree, and no other name of the run has one of theirs; with the real hash `+aay`
sets `run`.

## 4. Proofs

The theorems hold for every program, text, command line or sequence of requests,
for every hash function and for every size that satisfies the assumptions of the
modules (`NodesAssumption`, `HashAssumption`, `SizeAssumption`, ...), which TLC
evaluates on the runs. A theorem with a further hypothesis names it below.

**Registers (`CcProofs`).** `TypeCorrect` (the count of registers stays in
`1..REGISTERS`), `FreeNeverFails` (the asserts of `Ctx_free_register` hold),
`RegistersHaveOneOwner`, `RegistersBalanced`, `NothingClobbered`. None of these is
inductive alone: that an activation may free its registers depends on every
activation above it having given back its own. `Stacked` says how: the registers
of each activation are `base`, `base + 1`, ... (`Sound`, `Chained`); activations
hold disjoint ranges, in the order of the stack (`Separate`); together they cover
everything allocated (`Covered`, `Reaching`), and exactly the covered registers
are marked (`Marked`). Freeing in `compile` is then always freeing the topmost
range, which is what makes the counter and the marks agree. The rest of `IInv`
types the code, the pool and the function table (`Code`, `Pool`, `Functions`)
and bounds the patch slots (`mark <= size`). `Invariance` is proved action by
action; the lemmas before it say what a push, a return, an allocation and a free
do to `Stacked`.

**Generated code (`CcCodeProofs`).** `JumpsHaveTargets`, `CallsEnterCompleted` and
`BodiesAreSealed` speak of finished code; what is inductive speaks of code with
holes in it. `CodeLaidOut` keeps a set `B` of the bodies completed so far, of
which it says (`Layout`):

* a jump without a target belongs to an activation of `compile`, and lies further
  ahead the further in the activation is (`Pending`); every other one has a
  target ahead (`Landed`) that is not beyond the jump around a function still
  open (`Uncrossed`);
* a completed body is framed by its JMP and its LEAVE and holds no open jump
  (`Closed`), no jump crosses its edge (`Sealed`), any two bodies nest or are
  apart (`Laminar`), and every LEAVE ends one (`Leaving`);
* a body begins with the loads of its parameters, and nothing else loads
  (`Headers`).

`CallsTied` adds the function table: its entries are completed bodies (`Filled`)
or open ones (`Settled`), so what a CALL names is a completed body (`Enters`). It
has the hypothesis `NoneRedefined`: no function is defined again inside its own
body or in the arguments of a call to it. Without it the statement is false, as
the run *redefining* shows. `TreesRedefineNone` and `MachineRedefinesNone` derive
it from the trees alone: there is a `D` that gives each node the functions defined
in its tree (`Defines`), and none of them is the function around it or the one
called (`KeepsFunctions`). All programs of *cc* and *machine* are such. The proof
keeps that what a node on the stack defines is defined in a part of each node
below it (`Nested`). `CodeLaidOut`, `JumpsHaveTargets` and `OperandsExist` (no
instruction names a global, register, variable or builtin there is not; ARGS is
followed by its call) need no such hypothesis.

`LiteralsLoadThemselves` rests on `BucketsRemember`: a bucket remembers the place
of a literal of that bucket. That it is *the* literal takes the hypothesis that
two literals share a bucket only if they are the same value (`BucketsDiffer`,
which the code does not ensure: hazard `cc.c:130`, run *literals*), and that there
is one True and one False (`OneTrueOneFalse`, `common.c`).

**Machine (`PurpleGardenProofs`).** `MachineKept` says what the lists of frames
look like: two sequences without repetition lie behind `frame` and `freelist`
(`Listed`) and share out all frames (`Divided`); each active frame executes inside
the body it was entered for and in none nested in that one, and its return address
is behind a call of the frame below. With `Laminar` and `Sealed` from the
compiler this is kept by every instruction: a jump stays in its body, a CALL
enters another one at its first instruction, a LEAVE stands at the end of the
body of the frame it frees. `FramesArePartitioned`, `LeavesAreInside`, `CallsAreNested` and
`ArgCountIsFresh` follow, and `FramesImplementScopes`: the mapped frames take a
step of `Scopes`, or none, with each step of the program. All have the hypothesis
`NoneRedefined`. `MachineTyped` says that no instruction reads an operand that is
not there; it also assumes that the parameters are numbers (`NumbersClosed`: half the range of the
integers is a positive number, operations on doubles give doubles, names of types
are strings). That one quantifies over all integers and is no ASSUME that TLC
could evaluate.

**Allocators and containers.** `BumpImplementsArena` (every step of the bump
allocator is a step of the arena) and `BumpTypeCorrect` hold for every page size
that is a multiple of the alignment: the strengthening is that the region ends at
an aligned offset and that all blocks end at or before `pos`. `XcgcProofs` proves
`XcgcDisjoint` and, as `XcgcTypeCorrect`, that the heap is overrun by fewer bytes
than the alignment; that it is not overrun at all is false.
`ContainersKeepContents` takes that the buffers of the builder, its copy and the
list do not overlap, that all end at or before `pos`, and that memory holds at a
buffer's addresses what was appended; a growth then copies into bytes nobody
owns. `ContainersImplementArena` says that this does not disturb the allocator.

**Front end (`FrontEndProofs`).** The hypothesis of all is that the keyword table
gives each text one of its three types (`KeywordTypes`).

* `FrontEndTypeCorrect`: every token is a window into the text. It rests on every
  run of characters ending at the last at the byte behind the input
  (`FirstFrom`, by the well-founded order of the naturals).
* `ParserStaysInTokens`: nothing in the parser checks that. It follows from two
  facts about different components: the lexer's last token is an end marker once
  it is done (`Ended`), and the parser passes two tokens at once only if the
  second is a builtin, an operator or a name, so that what follows is still a
  token (`NotLast`).
* `LexemesAreMaximal`: every token of the text ends where its run of characters
  does, and `pos` is behind all of them.
* `ParserAcceptsBalanced`: while parsing, the depth of the stack is one more than
  the openers less the closers read so far, every head read so far had its "("
  before it (`Passed`), and the parser never stands between a "(" and its head
  (`HeadTaken`). So it refuses a closer exactly where there are more closers than
  openers, and the end exactly where something is open.
* `TreesFitCompiler`: all nodes built so far are in a set that holds the children
  of each and in which every token fits (`WellFormed`), and the open lists fit as
  far as they go (`Forest`). A finished tree's `level` is then inside that set at
  every depth.
* `ParserLosesNothing`: beside the parser runs a set of all nodes built so far
  that is closed under children and gives each one a height and what it is
  written as, from what its children are written as (`UnparseInv`). What the open
  lists are written as, one after the other, is what was read: a finished tree
  becomes the last child of the list around it, which moves a boundary between
  two parts of a sequence and nothing else (`FlatMore`). In the end `written` is
  the one function that writes every node as the set says (`WrittenIs`).
* `NumbersAreExact`: no label but that of numbers writes a number, and it writes
  digits, or digits around one dot, and at least one character (`Numeral`). On
  such a text the digits gathered from the left come to the sum of the places
  counted from the right (`Horner`); each turn of `Str_to_int64_t` is the value so
  far while it is at most `INT64_MAX - 10` and refused from then on
  (`IntStepClips`), likewise `Str_to_double` with `UINT64_MAX` (`FitsClips`). The
  assumptions are that a digit is worth 0 to 9 (`DigitAssumption`) and that the
  limits are numbers, the signed one above 9 (`WidthAssumption`).

**Options (`OptionsProofs`).** `LastUseWins` proves the `LastOneWins` of which Main
has an instance: of the words before `arg_i`, each
option has the value of its last use or its default, and the other words are in
`rest`, in order; and the word at `arg_i` is not the value of an option (`Progress`).
The hypotheses are that no two options share a name or a letter (`FlagsDiffer`)
and that no long word has the hash of an option it does not name (`Line`), since
`SixParse` compares hashes. `OptionsObeyed` (`MainProofs`) carries this over to the
whole program: main's own table satisfies `FlagsDiffer`, and no other step of Main
touches what `SixParse` keeps, so main reads its options as the command line says
them. Its hypotheses are `Line` and that `SIX_MAX_REST` is a number.

**Recursion in proofs.** `level` and `own` (which words are values) are recursive
functions, and so are `written` and the loops over a text. That there is such a
function, and what it contains, is shown by a least counterexample (`UpTo`, for
what can be said with a set), since the library's induction theorems take an operator
that no installed prover can instantiate.

**Only model-checked.** Liveness (`Terminates`, `Ends`), which is out of the
prover's reach, and `ResultAgrees`: `Semantics` and `Straight` are RECURSIVE.

## 5. Where code and comments disagree

1. *arguments* - "registers = r1 r2 r3" (`cc.c:253-257`): a call compiled while a
   register is held passes its arguments elsewhere, the callee reads r1 on. In
   `(- 1 (f 1 2))` they are in r2 and r3. The run looks at calls to functions only,
   once all arguments are stored; builtins are compiled the same way.
2. *redefining* - a call is elided if its function is empty (`cc.c:335-341`), but
   the function is looked at again after the arguments, one of which may have
   replaced it.
3. *literals* - "strings get interned by their hashes, doubles by their bits and
   ints by their integer representation" (`cc.c:77-79`): all are interned by the
   low bits of a hash alone, and a number's hash covers the character behind it,
   so `(@print "1)" 1)` prints the string twice.
4. *match_default* - a default case runs "if all other cases do not match"
   (`cc.c:206-207`): one that is written first always runs, and so does a later
   case that matches. `(@match (@print 0.5) ((= 1 1) (@print 1)))` prints both.
5. *length* - `(@len "hello")` is 5 (`tests/test.c:106`, and `docs/lang.md:62`,
   `builtins.c:66` in the same sense): `builtin_len` reads the length of a string
   and then exits, because the test for objects is no else branch
   (`builtins.c:73-83`). The run shows `(@len "s")`; a list ends the same way,
   though `(@len ())` should be 0 (`docs/lang.md:63`).
6. *xcgc_heap* - a check "necessary to guard buffer overflows" (`xcgc.c:36`) sees
   the position before it is aligned.

Smaller ones, without a run: a string is "anything between" two quotes
(`lexer.h:28`), but a byte above 127 ends it where `char` is signed, as in the x86
build (`lexer.c:306`, `Positive` in `Lexer`); `-h` is advised (`main.c:132`) though options begin
with "+"; the input is never unmapped, since `a.run` is "" and not NULL
(`main.c:262`); frames are not cleared, though a comment says so (`vm.c:50-51`,
`vm.c:71`); `SIX_MAX_REST` is 16 and 15 arguments fit (`6cl.c:338`); `help` is
asked for by every long option that begins with it (`6cl.c:383`); `+h` is asked
for help before it is looked up, so no option can have that name.

## 6. Not modelled, and the plan

Not modelled: `dis.c` and `stat.c` (output), the help pages and the text of
messages, the option types main does not use (CHAR, INT, FLOAT, DOUBLE), the
`Map` of `adts.c`, which is only declared, exhaustion of the pipeline's own arena,
which is over 160 MiB for every text below 4 MiB (`main.c:164-176`), and what a
program does after undefined behaviour. A frame fresh from the allocator is taken
to be zeroed: the bump allocator maps its pages, and the heap of xcgc is one
malloc of 1 MiB (`mem.h:15`), which the C library maps as well.

The order of work, most important behaviour first:

1. *(done)* compiler and machine: `Cc`, `Vm`, their composition, the abstract
   `Scopes`, the reference `Semantics`; the allocators; the front end.
2. *(done)* the whole process, from the command line over texts to the exit code
   (`Options`, `Main`, `Conformance`), numbers, lists and builders; the theorems
   of the front end.
3. *(done)* theorems about the generated code, the machine, the scopes,
   containers, balanced texts, fitting trees and options.
4. *(done)* the theorems about trees written back (`ParserLosesNothing`), about
   numbers (`NumbersAreExact`) and about main's options (`OptionsObeyed`).
5. What is open: `ResultAgrees`, for which the reference semantics would have to
   be a recursive function over finite trees, related to the compiled program by
   a simulation of each node kind.
