# Verification of llvmj

llvmj compiles MicroJava to LLVM. The compiler is one sequential program:
an ANTLR grammar makes a syntax tree, a tree walker with visitors runs a
semantic pass that fills a symbol table, and a second walk with other visitors
generates LLVM IR. Two tools are built on it: `mjc` writes the code, or the
tree, to a file, and `mji` runs the program. This directory holds TLA+ models of
their own logic (`src/src`, with the option parser they carry along as far as
they use it), the TLC configurations that check them, and proofs for TLAPS.

Inside a process there are no threads and no messages. What is hard there is
*recursion through shared mutable state* (the builder's insertion point, the list
of break points, the walker's table of visitors, the stack of scopes), *agreement
between two passes* that share no interface but the tree and the symbol table,
*order of declaration* that a loop in the generator silently relies on, and
*going on after an error*. Between processes the only state is in files: what is
hard there is *when* a file is read and written, and what a process that fails,
is interrupted, or was given its own output leaves for the next one.

## Inventory

| component | state | operations | what makes it correct | modules |
|---|---|---|---|---|
| Grammar, `parser/MicroJava.g` | none | builds the tree; reorders declarations to constants, classes, variables, methods | the walk order every other part assumes | bounds the inputs of all models |
| Parser and AST walker, `parser/parser.cpp` | node stack, table token type -> visitor | `visit`, `addVisitor`, `getVisitor` | an entry exchanged for the time of a visit is put back, and never outlives the object it points to | SemWalk |
| Pretty printer, `parser/ast-prettyprint.cpp` | the node data of the walk: the address of the indentation to use | two visitors, for special nodes and for the rest | the text can be read back as the tree; the indentation is that of the nesting | PrettyPrint |
| Symbol tables, `semantics/symbols.cpp` | scope stack, one map per scope, lists of classes, constants, variables, methods, array types, method types | enter/leave scope, define, resolve, automatic array and method types | lookup follows the nesting; every array type and signature is listed once, in an order usable by the generator | Symbols, Binding |
| Semantic pass, declarations, `semantics/semantics.cpp` | the symbol table, `dirty` | one visitor per declaration | an accepted program has resolved types and a proper `main` | Symbols |
| Semantic pass, control, same file | walker's table, `dirty` | LoopVisitor, UnexpectedBreakVisitor, ReturnVisitor | break only in loops, return fits its method | SemWalk |
| Semantic pass, expressions, same file | types on tree nodes, `dirty` | one visitor per kind of expression | the type on a node is the type of the value made of it later | Expressions |
| Values, types, `codegen/values.cpp` | map of LLVM types, two iterators | `initTypes`, `initClass`, `initArrayType` | terminates, makes every type after its parts | InitTypes, TypeResolution |
| Values, names, same file | `globalValues`, `localScope`, `breakPoints` | `initGlobals`, `enterFunction`, `value` | a name means what it meant in the check | Binding |
| Code generator, control, `codegen/mjmodule.cpp` | insertion point, blocks, break points | MethodVisitor, WhileVisitor, IfVisitor, BreakVisitor, RetVisitor | well-formed blocks, branches follow the source | BlockGen, BlockFlow |
| Code generator, expressions, same file | LLVM values on tree nodes | one visitor per kind of expression, `cast` | values of the right type, no missing value | Expressions |
| Standard library, `makeMain`, JIT, same file | the module | straight-line; `run` | - | names only (Binding), the outcome of `run` (Driver) |
| Driver, `codegen/codegen.cpp` | output file, optimization level | parse, open the output, check, generate, set up passes, emit | an output is of the program that was read, and no complete one is left by a process that fails | Driver, Compilation, Pipeline |
| Tools, `mjc/mjc.cpp`, `mjc/mji.cpp` | - | decide from the arguments; turn exceptions into an exit status | what is run is what the arguments say | CommandLine, Driver |
| Option parser, `mjc/ezOptionParser.hpp` | option groups, their arguments, the operands | `add`, `parse`, `gotExpected`, `isSet`, `get`, `getString`, `getInt` | each word is an option, a value or an operand, once | CommandLine |
| Build files, tests, examples, thesis | - | - | the findings quote the thesis | not modelled |

Interaction: `main` decides from its arguments what to do and calls
`executeCodegen`, which calls the parser, opens the output, calls
`checkSemantics(ast, symbols)` and `MjModule(ast, symbols)` in this order, and has
LLVM emit what the module holds; or prints the tree. `mji` does the same without
an output and runs the module. The two passes walk the same tree with
the same walker class. The generator reads the symbol table (`Values` in its
constructor, MethodVisitor for each method) and trusts it.

## Modules and their correspondence to the code

**BlockGen** - the control-flow visitors of `mjmodule.cpp`. A visitor is a
recursive function that stops in the middle to visit a child; a waiting
activation is an element of `frames` and each action is what is executed
between two visits. `code`, `layout`, `at` are the blocks, the function's block
list and the builder's insertion block. Blocks are numbered in order of creation.
Instructions are reduced to operation, branch with its successors, `ret`, and
the `ret` of the unwritten result slot. Expressions make no blocks here, since
`&&` and `||` are plain `and` instructions (`mjmodule.cpp:279-285`).

**BlockFlow** - BlockGen next to a reference semantics of structured control flow
(`live`), which knows nothing of blocks.

**SemWalk** - the semantic pass over methods, loops, ifs, breaks and returns, with
the walker's table. A table entry is the identity of the object it points to, so
that a pointer to something dead can be told. The temporary `ReturnVisitor`
(`semantics.cpp:168`) is dead while it is used: `VisitReturn` chooses between
intact and reused storage. A method whose return type is unknown is reported and its
body is not visited (`SkipMethod`).

**Pipeline** - composes SemWalk and BlockGen over one program: the first pass reads
the events of a tree walk, chosen freely as far as the tree is well formed; if
nothing was reported the second replays them. Both modules are extended, their
variables side by side, as the two passes share nothing. The program is kept (`ast`), so
that what a visitor does can be compared with the nesting at that event (`BreakReported`,
`AcceptedReturns`).

**Symbols** - scopes and declarations. A scope is a map; the chain of parents is
derived from the scope stack (the parent of a method's scope is the scope of its
arguments, which has left the stack). A type has a name, which is all the code
compares, and a home scope, which is what it really is.

**Binding** - extends Symbols with the two flat maps of the generator and compares
the declaration each pass finds for a name.

**TypeResolution** / **InitTypes** - the abstract promise of `initTypes` (each type
once, after its parts) and the two-iterator loop, with one action per iteration
of each loop. InitTypes implements TypeResolution (`ImplementsResolution`; the
refinement mapping takes `fields` and `types` to themselves). Its initial states
are all programs with `DeclarationOrder`; that the symbol table guarantees this
order is `TypesInOrder` of Binding's run, and the theorem `ReadyForTypesInvariant`.

**Expressions** - both passes on expressions and simple statements. A node's
visitors use only what its children left, so the tree is built bottom-up on a
stack of `operands`, each with the semantic type and the LLVM type of its value;
a bound on the stack, not on the tree, makes the state space finite. The index of
an array and the size of `new` are visited only by the generator; a `mark` on the
stack says so. `outcome` records the first thing that goes wrong in the generator
(a name that was never declared, a declared one that has no such field, element or
value, an undefined bitcast, ...), or that the semantic pass was left by an
exception or undefined behaviour.

**CommandLine** - `ezOptionParser` and the first half of both `main`s: an operator
from the arguments to a decision (exit with a status; or run with an input, a
type and a level). A word is a string taken as a whole; what `atoi` makes of it
is the constant `Numeral`. `DecidesRight` reads the same words a second time,
by positions instead of a state that moves along them.

**PrettyPrint** - the two visitors of `pretty_print` over any tree. `nodes` is the
walker's stack, `text` what has been written: line breaks with their blanks, single
blanks (`Blank`), and pieces. A token is *special* or not; an ordinary one is printed behind a
blank. The texts of leaves are a constant set that holds `(` and the blank, since the quotes of a
character literal are dropped before it is printed. `Read` is a reader of the output
(`ReadItem`) that knows nothing of the printer: lines and blanks are separators, of which
any number is as good as one, and words that nothing separates run together (`glued`).

**Driver** - one process after the other over a directory. `files` maps a path to
what it holds: nothing, an empty file, a source, or an output of a type, of a
program, whole or not. `phase` and `run` are the running process, one action per
call of `executeCodegen` that can fail or writes (`ParseFile`, `OpenOutput`,
`PrintTree`, `EndPrint`, `Check`, `Build`, `CreatePasses`, `Emit`, and `Jit` for mji), and
one for the return of `main` (`ExitMain`): the output is closed in `EndPrint` or `Emit`, and a
process interrupted after that and before its end leaves a complete output under a
failing status.
What becomes of a program in a pass is its *fate*, decided by the user who wrote
it: the models of the passes have the reasons. `ParseFile` reads the source once;
`Edit` and `Interrupt` may come at any time. What can be wrong outside (the output
cannot be opened, or not written to its end, or LLVM has no emitter) is chosen in
`OpenOutput` and met where the code meets it, which is without looking.

**Compilation** - what a makefile may rely on: a complete output appears only when
a process that has read its program closes it, and never in place of another
complete one. `ImplementsCompilation` of Driver is the refinement: `made` is the set
of complete outputs with their programs (`OutputsOf`), `working` the job of the
process between parsing and the closing of its output (`WorkOf`).

**MC...** modules give the constants; the modules called **..._proofs** hold
the proofs. Definitions
called a *mutant* are not part of the model: they are wrong variants of the
definition that follows them, kept to show that a property notices.

## Runs

| run | bounds | what it shows |
|---|---|---|
| `block_flow` | 10 blocks (3 control statements), 2 simple statements, breaks, returns per method; several methods in a row | termination of blocks (`BlocksTerminated`), each detached block owed once (`BlocksAttachedOnce`), `BranchTargets`, `InnermostBreak`; an instruction is reachable in the blocks iff it is in the source (`LiveIffReachable`); `OneTerminator` unless a statement is dead; the unwritten slot is read only off the end of a value method |
| `pipeline` | programs of 8 events | until something else is reported, a break is reported exactly if no `while` of the source is open around it in its method, whatever was entered and left before: a break that should be reported and is not violates it as well (`BreakReported`); accepted breaks have a target in the generator; the generator's stack is the nesting of the source; accepted returns fit. With 8 events a program has two methods, or loops and ifs nested three deep with break or return in any of them |
| `binding` | 5 names (`int`, `void`, `eol`, `len`, `main`), 5 declarations | every array type and signature listed once, before it is needed (`ArrayTypesListed`, `MethodTypesListed`); `SameBinding`: both passes agree on every name in every scope, up to the redeclaration of a predefined method; `TypesInOrder`. The names are predeclared ones, so redeclaration and hiding of them occur |
| `init_types` | all programs of 3 classes, at most 2 field types each, all array lists | never stuck, terminates, all types made unless a class has an array of itself, in which case neither it nor any later class is ever made; refinement of TypeResolution |
| `expressions` | 3 pending nodes, 1 class, 4 method types | `ValuesHaveTheirType`; no number is ever bit-cast; names, fields and arguments are found - for code that was checked entirely |
| `driver` | 2 processes, 1 edit, interrupts at any time; command lines of up to 3 words out of 9, some of 3 or 4 out of others, up to 2 for mji; trees of 6 events printed by the first process, of 2 by the second | `ArgumentsDecide`: what is done is what the words say, wherever options and values stand; `LevelsAgree` for 0 to 3 and for no other level; `ReadsBack`: the printed text gives the tree back exactly if no character literal in it is a parenthesis or a blank; `IndentFollowsNesting`; `CodeWasAccepted`; every exit with 0 after reading an input leaves the complete output of that input, wherever it comes from (`SuccessMeansOutput`); a failure leaves none but the right one, and that only if it was interrupted after closing it (`FailureLeavesNoWrongOutput`); the refinement of Compilation; every process ends unless its program is endless (`RunEnds`) |

Runs that find a disagreement between the code and what its thesis says of it:
`pipeline_return` (a value method needs no return statement), `symbols_main`
(`main` may take arguments or return a value: `&&` for `||`), `symbols_prototype`
(a method with the signature of `ord` or `chr` has no LLVM type), `binding_hiding`
(a program variable called `len` is the predefined method for the generator),
`init_types_hang` (a class with an array of itself hangs the compiler),
`expressions_index` (an undeclared name in an index is accepted, and the generator finds no
value for it).

*Why the bounds are enough.* A block visitor interacts only with its parent and
its last child through the insertion point: nests of three show every pair of
parent and child on both sides of a third, and the proofs lift the main
properties to any depth. For names, two scopes that define a name and one that
uses it are the interesting case: five declarations give all combinations of
program, arguments and locals. For types, the hazards are a class between two array
types and the reverse; three classes give every position. For expressions,
one binary operator or call over nested results needs three pending nodes.
What a process leaves can matter only to the next that uses the same file: two
processes, of any two types and inputs (an output may be the input), with an edit
before, between or inside them, are all there is to see, and the proofs lift
the properties of the files to any number. Three words hold an option, its value
and an operand in any order, four a second option that takes the operand for its
value. Six events are a special node in an ordinary one in a
special one. The level is kept to 16 bits (`UnsignedInts`, for the values of an
`unsigned int`), which is enough for the three places that read it to differ.

*Deadlock* is checked in every run; models that stop have an explicit step for it.

*Fairness.* `init_types` uses weak fairness of its one step relation,
which the single thread of the compiler executes as long as a loop has work.
`driver` uses weak fairness of `Compile`, the steps of a process that is running;
the program that mji runs, the user who edits and interrupts, and the start of
processes are under no obligation.

## Proofs

Every safety invariant and every action property that a passing run checks is a theorem,
for every value of the constants. The assumptions are those the modules state next to the
constants: bounds are numbers (`BoundsAssumption`, `DepthAssumption`, `NumClassesAssumption`),
and those of Pipeline are large enough for any program of its events (`EventsAssumption`);
`int`, `void` and `main` are identifiers (`NameAssumption`); classes are not called like
the predeclared types (`ExpressionAssumption`); the five outputs are paths other than the source
(`DriverAssumption`); numerals stand for integers (`NumeralAssumption`); the texts of
leaves are not names of events (`TextAssumption`).

`Induction_proofs` has what the others need of induction. The induction theorems of the
library take an operator as a parameter, which no installed prover can instantiate; but
induction can be said of sets. `LeastElement` comes from the well-foundedness of
strict inclusion between finite sets, `Induct` (a set of numbers with 0 and each successor is
all of them) from it; `Iteration` and `Recursion` say that a function defined by recursion
over the numbers exists and satisfies its equation. What a recursive function computes
for every input is proved by `Induct` for the set of inputs where the statement holds.

`BlockGen_proofs`, for every `MaxBlock` and `MaxSimple`:

* `InvInvariant` - the inductive invariant `Inv`: the type invariant; `FramesOK`, that
  nothing waits between two methods, and that within one the insertion block, the
  break points and the blocks owed by the waiting visitors have been created; and
  `LoopsMatch`, that an order-preserving map takes the break points one to one to
  the waiting loops whose merge blocks they are. `InnermostBreak` alone is not
  inductive: that a pop uncovers the right break point is only known if the whole
  list matches the whole stack.
* `TypeCorrect`, `InnermostBreakInvariant` - from `Inv`.
* `BlocksTerminatedInvariant` - by a second induction on top of `Inv`: a visitor
  closes the block it leaves before it moves the insertion point, and closing or
  writing a block never takes the terminator of another away.
* `BranchTargetsInvariant` - emitting and closing add no target but their own, and every
  action branches only to blocks that exist, because what the visitors and
  `breakPoints` hold has been created.
* `BlocksAttachedOnceInvariant` - from `LayoutInv`, which adds that no block is owed by
  two visitors, or twice by one (`OwedOnce`): without it a block attached by one visitor
  might still be owed by another.

`BlockFlow_proofs`, for the same bounds:

* `FlowInvariant` - `FlowInv`: the reference calls the next statement live iff the insertion
  block can be entered and is not closed; a block that a waiting visitor has still to
  fill can be entered iff the reference, as far as it has read, finds that place live
  (`ReachInv`); blocks not filled yet are empty; and while no statement was dead each
  block has one terminator. The blocks that control can enter are the least set
  closed under branches, which is what the recursive search of the model finds
  (`Induction_proofs` unfolds it); a new branch adds to that set what can be reached from
  its target, which is empty and so adds itself alone.
* `LiveIffReachableInvariant`, `OneTerminatorInvariant`, `SlotOnlyOffTheEndProved` (an action
  property) - from it. `FlowImplementsGen`: the reference only watches, so the theorems
  about BlockGen hold of the composition.

`Pipeline_proofs`, first for SemWalk alone, with methods and nests of any size:

* `SemInvariant` - `SemInv`: a method is at the bottom of the walker's stack and nowhere
  else, and every loop has saved the visitor of the next loop around it, or the
  default one (`SavedChain`). `BreakVisitorAlive` alone is not inductive: that the entry put
  back by a loop belongs to a living activation is known from the chain only.
* `BreakVisitorAliveInvariant` - from it.

Then for the composition, on top of `SemInv` and `Inv`:

* `PassesAreThemselves` - a behaviour of Pipeline is one of SemWalk and one of BlockGen, so
  the theorems of both hold of the composition.
* `PipeInvariant`, `BreakHasTargetInvariant` - the two passes share nothing but the
  program. Its nesting is the link: there is a function that says what is open before
  each event; the walker's stack is its value at the end of what has been checked,
  the frames of the generator its value at the event being generated, and where the
  event is a break that was accepted there is a loop in it, so `LoopsMatch` gives a
  break point.
* `AcceptedBreaksInvariant`, `AcceptedReturnsInvariant`, `GeneratorFollowsInvariant`,
  `PipeTypeCorrect` - from it: what was reported is a property of the nesting at an event,
  which both the walker and the reference of these invariants compute. In an accepted
  program the returns of value methods have an expression, and no expression is
  incompatible with its method.
* `BreaksReported` - an action property, in both directions: the break entry is a living loop
  visitor exactly if the walker's stack has a loop (`SemInv`), and the stack is the
  nesting of the program read so far (`PipeInv`).

`InitTypes_proofs`, for any number of classes:

* `InitTypesInvariant` - the classes that have a type are those before one iterator, the
  arrays those before the other, each array type once (`ClassesMade`, `ArraysMade`).
* `InitTypesCorrect`, `NeverStuckInvariant`, `AllTypesMadeInvariant`, `SelfArrayNeverMade` - from it.
* `InitTypesImplementsResolution` - every step of the loop is a step of TypeResolution or
  none, `DeclarationOrder` being what makes the array at the head ready in time.

`Symbols_proofs`, for any identifiers and number of declarations:

* `SymInvariant` - `SymInv`: a name that resolves to a type has the type of that name, which
  is no array and belongs to the program only if it is a class of it; array types in
  any table or record are listed. It is needed because a type travels through several
  tables: that a listed array type belongs to a class that is listed before depends on
  what names can resolve to in the scope where it was met.
* `SymTypeCorrect`, `ArrayTypesInvariant`, `MethodTypesInvariant` - from it.
* `TablesInvariant` - `TablesInv`, on top of `SymInv`, as long as no exception was thrown: the
  program's table has a class or a method of a name iff the program's vectors do, and what
  it predefines is gone from the global one only for the program itself (`NamesOK`); the
  types that each class uses are in order, and while a class is open the arrays of it that are
  listed are fields of it (`OrderOK`): without that, an array of a class could be listed
  that is none of its fields, by a field of itself not yet in its record.
* `TypesInOrderInvariant`, `SameBindingInvariant` - from it.
* `ReadyForTypesInvariant` - the symbol table, seen as InitTypes sees it (`Making`: a class is its
  place in the list, all that is no class is the primitive type), satisfies the
  `DeclarationOrder` that InitTypes assumes of its initial states.

`Expressions_proofs`, for any classes, fields, prototypes and operands:

* `ExprInvariant` - `ExprInv`: the forms of pending operands (`NodesOK`); as long as nothing
  was reported or has gone wrong, an operand without a mark below it has the value that
  its type says (`SoundInv`); a mark means that something is unchecked (`MarkInv`); a
  program that was checked entirely and accepted has lost no value (`LostInv`).
  `ValuesHaveTheirType` alone is not inductive: an operand under a mark is of no
  interest, but becomes the child of one that may be.
* `ExprTypeCorrect`, `ValuesHaveTheirTypeInvariant`, `NumbersAreNotCastInvariant`,
  `LookupsSucceedInvariant` - from it.

`Driver_proofs`, for any files, command lines, trees, programs and number of processes and
edits:

* `DriverInvariant` - `DriverInv`: from its opening until it is closed the output of the running
  process is incomplete (`OutputOpen`); between its closing and the end of the process it
  is complete if nothing was wrong outside, and if it is complete it is the output of the
  program that was read (`OutputClosed`); and a program is past a pass only with a fate that the
  pass lets through (`FateOK`). All are strengthenings: `CodeWasAccepted` says nothing of a
  process on its way, and what an end leaves is decided by the steps before it.
* `CodeWasAcceptedInvariant`, `FailuresLeaveNoWrongOutput`, `SuccessLeavesOutput` - from it.
* `ToolsImplementCompilation` - the refinement, step by step: opening the output discards what
  was there, closing it complete delivers, everything else stutters or gives up.
* `ProcessInvariant` - what a process knows of itself in each phase (`ProcessInv`); from it
  `DriverTypeCorrect` and `LevelsAgreeInvariant`.
* `ArgumentsDecideInvariant` - the option parser, which moves along the words with a state,
  and the reference, which looks at positions, come to the same: by induction along the
  words, with what the state says of the words read so far (`ReadsAllWords`, `ReadRight`).
* `ReadsBackInvariant` - `ReadInv`: as long as no leaf is a parenthesis or a blank, the reader,
  given the text so far, has rebuilt the tree so far. The other direction is
  `NoSuchSign`: no reading of any text has such a leaf, so the tree is never read back.
* `IndentFollowsNestingInvariant` - `NestInv`: the nodes on the walker's stack are, in order,
  the events whose nodes are still open, and the indentation of each is what the
  special nodes around it make it (`Nested`, `NodeAt`, `AboveIn`, `IndentIn`).

Model-checked only: liveness, `Terminates` and `RunEnds`, since the prover has no rules for
fairness and ENABLED.

## Not modelled

Lexing, error recovery and memory of ANTLR: what a tree recovered from syntax errors
does is a choice (`Recovered`). LLVM's passes and
code emission beyond whether they write; run-time values of the compiled program
(arithmetic, the widths in the size of `new T[n]`, `mjmodule.cpp:479`); the instructions of
`ord`, `chr`, `len` and `main`; the connectives `&&` and `||`
(`OrVisitor` is never registered, `mjmodule.cpp:759`); destruction of the symbol
table; designators with more than one selector. Values of constants and literals: the initial value
of an `int` saturates (`semantics.cpp:218`) where the literal wraps. Field indices: the key
is a `Twine` of dead temporaries (`values.cpp:149`), undefined behaviour of a single expression.
Of the option parser what the tools do not use: validators, other types of value, files,
usage texts. In the pretty printer the nil nodes of `ast-prettyprint.cpp:16`: they have no
token, and the walker asks for its type before any visitor runs (`parser.cpp:88-91`, `NoTree`
of Driver). The storage of a finished visitor that
`VisitReturn` may find reused is chosen anew at each return, and the properties of returns
are about the walks in which it was intact.

Known from the models but without a run of their own: constants may
be assigned (`SetVisitor` is never registered, `semantics.cpp:490`); a call of an
unknown name dereferences a NULL method type (`semantics.cpp:313-320`); null cannot
be the left operand of `==` with a reference (`symbols.cpp:76-97`), and null or
`len` with arrays needs a bitcast of a structure (`mjmodule.cpp:588-593`); `mjc` ends with
0 when the output cannot be opened or written, and when LLVM cannot emit for the machine
(`codegen.cpp:173`, `204-206`); `mjc -O 3 -h -O` is not noticed to lack a value
(`ezOptionParser.hpp:1943`); words in front of the last option are ignored.

## Plan

Done: BlockGen, BlockFlow, SemWalk, Pipeline, Symbols, Binding, InitTypes and Expressions; the tools
with CommandLine, PrettyPrint and Driver; the abstract specifications TypeResolution and
Compilation, with both refinements proved; theorems for every safety property of a passing run, and
one that joins Symbols with InitTypes.

1. Constants: the type of a constant against its literal (`semantics.cpp:199-224`,
   `values.cpp:196-215`); conditions with their connectives in Expressions.
2. Field indices of `initClass` against `FieldDesVisitor` (`values.cpp:131-152`, 337-344).
3. Driver with the models of the passes in place of the user's choice of a fate: that a
   program which Pipeline, Symbols and Expressions accept has the fate `accepted`.
