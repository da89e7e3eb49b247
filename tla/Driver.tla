------------------------------- MODULE Driver -------------------------------
(***************************************************************************)
(* The tools as their user meets them: one process after the other over a  *)
(* directory of files.  mjc: main (src/src/mjc/mjc.cpp), executeCodegen    *)
(* and class Codegen (src/src/codegen/codegen.cpp), Parser                 *)
(* (src/src/parser/parser.cpp); mji: main (src/src/mjc/mji.cpp) and        *)
(* MjModule::run.                                                          *)
(*                                                                         *)
(* The passes are reduced to what becomes of a program in them; Pipeline,  *)
(* Symbols, Expressions and InitTypes have the reasons.  A program is      *)
(*   accepted   compiled without trouble,                                  *)
(*   rejected   reported by the semantic pass,                             *)
(*   undefined  fatal for one of the passes (a NULL that is used),         *)
(*   endless    one that initTypes never returns from,                     *)
(*   malformed  not in the grammar; what the parser makes of it is a tree  *)
(*              with any of these fates, or none.                          *)
(* The user edits the source at any time, and may interrupt a process.     *)
(***************************************************************************)
EXTENDS CommandLine, PrettyPrint

CONSTANTS
    Argvs,      \* the command lines, sequences of words after the name of the tool
    Path,       \* the files of the directory
    Source,     \* the source that is edited
    Fate,       \* the fates of programs that occur
    MaxRuns,    \* bound: processes
    MaxTree,    \* bound: events of the walk when the first process prints a tree
    MaxEdits    \* bound: changes of the source

ASSUME DriverAssumption ==
    /\ Source \in Path \ {"p.ast", "p.ll", "p.bc", "p.s", "p.o"}
    /\ {"p.ast", "p.ll", "p.bc", "p.s", "p.o"} \subseteq Path
    /\ MaxRuns \in Nat
    /\ MaxEdits \in Nat
    /\ Fate \subseteq {"accepted", "rejected", "undefined", "endless", "malformed"}
    /\ \A a \in Argvs : a \in Seq(Word \cup {"mjc", "mji"}) /\ a # << >>

VARIABLES
    files,     \* path -> content
    edits,     \* changes of the source so far
    runs,      \* processes so far
    phase,     \* where the running process is
    argv,      \* its arguments, until they are dealt with
    run,       \* what it works on
    status     \* how the last process ended

toolVars == <<edits, runs, phase, argv, run, status>>
driverVars == <<files, toolVars, printVars>>

Program == [version : 0..MaxEdits, fate : Fate]
NoProgram == [version |-> 0, fate |-> "malformed"]

\* What a file holds.  Text that is no program has made is not looked into.
Absent == [holds |-> "nothing", of |-> NoProgram, whole |-> FALSE]
Empty == [Absent EXCEPT !.holds = "empty"]
Src(p) == [holds |-> "source", of |-> p, whole |-> TRUE]
Made(type, p, whole) == [holds |-> type, of |-> p, whole |-> whole]

Content == [holds : {"nothing", "empty", "source"} \cup OutputType,
            of : Program \cup {NoProgram}, whole : BOOLEAN]

\* replace_extension of the only stem there is.
OutPath(type) == [ast |-> "p.ast", llvm |-> "p.ll", bc |-> "p.bc", asm |-> "p.s",
                  obj |-> "p.o"][type]

Idle == [does |-> "nothing"]

Phase == {"idle", "args", "parse", "open", "print", "check", "build", "passes", "emit", "exit",
          "jit"}

DriverTypeOK ==
    /\ files \in [Path -> Content]
    /\ edits \in 0..MaxEdits
    /\ runs \in 0..MaxRuns
    /\ phase \in Phase
    /\ status \in {"none", "0", "1", "signal", "interrupted"}
    /\ argv # << >> <=> phase = "args"
    /\ phase \in Phase \ {"idle", "args"}
          => run.does = "run" /\ run.of \in Program \cup {NoProgram}
    /\ phase \in {"open", "print", "passes", "emit", "exit"} => run.type \in OutputType
    /\ phase # "print" => tree = << >>
    /\ PrintTypeOK

DriverInit ==
    /\ \E f \in Fate : files = [p \in Path |-> IF p = Source
                                               THEN Src([version |-> 0, fate |-> f])
                                               ELSE Absent]
    /\ edits = 0 /\ runs = 0
    /\ phase = "idle" /\ argv = << >> /\ run = Idle /\ status = "none"
    /\ PrintInit

GoTo(p) ==
    /\ phase' = p
    /\ UNCHANGED <<edits, runs, argv, status>>

\* The end of the process, whatever has ended it.
End(how) ==
    /\ phase' = "idle" /\ status' = how /\ argv' = << >> /\ run' = Idle
    /\ tree' = << >> /\ nodes' = << >> /\ text' = << >>
    /\ UNCHANGED <<edits, runs>>

\* The user saves a program, or a process is started or interrupted.
Edit ==
    /\ edits < MaxEdits
    /\ edits' = edits + 1
    /\ \E f \in Fate : files' = [files EXCEPT ![Source] = Src([version |-> edits', fate |-> f])]
    /\ UNCHANGED <<runs, phase, argv, run, status, printVars>>

\* A new process; main decides what to do from the arguments alone.
Start ==
    /\ phase = "idle"
    /\ runs < MaxRuns
    /\ runs' = runs + 1
    /\ argv' \in Argvs
    /\ run' = Decide(argv')
    /\ phase' = "args"
    /\ status' = "none"
    /\ UNCHANGED <<files, edits, printVars>>

\* Part of the text may have reached the file before all of it does.
Interrupt ==
    /\ phase # "idle"
    /\ \/ UNCHANGED files
       \/ /\ phase \in {"print", "emit"} /\ run.world \in {"fine", "full"}
          /\ files' = [files EXCEPT ![OutPath(run.type)] = Made(run.type, run.of, FALSE)]
    /\ End("interrupted")

-----------------------------------------------------------------------------
\* The values of an unsigned int, of 16 bits here to stay within TLC's integers.
UnsignedInts == 65536

\* Mutant of Levels: level 1 is forgotten in the switch.
LevelsWithoutLess(l) ==
    [machine |-> IF l \in {0, 3} THEN l ELSE 2, builder |-> l % UnsignedInts, inliner |-> l > 2]

\* The optimization level in targetMachine, and in createPasses for the
\* PassManagerBuilder, which keeps an unsigned int, and the inliner, which is
\* given a signed one.
Levels(l) ==
    [machine |-> IF l \in {0, 1, 3} THEN l ELSE 2, builder |-> l % UnsignedInts, inliner |-> l > 2]

\* main ends, or calls executeCodegen or the parser of mji.
EndArgs ==
    /\ phase = "args"
    /\ UNCHANGED files
    /\ IF run.does = "exit" THEN End(run.status)
       ELSE /\ phase' = "parse"
            /\ argv' = << >>
            /\ run' = [does |-> "run", input |-> run.input, type |-> run.type,
                       levels |-> Levels(run.level), level |-> run.level,
                       of |-> NoProgram, tree |-> "none", world |-> "fine"]
            /\ UNCHANGED <<edits, runs, status, printVars>>

\* The trees that ANTLR can make of a malformed program.
Recovered == {"accepted", "rejected", "undefined", "endless", "none"}

\* Mutant of ParseFile: mji goes the way of mjc.
ParseFileForOutput ==
    /\ phase = "parse"
    /\ run.input \in Path /\ files[run.input] # Absent
    /\ run' = [run EXCEPT !.of = files[run.input].of, !.tree = "accepted"]
    /\ GoTo("open")
    /\ UNCHANGED <<files, printVars>>

\* Parser::parse: a file that cannot be opened is an exception, syntax errors
\* are counted and printed, and the tree is returned.
ParseFile ==
    /\ phase = "parse"
    /\ UNCHANGED files
    /\ IF run.input \notin Path \/ files[run.input] = Absent
       THEN End("1")
       ELSE LET content == files[run.input]
                p == IF content.holds = "source" THEN content.of ELSE NoProgram
            IN  /\ \E t \in (IF p.fate = "malformed" THEN Recovered ELSE {p.fate}) :
                      run' = [run EXCEPT !.of = p, !.tree = t]
                /\ GoTo(IF run.type = "run" THEN "check" ELSE "open")
                /\ UNCHANGED printVars

\* What may be wrong outside: the output cannot be opened, or not written to
\* the end, or LLVM cannot emit code for the machine.
World == {"fine", "closed", "full", "no emitter"}

\* Codegen::nativeEnabled
Native == run.type \in {"asm", "obj"}

\* Mutant of OpenOutput: the file is opened for appending.
OpenOutputAppend ==
    /\ phase = "open"
    /\ files' = files
    /\ \E w \in World : run' = [run EXCEPT !.world = w]
    /\ GoTo(IF run.type = "ast" THEN "print" ELSE "check")
    /\ UNCHANGED printVars

\* Mutant of OpenOutput: the extension is not looked up.
OpenOutputDefault ==
    /\ phase = "open"
    /\ \E w \in World :
         /\ run' = [run EXCEPT !.world = w]
         /\ files' = IF w = "closed" THEN files ELSE [files EXCEPT !["p.o"] = Empty]
    /\ GoTo(IF run.type = "ast" THEN "print" ELSE "check")
    /\ UNCHANGED printVars

\* filebuf::open truncates the file, or fails without anybody looking.
OpenOutput ==
    /\ phase = "open"
    /\ \E w \in World :
         /\ w = "no emitter" => Native
         /\ run' = [run EXCEPT !.world = w]
         /\ files' = IF w = "closed" THEN files
                     ELSE [files EXCEPT ![OutPath(run.type)] = Empty]
    /\ GoTo(IF run.type = "ast" THEN "print" ELSE "check")
    /\ UNCHANGED printVars

\* The last of the text is written and the file is closed, when executeCodegen
\* returns or before; nobody tests the state of the stream.
Flush ==
    IF run.world = "closed" THEN UNCHANGED files
    ELSE files' = [files EXCEPT ![OutPath(run.type)] =
                       Made(run.type, run.of, run.world # "full")]

\* The trees that later processes print are kept to one node.
PrintTree ==
    /\ phase = "print"
    /\ run.tree # "none"
    /\ Walk(IF runs = 1 THEN MaxTree ELSE 2)
    /\ UNCHANGED <<files, toolVars>>

EndPrint ==
    /\ phase = "print"
    /\ Printed
    /\ Flush
    /\ tree' = << >> /\ nodes' = << >> /\ text' = << >>
    /\ GoTo("exit")
    /\ UNCHANGED run

\* Walking no tree at all.
NoTree ==
    /\ phase \in {"print", "check"}
    /\ run.tree = "none"
    /\ UNCHANGED files
    /\ End("signal")

\* Mutant of Check: the pass ends without looking at dirty.
CheckIgnoresDirty ==
    /\ phase = "check"
    /\ run.tree # "none"
    /\ UNCHANGED <<files, run, printVars>>
    /\ GoTo("build")

\* Mutant of Check: main ends with 0 whatever it has caught.
CheckSwallowed ==
    /\ phase = "check"
    /\ run.tree # "none"
    /\ UNCHANGED files
    /\ \/ run.tree = "rejected" /\ End("0")
       \/ run.tree = "undefined" /\ End("signal")
       \/ run.tree # "rejected" /\ GoTo("build") /\ UNCHANGED <<run, printVars>>

\* checkSemantics: it throws at the end if an error was reported, and main
\* turns what it throws into its exit status.
Check ==
    /\ phase = "check"
    /\ run.tree # "none"
    /\ UNCHANGED files
    /\ \/ run.tree = "rejected" /\ End("1")
       \/ run.tree = "undefined" /\ End("signal")
       \/ run.tree # "rejected" /\ GoTo("build") /\ UNCHANGED <<run, printVars>>

\* MjModule::MjModule.  For an endless program there is no end of this step.
Build ==
    /\ phase = "build"
    /\ UNCHANGED files
    /\ \/ run.tree = "undefined" /\ End("signal")
       \/ /\ run.tree \notin {"undefined", "endless"}
          /\ GoTo(IF run.type = "run" THEN "jit" ELSE "passes")
          /\ UNCHANGED <<run, printVars>>

\* Codegen::createPasses, with targetMachine; a machine that LLVM has no
\* target for leaves a NULL that is used.
CreatePasses ==
    /\ phase = "passes"
    /\ UNCHANGED files
    /\ \/ End("signal")
       \/ GoTo("emit") /\ UNCHANGED <<run, printVars>>

\* Codegen::emitCode and the end of executeCodegen: only for a native output an
\* emitter is needed, and when there is none "pass fail" is printed.
Emit ==
    /\ phase = "emit"
    /\ IF Native /\ run.world = "no emitter"
       THEN UNCHANGED files
       ELSE Flush
    /\ GoTo("exit")
    /\ UNCHANGED <<run, printVars>>

\* main returns 0 when executeCodegen has returned.
ExitMain ==
    /\ phase = "exit"
    /\ UNCHANGED files
    /\ End("0")

\* MjModule::run: the program may also fail, or never return.
Jit ==
    /\ phase = "jit"
    /\ UNCHANGED files
    /\ \E how \in {"0", "signal"} : End(how)

Compile == \/ EndArgs \/ ParseFile \/ OpenOutput \/ PrintTree \/ EndPrint
           \/ NoTree \/ Check \/ Build \/ CreatePasses \/ Emit \/ ExitMain

Stopped == phase = "idle" /\ runs = MaxRuns /\ UNCHANGED driverVars

DriverNext == Edit \/ Start \/ Interrupt \/ Compile \/ Jit \/ Stopped

DriverSpec == DriverInit /\ [][DriverNext]_driverVars

\* A process that has work goes on with it; the program that mji runs, the
\* user's edits and interrupts are under no obligation.
FairDriverSpec == DriverSpec /\ WF_driverVars(Compile)

-----------------------------------------------------------------------------
\* What is run, and with which values, is what the arguments say.
ArgumentsDecide == phase = "args" => DecidesRight(argv, run)

\* A level of 0 to 3 (README-sr.md:42) is the level of the machine code, of the
\* pass builder and of the inliner alike.  No other value is refused, and
\* none is the same for all three.
LevelsAgree ==
    phase = "emit" =>
        (run.level \in 0..3 <=> /\ run.levels.machine = run.level
                                /\ run.levels.builder = run.level
                                /\ run.levels.inliner = (run.level = 3))

Ends == phase # "idle" /\ phase' = "idle"

\* However mjc comes to end with 0 once it has an input file: if the world was
\* fine, the directory holds a complete output, of the program that was read
\* when the process started.
SuccessMeansOutput ==
    [][Ends /\ status' = "0" /\ run.does = "run" /\ run.type # "run" /\ run.world = "fine"
         => files'[OutPath(run.type)] = Made(run.type, run.of, TRUE)]_driverVars

\* A process that fails has touched nothing, or there is no complete output
\* any more, not even the one it found.  The exception is an interrupt that
\* comes after the output was closed and before main has returned: then it is
\* there and it is right, though the status says otherwise.
FailureLeavesNoWrongOutput ==
    [][Ends /\ status' # "0" =>
         IF phase \in {"args", "parse", "open"} \/ run.type = "run" \/ run.world = "closed"
         THEN UNCHANGED files
         ELSE files'[OutPath(run.type)].whole =>
                /\ phase = "exit" /\ status' = "interrupted"
                /\ files'[OutPath(run.type)] = Made(run.type, run.of, TRUE)]_driverVars

\* There is never code, complete or not, of a program that the semantic pass
\* rejects, or that the generator cannot translate.  For a malformed program
\* this depends on what the parser recovered.
CodeWasAccepted ==
    \A p \in Path : files[p].holds \in OutputType \ {"ast"} =>
        files[p].of.fate \in {"accepted", "malformed"}

\* A process of mjc works from the parser's end until its output is closed;
\* complete outputs are what the files hold.
Compiling == {"open", "print", "check", "build", "passes", "emit"}
Complete(type) == files[OutPath(type)].holds = type /\ files[OutPath(type)].whole
OutputsOf == {[type |-> type, of |-> files[OutPath(type)].of] :
                 type \in {t \in OutputType : Complete(t)}}
WorkOf == IF phase \in Compiling /\ run.type # "run"
          THEN {[type |-> run.type, of |-> run.of]} ELSE {}

Makefile == INSTANCE Compilation WITH
                Job <- [type : OutputType, of : Program \cup {NoProgram}],
                made <- OutputsOf,
                working <- WorkOf

\* The tools keep the promise of Compilation, through rejected and fatal
\* programs, interrupts, edits, and inputs that are outputs themselves.
ImplementsCompilation == Makefile!CompilationSpec

\* Every compilation ends, unless its program is endless.
RunEnds == phase \in Phase \ {"idle", "jit"} ~>
              phase \in {"idle", "jit"} \/ (phase = "build" /\ run.tree = "endless")
=============================================================================
