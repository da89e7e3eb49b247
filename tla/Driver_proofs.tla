---------------------------- MODULE Driver_proofs ----------------------------
(***************************************************************************)
(* What the tools make of their command lines, what they promise about     *)
(* their outputs, and how a tree is printed: for any set of command lines, *)
(* files, programs and trees, and any number of processes and edits.       *)
(***************************************************************************)
EXTENDS Driver, Induction_proofs, SequenceTheorems

-----------------------------------------------------------------------------
(* The inductive invariant.                                                *)

\* The phases of a process that has dealt with its arguments.
Working == {"parse", "open", "print", "check", "build", "passes", "emit", "exit", "jit"}

\* What Decide can say.
Decision(d) ==
    \/ d.does = "exit" /\ d.status \in {"0", "1"}
    \/ d.does = "run" /\ d.type \in OutputType \cup {"run"}

RunFields == {"does", "input", "type", "levels", "level", "of", "tree", "world"}

FilesOK == files \in [Path -> Content] /\ edits \in 0..MaxEdits /\ phase \in Phase

RunOK ==
    /\ phase = "args" => Decision(run)
    /\ phase \in Working =>
         /\ run = [f \in RunFields |-> run[f]]
         /\ run.type \in OutputType \cup {"run"}
         /\ run.of \in Program \cup {NoProgram}
         /\ run.tree \in Recovered

\* Each phase is reached only for the types of output that go through it.
PlaceOK ==
    /\ phase = "open" => run.type # "run"
    /\ phase = "print" => run.type = "ast"
    /\ phase \in {"check", "build", "passes", "emit", "jit"} => run.type # "ast"
    /\ phase \in {"passes", "emit", "exit"} => run.type # "run"
    /\ phase = "jit" => run.type = "run"

\* From its opening until it is closed the output of the process is not
\* complete.
OutputOpen ==
    phase \in {"print", "check", "build", "passes", "emit"}
      /\ run.type # "run" /\ run.world # "closed"
    => ~files[OutPath(run.type)].whole

\* When it is closed it is complete if the world was fine, and if it is
\* complete it is the output that was asked for.
OutputClosed ==
    phase = "exit" /\ run.world # "closed" =>
        LET output == files[OutPath(run.type)]
        IN  run.world = "fine" \/ output.whole => output = Made(run.type, run.of, TRUE)

\* What a pass has let through is not what it stops at.
FateOK ==
    /\ phase \in Working \ {"parse"} =>
         run.of.fate = "malformed" \/ run.tree = run.of.fate
    /\ phase \in {"build", "passes", "emit", "jit"} => run.tree # "rejected"
    /\ phase \in {"passes", "emit", "jit"} => run.tree \notin {"undefined", "endless"}

DriverInv ==
    FilesOK /\ RunOK /\ PlaceOK /\ OutputOpen /\ OutputClosed /\ FateOK /\ CodeWasAccepted

-----------------------------------------------------------------------------
(* Facts about paths, contents and decisions.                              *)

\* The outputs are files of the directory, none is the source, and each type
\* has its own.
LEMMA OutPaths ==
    /\ \A t \in OutputType : OutPath(t) \in Path /\ OutPath(t) # Source
    /\ \A t, u \in OutputType : OutPath(t) = OutPath(u) => t = u
  BY DriverAssumption DEF OutPath, OutputType

\* Every content is of a program, whatever it holds.
LEMMA Contents ==
    /\ Absent \in Content /\ Empty \in Content
    /\ \A v \in 0..MaxEdits, f \in Fate : Src([version |-> v, fate |-> f]) \in Content
    /\ \A t \in OutputType, p \in Program \cup {NoProgram}, w \in BOOLEAN :
         Made(t, p, w) \in Content
  BY DEF Content, Absent, Empty, Src, Made, Program, NoProgram

\* The fates that a program can have.
LEMMA ProgramFates ==
    \A p \in Program \cup {NoProgram} :
        p.fate \in {"accepted", "rejected", "undefined", "endless", "malformed"}
<1>1. \A p \in Program : p.fate \in Fate
  BY DEF Program
<1>2. NoProgram.fate = "malformed"
  BY DEF NoProgram
<1>3. QED
  BY <1>1, <1>2, DriverAssumption

\* A main function ends, or starts a process with a type that exists.
LEMMA Decisions == \A a \in Argvs : Decision(Decide(a))
<1>1. ASSUME NEW p PROVE Decision(Refuse(p))
  BY DEF Refuse, Exit, Decision
<1>2. ASSUME NEW a PROVE Decision(MjcMain(a)) /\ Decision(MjiMain(a))
  BY <1>1 DEF MjcMain, MjiMain, Decision
<1>3. QED
  BY <1>2 DEF Decide

-----------------------------------------------------------------------------
LEMMA DriverInvInit == DriverInit => DriverInv
  <1> SUFFICES ASSUME DriverInit PROVE DriverInv
    OBVIOUS
  <1>1. PICK f \in Fate : files = [p \in Path |-> IF p = Source
                                     THEN Src([version |-> 0, fate |-> f]) ELSE Absent]
    BY DEF DriverInit
  <1>2. FilesOK
    BY <1>1, Contents, DriverAssumption DEF FilesOK, DriverInit, Phase
  <1>3. RunOK /\ PlaceOK /\ OutputOpen /\ OutputClosed /\ FateOK
    BY DEF DriverInit, RunOK, PlaceOK, OutputOpen, OutputClosed, FateOK, Working
  <1>4. CodeWasAccepted
    BY <1>1 DEF CodeWasAccepted, Src, Absent, OutputType
  <1>5. QED
    BY <1>2, <1>3, <1>4 DEF DriverInv

-----------------------------------------------------------------------------
(* The steps, one lemma for each group that disturbs the same parts.       *)

\* A process that has ended owes nothing.
LEMMA EndKeeps ==
    ASSUME DriverInv, NEW how, End(how), files' \in [Path -> Content], CodeWasAccepted'
    PROVE  DriverInv'
<1>1. phase' = "idle" /\ edits' = edits
  BY DEF End
<1>2. QED
  BY <1>1
     DEF DriverInv, FilesOK, Phase, RunOK, PlaceOK, OutputOpen, OutputClosed, FateOK, Working

\* If no file changes, nothing changes in what they are of.
LEMMA SameFiles ==
    ASSUME DriverInv, UNCHANGED files
    PROVE  files' \in [Path -> Content] /\ CodeWasAccepted'
  BY DEF DriverInv, FilesOK, CodeWasAccepted

\* What the invariant speaks of has not changed.
LEMMA SameStays ==
    ASSUME DriverInv, UNCHANGED <<files, edits, phase, run>>
    PROVE  DriverInv'
<1>1. FilesOK' /\ CodeWasAccepted'
  BY SameFiles DEF DriverInv, FilesOK
<1>2. RunOK'
  BY DEF DriverInv, RunOK
<1>3. PlaceOK' /\ FateOK'
  BY DEF DriverInv, PlaceOK, FateOK
<1>4. OutputOpen' /\ OutputClosed'
  BY DEF DriverInv, OutputOpen, OutputClosed
<1>5. QED
  BY <1>1, <1>2, <1>3, <1>4 DEF DriverInv

\* Writing to the output of a program that may have code.
LEMMA WritingKeeps ==
    ASSUME DriverInv, phase \in Working, run.type # "run",
           NEW w \in BOOLEAN,
           files' = [files EXCEPT ![OutPath(run.type)] = Made(run.type, run.of, w)],
           run.type = "ast" \/ run.of.fate \in {"accepted", "malformed"}
    PROVE  files' \in [Path -> Content] /\ CodeWasAccepted'
<1>1. /\ run.type \in OutputType /\ run.of \in Program \cup {NoProgram}
      /\ files \in [Path -> Content]
  BY DEF DriverInv, RunOK, FilesOK
<1>2. OutPath(run.type) \in Path /\ Made(run.type, run.of, w) \in Content
  BY <1>1, OutPaths, Contents
<1>3. files' \in [Path -> Content]
  BY <1>1, <1>2
<1>4. ASSUME NEW p \in Path, files'[p].holds \in OutputType \ {"ast"}
      PROVE  files'[p].of.fate \in {"accepted", "malformed"}
  <2>1. CASE p = OutPath(run.type)
    <3>1. files'[p] = Made(run.type, run.of, w)
      BY <1>1, <1>2, <2>1
    <3>2. QED
      BY <1>4, <3>1 DEF Made
  <2>2. CASE p # OutPath(run.type)
    <3>1. files'[p] = files[p]
      BY <1>1, <1>2, <2>2
    <3>2. QED
      BY <1>4, <3>1 DEF DriverInv, CodeWasAccepted
  <2>3. QED
    BY <2>1, <2>2
<1>5. QED
  BY <1>3, <1>4 DEF CodeWasAccepted

\* Only a program that may have code gets as far as its emission.
LEMMA EmittedFate ==
    ASSUME DriverInv, phase \in {"passes", "emit"}
    PROVE  run.of.fate \in {"accepted", "malformed"}
<1>1. run.of \in Program \cup {NoProgram}
  BY DEF DriverInv, RunOK, Working
<1>2. run.of.fate \in {"accepted", "rejected", "undefined", "endless", "malformed"}
  BY <1>1, ProgramFates
<1>3. QED
  BY <1>2 DEF DriverInv, FateOK, Working

LEMMA EditKeeps == ASSUME DriverInv, Edit PROVE DriverInv'
<1>1. PICK f \in Fate :
        files' = [files EXCEPT ![Source] = Src([version |-> edits', fate |-> f])]
  BY DEF Edit
<1>2. Source \in Path /\ edits' \in 0..MaxEdits /\ files \in [Path -> Content]
  BY DriverAssumption DEF Edit, DriverInv, FilesOK
<1>3. Src([version |-> edits', fate |-> f]) \in Content
  BY <1>2, Contents
<1>4. FilesOK'
  BY <1>1, <1>2, <1>3 DEF Edit, DriverInv, FilesOK
<1>5. \A p \in Path : p # Source => files'[p] = files[p]
  BY <1>1, <1>2
<1>6. files'[Source].holds = "source"
  BY <1>1, <1>2 DEF Src
<1>7. CodeWasAccepted'
  BY <1>5, <1>6 DEF DriverInv, CodeWasAccepted, OutputType
<1>8. RunOK' /\ PlaceOK' /\ FateOK'
  BY DEF Edit, DriverInv, RunOK, PlaceOK, FateOK
<1>9. OutputOpen' /\ OutputClosed'
  <2>1. phase \in Working /\ run.type # "run" => run.type \in OutputType
    BY DEF DriverInv, RunOK
  <2>2. phase \in Working /\ run.type # "run" =>
          files'[OutPath(run.type)] = files[OutPath(run.type)]
    BY <1>5, <2>1, OutPaths
  <2>3. UNCHANGED <<phase, run>>
    BY DEF Edit
  <2>4. OutputOpen'
    BY <2>2, <2>3 DEF DriverInv, OutputOpen, Working
  <2>5. OutputClosed'
    BY <2>2, <2>3 DEF DriverInv, PlaceOK, OutputClosed, Working
  <2>6. QED
    BY <2>4, <2>5
<1>10. QED
  BY <1>4, <1>7, <1>8, <1>9 DEF DriverInv

LEMMA StartKeeps == ASSUME DriverInv, Start PROVE DriverInv'
<1>1. Decision(run')
  BY Decisions DEF Start
<1>2. FilesOK' /\ CodeWasAccepted'
  BY DEF Start, DriverInv, FilesOK, CodeWasAccepted, Phase
<1>3. QED
  BY <1>1, <1>2
     DEF Start, DriverInv, RunOK, PlaceOK, OutputOpen, OutputClosed, FateOK, Working

LEMMA InterruptKeeps == ASSUME DriverInv, Interrupt PROVE DriverInv'
<1>1. End("interrupted")
  BY DEF Interrupt
<1>2. CASE UNCHANGED files
  BY <1>1, <1>2, SameFiles, EndKeeps
<1>3. CASE /\ phase \in {"print", "emit"}
           /\ files' = [files EXCEPT ![OutPath(run.type)] =
                            Made(run.type, run.of, FALSE)]
  <2>1. run.type # "run" /\ phase \in Working
    BY <1>3 DEF DriverInv, PlaceOK, Working
  <2>2. run.type = "ast" \/ run.of.fate \in {"accepted", "malformed"}
    BY <1>3, EmittedFate DEF DriverInv, PlaceOK
  <2>3. files' \in [Path -> Content] /\ CodeWasAccepted'
    BY <1>3, <2>1, <2>2, WritingKeeps
  <2>4. QED
    BY <1>1, <2>3, EndKeeps
<1>4. QED
  BY <1>2, <1>3 DEF Interrupt

LEMMA EndArgsKeeps == ASSUME DriverInv, EndArgs PROVE DriverInv'
<1>1. files' \in [Path -> Content] /\ CodeWasAccepted' /\ phase = "args"
  BY SameFiles DEF EndArgs
<1>2. CASE run.does = "exit"
  BY <1>1, <1>2, EndKeeps DEF EndArgs
<1>3. CASE run.does = "run"
  <2>1. /\ phase' = "parse" /\ edits' = edits
        /\ run' = [does |-> "run", input |-> run.input, type |-> run.type,
                   levels |-> Levels(run.level), level |-> run.level,
                   of |-> NoProgram, tree |-> "none", world |-> "fine"]
    BY <1>3 DEF EndArgs
  <2>2. run.type \in OutputType \cup {"run"}
    BY <1>1, <1>3 DEF DriverInv, RunOK, Decision
  <2>3. RunOK'
    BY <2>1, <2>2 DEF RunOK, RunFields, Recovered, Working
  <2>4. QED
    BY <1>1, <2>1, <2>3
       DEF DriverInv, FilesOK, Phase, PlaceOK, OutputOpen, OutputClosed, FateOK, Working
<1>4. QED
  BY <1>1, <1>2, <1>3 DEF DriverInv, RunOK, Decision

LEMMA ParseFileKeeps == ASSUME DriverInv, ParseFile PROVE DriverInv'
<1>1. /\ files' \in [Path -> Content] /\ CodeWasAccepted'
      /\ phase = "parse" /\ UNCHANGED files
  BY SameFiles DEF ParseFile
<1>2. CASE run.input \notin Path \/ files[run.input] = Absent
  BY <1>1, <1>2, EndKeeps DEF ParseFile
<1>3. CASE ~(run.input \notin Path \/ files[run.input] = Absent)
  <2> DEFINE content == files[run.input]
             program == IF content.holds = "source" THEN content.of ELSE NoProgram
  <2>1. program \in Program \cup {NoProgram}
    <3>1. content \in Content
      BY <1>3 DEF DriverInv, FilesOK
    <3>2. QED
      BY <3>1 DEF Content
  <2>2. GoTo(IF run.type = "run" THEN "check" ELSE "open")
    BY <1>3 DEF ParseFile
  <2>3. PICK p \in Program \cup {NoProgram}, t \in Recovered :
          /\ run' = [run EXCEPT !.of = p, !.tree = t]
          /\ p.fate = "malformed" \/ t = p.fate
    <3>1. \E t \in (IF program.fate = "malformed" THEN Recovered ELSE {program.fate}) :
            run' = [run EXCEPT !.of = program, !.tree = t]
      BY <1>3 DEF ParseFile
    <3>2. program.fate \in Recovered \cup {"malformed"}
      BY <2>1, ProgramFates DEF Recovered
    <3> HIDE DEF program
    <3>3. QED
      BY <2>1, <3>1, <3>2
  <2>5. /\ run = [f \in RunFields |-> run[f]]
        /\ run.type \in OutputType \cup {"run"}
    BY <1>1 DEF DriverInv, RunOK, Working
  <2>6. /\ run' = [f \in RunFields |-> run'[f]]
        /\ run'.of = p /\ run'.tree = t /\ run'.type = run.type
    BY <2>3, <2>5 DEF RunFields
  <2>7. phase' = IF run.type = "run" THEN "check" ELSE "open"
    BY <2>2 DEF GoTo
  <2>8. RunOK' /\ FateOK'
    BY <2>3, <2>5, <2>6, <2>7 DEF RunOK, FateOK, Working
  <2>9. PlaceOK' /\ OutputOpen' /\ OutputClosed'
    BY <2>6, <2>7 DEF PlaceOK, OutputOpen, OutputClosed
  <2>10. FilesOK'
    BY <1>1, <2>2, <2>7 DEF DriverInv, FilesOK, GoTo, Phase
  <2>11. QED
    BY <1>1, <2>8, <2>9, <2>10 DEF DriverInv
<1>4. QED
  BY <1>2, <1>3

LEMMA OpenOutputKeeps == ASSUME DriverInv, OpenOutput PROVE DriverInv'
<1>1. phase = "open" /\ run.type \in OutputType
  BY DEF OpenOutput, DriverInv, RunOK, PlaceOK, Working
<1>2. PICK w \in World :
        /\ run' = [run EXCEPT !.world = w]
        /\ files' = IF w = "closed" THEN files
                    ELSE [files EXCEPT ![OutPath(run.type)] = Empty]
  BY DEF OpenOutput
<1>3. /\ run' = [f \in RunFields |-> run'[f]] /\ run'.world = w
      /\ run'.of = run.of /\ run'.tree = run.tree /\ run'.type = run.type
  BY <1>1, <1>2 DEF DriverInv, RunOK, Working, RunFields
<1>4. phase' = (IF run.type = "ast" THEN "print" ELSE "check") /\ edits' = edits
  BY DEF OpenOutput, GoTo
<1>5. OutPath(run.type) \in Path /\ Empty \in Content /\ files \in [Path -> Content]
  BY <1>1, OutPaths, Contents DEF DriverInv, FilesOK
<1>6. files' \in [Path -> Content]
  BY <1>2, <1>5
<1>7. w # "closed" => files'[OutPath(run.type)] = Empty
  BY <1>2, <1>5
<1>8. \A p \in Path : files'[p] = files[p] \/ files'[p] = Empty
  BY <1>2, <1>5
<1>9. CodeWasAccepted'
  BY <1>8 DEF DriverInv, CodeWasAccepted, Empty, Absent, OutputType
<1>10. OutputOpen' /\ OutputClosed'
  BY <1>3, <1>4, <1>7 DEF OutputOpen, OutputClosed, Empty, Absent
<1>11. RunOK' /\ FateOK'
  BY <1>1, <1>3, <1>4 DEF DriverInv, RunOK, FateOK, Working
<1>12. PlaceOK'
  BY <1>1, <1>3, <1>4 DEF PlaceOK, OutputType
<1>13. QED
  BY <1>4, <1>6, <1>9, <1>10, <1>11, <1>12 DEF DriverInv, FilesOK, Phase

\* What is written at the end: nothing, or the output of the process.
LEMMA FlushWrites ==
    ASSUME DriverInv, phase \in Working, run.type # "run", Flush,
           run.type = "ast" \/ run.of.fate \in {"accepted", "malformed"}
    PROVE  files' \in [Path -> Content] /\ CodeWasAccepted'
<1>1. CASE run.world = "closed"
  BY <1>1, SameFiles DEF Flush
<1>2. CASE run.world # "closed"
  <2>1. (run.world # "full") \in BOOLEAN
    OBVIOUS
  <2>2. files' = [files EXCEPT ![OutPath(run.type)] =
                      Made(run.type, run.of, run.world # "full")]
    BY <1>2 DEF Flush
  <2>3. QED
    BY <2>1, <2>2, WritingKeeps
<1>3. QED
  BY <1>1, <1>2

\* Nothing of the process changes but that main is about to return.
LEMMA ClosingKeeps ==
    ASSUME DriverInv, phase \in Working \ {"parse"}, run.type # "run",
           phase' = "exit", UNCHANGED <<edits, run>>,
           files' \in [Path -> Content], CodeWasAccepted', OutputClosed'
    PROVE  DriverInv'
<1>1. FilesOK' /\ OutputOpen'
  BY DEF DriverInv, FilesOK, OutputOpen, Phase
<1>2. RunOK' /\ PlaceOK' /\ FateOK'
  BY DEF DriverInv, RunOK, PlaceOK, FateOK, Working
<1>3. QED
  BY <1>1, <1>2 DEF DriverInv

\* Flushing and closing leaves the output that was asked for, or none that is
\* complete.
LEMMA FlushCloses ==
    ASSUME DriverInv, phase \in Working, run.type # "run", Flush, UNCHANGED run
    PROVE  OutputClosed'
<1>1. OutPath(run.type) \in Path /\ files \in [Path -> Content]
  BY OutPaths DEF DriverInv, RunOK, FilesOK
<1>2. run.world # "closed" =>
        files'[OutPath(run.type)] = Made(run.type, run.of, run.world # "full")
  BY <1>1 DEF Flush
<1>3. Made(run.type, run.of, run.world # "full").whole = (run.world # "full")
  BY DEF Made
<1>4. ASSUME run.world # "closed"
      PROVE  LET output == files'[OutPath(run.type)]
             IN  run.world = "fine" \/ output.whole => output = Made(run.type, run.of, TRUE)
  <2>1. CASE run.world = "full"
    BY <1>2, <1>3, <2>1
  <2>2. CASE run.world # "full"
    <3>1. (run.world # "full") = TRUE
      BY <2>2
    <3>2. QED
      BY <1>2, <1>4, <3>1
  <2>3. QED
    BY <2>1, <2>2
<1>5. QED
  BY <1>4 DEF OutputClosed

LEMMA PrintKeeps ==
    ASSUME DriverInv, PrintTree \/ EndPrint \/ NoTree
    PROVE  DriverInv'
<1>1. CASE PrintTree
  <2>1. UNCHANGED <<files, edits, phase, run>>
    BY <1>1 DEF PrintTree, toolVars
  <2>2. QED
    BY <2>1, SameStays
<1>2. CASE EndPrint
  <2>1. phase \in Working \ {"parse"} /\ run.type = "ast"
    BY <1>2 DEF EndPrint, DriverInv, PlaceOK, Working
  <2>2. Flush /\ phase' = "exit" /\ UNCHANGED <<edits, run>>
    BY <1>2 DEF EndPrint, GoTo
  <2>3. files' \in [Path -> Content] /\ CodeWasAccepted' /\ OutputClosed'
    BY <2>1, <2>2, FlushWrites, FlushCloses
  <2>4. QED
    BY <2>1, <2>2, <2>3, ClosingKeeps
<1>3. CASE NoTree
  BY <1>3, SameFiles, EndKeeps DEF NoTree
<1>4. QED
  BY <1>1, <1>2, <1>3

LEMMA PassKeeps ==
    ASSUME DriverInv, Check \/ Build \/ CreatePasses
    PROVE  DriverInv'
<1>1. UNCHANGED files
  BY DEF Check, Build, CreatePasses
<1>2. files' \in [Path -> Content] /\ CodeWasAccepted'
  BY <1>1, SameFiles
<1>3. CASE \E how : End(how)
  BY <1>2, <1>3, EndKeeps
<1>4. CASE UNCHANGED run /\ \/ Check /\ run.tree # "rejected" /\ GoTo("build")
                            \/ /\ Build /\ run.tree \notin {"undefined", "endless"}
                               /\ GoTo(IF run.type = "run" THEN "jit" ELSE "passes")
                            \/ CreatePasses /\ GoTo("emit")
  <2>1. /\ phase \in {"check", "build", "passes"}
        /\ phase' \in {"build", "jit", "passes", "emit"}
        /\ phase = "check" => phase' = "build" /\ run.tree # "rejected"
        /\ phase = "build" => /\ run.tree \notin {"undefined", "endless"}
                              /\ phase' = IF run.type = "run" THEN "jit" ELSE "passes"
        /\ phase = "passes" => phase' = "emit"
        /\ edits' = edits /\ run' = run
    BY <1>4 DEF Check, Build, CreatePasses, GoTo
  <2>2. FilesOK' /\ OutputOpen' /\ OutputClosed'
    BY <1>1, <1>2, <2>1 DEF DriverInv, FilesOK, OutputOpen, OutputClosed, Phase
  <2>3. RunOK' /\ FateOK'
    BY <2>1 DEF DriverInv, RunOK, FateOK, Working
  <2>4. PlaceOK'
    BY <2>1 DEF DriverInv, PlaceOK
  <2>5. QED
    BY <1>2, <2>2, <2>3, <2>4 DEF DriverInv
<1>5. QED
  BY <1>3, <1>4 DEF Check, Build, CreatePasses

LEMMA EmitKeeps == ASSUME DriverInv, Emit PROVE DriverInv'
<1>1. /\ phase \in Working \ {"parse"} /\ run.type # "run"
      /\ run.of.fate \in {"accepted", "malformed"}
  BY EmittedFate DEF Emit, DriverInv, PlaceOK, Working
<1>2. phase = "emit" /\ phase' = "exit" /\ UNCHANGED <<edits, run>>
  BY DEF Emit, GoTo
<1>3. CASE Flush
  <2>1. files' \in [Path -> Content] /\ CodeWasAccepted' /\ OutputClosed'
    BY <1>1, <1>2, <1>3, FlushWrites, FlushCloses
  <2>2. QED
    BY <1>1, <1>2, <2>1, ClosingKeeps
<1>4. CASE run.world = "no emitter" /\ UNCHANGED files
  <2>1. ~files[OutPath(run.type)].whole
    BY <1>1, <1>2, <1>4 DEF DriverInv, OutputOpen
  <2>2. OutputClosed'
    BY <1>2, <1>4, <2>1 DEF OutputClosed
  <2>3. QED
    BY <1>1, <1>2, <1>4, <2>2, SameFiles, ClosingKeeps
<1>5. QED
  BY <1>3, <1>4 DEF Emit

LEMMA ExitKeeps == ASSUME DriverInv, ExitMain PROVE DriverInv'
  BY SameFiles, EndKeeps DEF ExitMain

LEMMA JitKeeps == ASSUME DriverInv, Jit PROVE DriverInv'
  BY SameFiles, EndKeeps DEF Jit

LEMMA DriverInvStep == DriverInv /\ [DriverNext]_driverVars => DriverInv'
<1> SUFFICES ASSUME DriverInv, [DriverNext]_driverVars PROVE DriverInv'
  OBVIOUS
<1>1. CASE Edit
  BY <1>1, EditKeeps
<1>2. CASE Start
  BY <1>2, StartKeeps
<1>3. CASE Interrupt
  BY <1>3, InterruptKeeps
<1>4. CASE Compile
  BY <1>4, EndArgsKeeps, ParseFileKeeps, OpenOutputKeeps, PrintKeeps, PassKeeps, EmitKeeps,
     ExitKeeps
     DEF Compile
<1>5. CASE Jit
  BY <1>5, JitKeeps
<1>6. CASE UNCHANGED driverVars
  BY <1>6, SameStays DEF driverVars, toolVars
<1>7. QED
  BY <1>1, <1>2, <1>3, <1>4, <1>5, <1>6 DEF DriverNext, Stopped

-----------------------------------------------------------------------------
(* Theorems.                                                               *)

\* The inductive invariant holds of every behaviour: processes, edits and
\* interrupts in any number and order (executeCodegen, main).
THEOREM DriverInvariant == DriverSpec => []DriverInv
<1>1. QED
  BY DriverInvInit, DriverInvStep, PTL DEF DriverSpec

\* There is never code of a program that the semantic pass rejects or that the
\* generator cannot translate (checkSemantics throws before MjModule is made).
THEOREM CodeWasAcceptedInvariant == DriverSpec => []CodeWasAccepted
<1>1. DriverInv => CodeWasAccepted
  BY DEF DriverInv
<1>2. QED
  BY <1>1, DriverInvariant, PTL

-----------------------------------------------------------------------------
(* How a process ends.                                                     *)

\* What FailureLeavesNoWrongOutput says of the last step of a failing process.
NoWrongOutput ==
    IF phase \in {"args", "parse", "open"} \/ run.type = "run" \/ run.world = "closed"
    THEN UNCHANGED files
    ELSE files'[OutPath(run.type)].whole =>
           /\ phase = "exit" /\ status' = "interrupted"
           /\ files'[OutPath(run.type)] = Made(run.type, run.of, TRUE)

\* A process that ends without writing has left nothing complete, unless it
\* is interrupted after it has closed its output.
LEMMA NothingWritten ==
    ASSUME DriverInv, phase # "idle", UNCHANGED files,
           phase = "exit" => status' = "interrupted"
    PROVE  NoWrongOutput
<1>1. phase = "jit" => run.type = "run"
  BY DEF DriverInv, PlaceOK
<1>2. CASE phase = "exit"
  BY <1>2 DEF NoWrongOutput, DriverInv, OutputClosed
<1>3. CASE phase # "exit"
  BY <1>1, <1>3 DEF NoWrongOutput, DriverInv, FilesOK, OutputOpen, Phase
<1>4. QED
  BY <1>2, <1>3

\* Writing to the output of the process makes it what is written.
LEMMA OutputWritten ==
    ASSUME DriverInv, phase \in {"print", "emit"}, NEW c,
           files' = [files EXCEPT ![OutPath(run.type)] = c]
    PROVE  files'[OutPath(run.type)] = c
<1>1. run.type \in OutputType
  BY DEF DriverInv, RunOK, PlaceOK, Working, OutputType
<1>2. OutPath(run.type) \in Path /\ files \in [Path -> Content]
  BY <1>1, OutPaths DEF DriverInv, FilesOK
<1>3. QED
  BY <1>2

LEMMA FailureStep ==
    ASSUME DriverInv, DriverNext, Ends, status' # "0"
    PROVE  NoWrongOutput
<1>1. phase # "idle" /\ phase' = "idle"
  BY DEF Ends
<1>2. CASE Edit \/ Start \/ Stopped
  BY <1>1, <1>2 DEF Edit, Start, Stopped, driverVars, toolVars
<1>3. CASE Interrupt
  <2>1. CASE UNCHANGED files
    BY <1>1, <1>3, <2>1, NothingWritten DEF Interrupt, End
  <2>2. CASE /\ phase \in {"print", "emit"}
             /\ files' = [files EXCEPT ![OutPath(run.type)] =
                              Made(run.type, run.of, FALSE)]
             /\ run.world # "closed"
    <3>1. files'[OutPath(run.type)] = Made(run.type, run.of, FALSE)
      BY <2>2, OutputWritten
    <3>2. run.type # "run"
      BY <2>2 DEF DriverInv, PlaceOK
    <3>3. QED
      BY <2>2, <3>1, <3>2 DEF NoWrongOutput, Made
  <2>3. QED
    BY <1>3, <2>1, <2>2 DEF Interrupt
<1>4. CASE EndArgs \/ ParseFile \/ NoTree \/ Check \/ Build \/ CreatePasses \/ Jit
  <2>1. UNCHANGED files /\ phase # "exit"
    BY <1>4 DEF EndArgs, ParseFile, NoTree, Check, Build, CreatePasses, Jit
  <2>2. QED
    BY <1>1, <2>1, NothingWritten
<1>5. CASE OpenOutput \/ PrintTree \/ EndPrint \/ Emit
  BY <1>1, <1>5 DEF OpenOutput, PrintTree, EndPrint, Emit, GoTo, toolVars
<1>6. CASE ExitMain
  BY <1>6 DEF ExitMain, End
<1>7. QED
  BY <1>2, <1>3, <1>4, <1>5, <1>6 DEF DriverNext, Compile

\* With 0 a process that has an input ends only when main returns, or the
\* program that mji runs does.
LEMMA SuccessStep ==
    ASSUME DriverInv, DriverNext, Ends, status' = "0",
           run.does = "run", run.type # "run", run.world = "fine"
    PROVE  files'[OutPath(run.type)] = Made(run.type, run.of, TRUE)
<1>1. ExitMain
  <2>1. phase # "idle" /\ phase' = "idle"
    BY DEF Ends
  <2>2. ~Edit /\ ~Start /\ ~Stopped /\ ~PrintTree
    BY <2>1 DEF Edit, Start, Stopped, PrintTree, toolVars, driverVars
  <2>3. ~Interrupt /\ ~NoTree /\ ~ParseFile /\ ~Check /\ ~Build /\ ~CreatePasses
    BY <2>1 DEF Interrupt, NoTree, ParseFile, Check, Build, CreatePasses, End, GoTo
  <2>4. ~EndArgs /\ ~OpenOutput /\ ~EndPrint /\ ~Emit
    BY <2>1 DEF EndArgs, OpenOutput, EndPrint, Emit, GoTo
  <2>5. ~Jit
    BY DEF Jit, DriverInv, PlaceOK
  <2>6. QED
    BY <2>2, <2>3, <2>4, <2>5 DEF DriverNext, Compile
<1>2. phase = "exit" /\ UNCHANGED files
  BY <1>1 DEF ExitMain
<1>3. QED
  BY <1>2 DEF DriverInv, OutputClosed

\* A process that fails, or is interrupted, has touched nothing or has left
\* no complete output, whatever it had found there: the output is open for
\* truncation before the first pass can fail (executeCodegen).  An interrupt
\* between the closing and the return from main leaves the right one.
THEOREM FailuresLeaveNoWrongOutput == DriverSpec => FailureLeavesNoWrongOutput
<1>1. ASSUME DriverInv, [DriverNext]_driverVars
      PROVE  [Ends /\ status' # "0" =>
                IF phase \in {"args", "parse", "open"} \/ run.type = "run" \/ run.world = "closed"
                THEN UNCHANGED files
                ELSE files'[OutPath(run.type)].whole =>
                       /\ phase = "exit" /\ status' = "interrupted"
                       /\ files'[OutPath(run.type)] = Made(run.type, run.of, TRUE)]_driverVars
  BY <1>1, FailureStep DEF NoWrongOutput
<1>2. QED
  BY <1>1, DriverInvariant, PTL DEF DriverSpec, FailureLeavesNoWrongOutput

\* However mjc ends with 0 once it has an input, in a world where the file can
\* be written and code emitted there is a complete output of the program that
\* was read, whatever edits came in between (executeCodegen, main).
THEOREM SuccessLeavesOutput == DriverSpec => SuccessMeansOutput
<1>1. ASSUME DriverInv, [DriverNext]_driverVars
      PROVE  [Ends /\ status' = "0" /\ run.does = "run" /\ run.type # "run"
                   /\ run.world = "fine"
                => files'[OutPath(run.type)] = Made(run.type, run.of, TRUE)]_driverVars
  BY <1>1, SuccessStep
<1>2. QED
  BY <1>1, DriverInvariant, PTL DEF DriverSpec, SuccessMeansOutput

-----------------------------------------------------------------------------
(* The tools implement Compilation: what a makefile may rely on.           *)

(* The complete outputs, and what the writing of a file does to them.      *)

\* Which jobs are complete, one by one.
LEMMA OutputsHold ==
    \A t \in OutputType : \A p :
        [type |-> t, of |-> p] \in OutputsOf
            <=> Complete(t) /\ files[OutPath(t)].of = p
<1> SUFFICES ASSUME NEW t \in OutputType, NEW p
             PROVE  [type |-> t, of |-> p] \in OutputsOf
                        <=> Complete(t) /\ files[OutPath(t)].of = p
  OBVIOUS
<1>1. ASSUME [type |-> t, of |-> p] \in OutputsOf
      PROVE  Complete(t) /\ files[OutPath(t)].of = p
  <2>1. PICK u \in {u \in OutputType : Complete(u)} :
          [type |-> t, of |-> p] = [type |-> u, of |-> files[OutPath(u)].of]
    BY <1>1 DEF OutputsOf
  <2>2. u = t /\ files[OutPath(u)].of = p
    BY <2>1
  <2>3. QED
    BY <2>1, <2>2
<1>2. ASSUME Complete(t), files[OutPath(t)].of = p
      PROVE  [type |-> t, of |-> p] \in OutputsOf
  BY <1>2 DEF OutputsOf
<1>3. QED
  BY <1>1, <1>2

\* Every member of OutputsOf has such a form.
LEMMA OutputsForm ==
    \A m \in OutputsOf : /\ m.type \in OutputType
                         /\ m = [type |-> m.type, of |-> files[OutPath(m.type)].of]
                         /\ Complete(m.type)
<1> SUFFICES ASSUME NEW m \in OutputsOf
             PROVE  /\ m.type \in OutputType
                    /\ m = [type |-> m.type, of |-> files[OutPath(m.type)].of]
                    /\ Complete(m.type)
  OBVIOUS
<1>1. PICK t \in {t \in OutputType : Complete(t)} :
        m = [type |-> t, of |-> files[OutPath(t)].of]
  BY DEF OutputsOf
<1>2. m.type = t
  BY <1>1
<1>3. QED
  BY <1>1, <1>2

\* Files that are no outputs do not matter.
LEMMA OutputsSame ==
    ASSUME \A t \in OutputType : files'[OutPath(t)] = files[OutPath(t)]
    PROVE  OutputsOf' = OutputsOf
<1>1. \A t \in OutputType : Complete(t)' <=> Complete(t)
  BY DEF Complete
<1>2. QED
  BY <1>1 DEF OutputsOf

\* Writing to one output leaves the others as they are.
LEMMA OthersSame ==
    ASSUME files \in [Path -> Content], NEW type \in OutputType, NEW c,
           files' = [files EXCEPT ![OutPath(type)] = c]
    PROVE  /\ files'[OutPath(type)] = c
           /\ \A t \in OutputType \ {type} : files'[OutPath(t)] = files[OutPath(t)]
  BY OutPaths

\* An output that is overwritten by something incomplete is gone.
LEMMA OutputsDiscard ==
    ASSUME files \in [Path -> Content], NEW type \in OutputType, NEW c,
           files' = [files EXCEPT ![OutPath(type)] = c],
           c.holds # type \/ ~c.whole
    PROVE  OutputsOf' = {m \in OutputsOf : m.type # type}
<1>1. /\ files'[OutPath(type)] = c
      /\ \A t \in OutputType \ {type} : files'[OutPath(t)] = files[OutPath(t)]
  BY OthersSame
<1>2. ~Complete(type)'
  BY <1>1 DEF Complete
<1>3. \A t \in OutputType \ {type} : Complete(t)' <=> Complete(t)
  BY <1>1 DEF Complete
<1>4. ASSUME NEW m \in OutputsOf'
      PROVE  m \in OutputsOf /\ m.type # type
  <2>1. PICK t \in OutputType :
          Complete(t)' /\ m = [type |-> t, of |-> files'[OutPath(t)].of]
    BY DEF OutputsOf
  <2>2. t # type /\ m.type = t
    BY <1>2, <2>1
  <2>3. Complete(t) /\ m = [type |-> t, of |-> files[OutPath(t)].of]
    BY <1>1, <1>3, <2>1, <2>2
  <2>4. QED
    BY <2>2, <2>3 DEF OutputsOf
<1>5. ASSUME NEW m \in OutputsOf, m.type # type
      PROVE  m \in OutputsOf'
  <2>1. /\ m.type \in OutputType \ {type} /\ Complete(m.type)
        /\ m = [type |-> m.type, of |-> files[OutPath(m.type)].of]
    BY <1>5, OutputsForm
  <2>2. Complete(m.type)' /\ m = [type |-> m.type, of |-> files'[OutPath(m.type)].of]
    BY <1>1, <1>3, <2>1
  <2>3. QED
    BY <2>1, <2>2 DEF OutputsOf
<1>6. QED
  BY <1>4, <1>5

\* Without a complete output of a type there is nothing to discard.
LEMMA NoOutputOf ==
    ASSUME NEW type, type \in OutputType => ~Complete(type)
    PROVE  /\ \A m \in OutputsOf : m.type # type
           /\ {m \in OutputsOf : m.type # type} = OutputsOf
  BY OutputsForm

\* A complete output that is written where none was is one more.
LEMMA OutputsDeliver ==
    ASSUME files \in [Path -> Content], NEW type \in OutputType, NEW p,
           files' = [files EXCEPT ![OutPath(type)] = Made(type, p, TRUE)],
           ~Complete(type)
    PROVE  OutputsOf' = OutputsOf \cup {[type |-> type, of |-> p]}
<1>1. /\ files'[OutPath(type)] = Made(type, p, TRUE)
      /\ \A t \in OutputType \ {type} : files'[OutPath(t)] = files[OutPath(t)]
  BY OthersSame
<1>2. Complete(type)' /\ files'[OutPath(type)].of = p
  BY <1>1 DEF Complete, Made
<1>3. \A t \in OutputType \ {type} : Complete(t)' <=> Complete(t)
  BY <1>1 DEF Complete
<1>4. ASSUME NEW m \in OutputsOf'
      PROVE  m \in OutputsOf \cup {[type |-> type, of |-> p]}
  <2>1. PICK t \in OutputType :
          Complete(t)' /\ m = [type |-> t, of |-> files'[OutPath(t)].of]
    BY DEF OutputsOf
  <2>2. CASE t = type
    BY <1>2, <2>1, <2>2
  <2>3. CASE t # type
    <3>1. Complete(t) /\ m = [type |-> t, of |-> files[OutPath(t)].of]
      BY <1>1, <1>3, <2>1, <2>3
    <3>2. QED
      BY <3>1 DEF OutputsOf
  <2>4. QED
    BY <2>2, <2>3
<1>5. ASSUME NEW m \in OutputsOf \cup {[type |-> type, of |-> p]}
      PROVE  m \in OutputsOf'
  <2>1. CASE m = [type |-> type, of |-> p]
    BY <1>2, <2>1 DEF OutputsOf
  <2>2. CASE m \in OutputsOf
    <3>1. /\ m.type \in OutputType \ {type} /\ Complete(m.type)
          /\ m = [type |-> m.type, of |-> files[OutPath(m.type)].of]
      BY <2>2, OutputsForm
    <3>2. Complete(m.type)' /\ m = [type |-> m.type, of |-> files'[OutPath(m.type)].of]
      BY <1>1, <1>3, <3>1
    <3>3. QED
      BY <3>1, <3>2 DEF OutputsOf
  <2>3. QED
    BY <1>5, <2>1, <2>2
<1>6. QED
  BY <1>4, <1>5

-----------------------------------------------------------------------------
(* Each step is one of Compilation, or none.                               *)

JobStep == [Makefile!CompilationNext]_<<OutputsOf, WorkOf>>

\* A process that has ended, or is about to, works on nothing.
LEMMA WorkIsOver == (\E how : End(how)) \/ phase' = "exit" => WorkOf' = {}
  BY DEF End, WorkOf, Compiling

\* Work that is over without a new complete output has been given up.
LEMMA GivesUp ==
    ASSUME WorkOf' = {}, OutputsOf' = OutputsOf
    PROVE  JobStep
  BY DEF JobStep, Makefile!CompilationNext, Makefile!GiveUp

\* While it writes, a process works on its output, which is not complete.
LEMMA AtWork ==
    ASSUME DriverInv, phase \in {"print", "emit"}
    PROVE  /\ files \in [Path -> Content]
           /\ run.type \in OutputType
           /\ WorkOf = {[type |-> run.type, of |-> run.of]}
           /\ run.world # "closed" => ~Complete(run.type)
<1>1. run.type \in OutputType /\ run.type # "run" /\ files \in [Path -> Content]
  BY DEF DriverInv, RunOK, PlaceOK, FilesOK, Working, OutputType
<1>2. WorkOf = {[type |-> run.type, of |-> run.of]}
  BY <1>1 DEF WorkOf, Compiling
<1>3. run.world # "closed" => ~Complete(run.type)
  BY <1>1 DEF DriverInv, OutputOpen, Complete
<1>4. QED
  BY <1>1, <1>2, <1>3

\* Writing part of an output is giving up, writing all of it is delivering.
LEMMA WritingIsDelivering ==
    ASSUME DriverInv, phase \in {"print", "emit"}, run.world # "closed",
           NEW w \in BOOLEAN, WorkOf' = {},
           files' = [files EXCEPT ![OutPath(run.type)] = Made(run.type, run.of, w)]
    PROVE  JobStep
<1>1. /\ files \in [Path -> Content] /\ run.type \in OutputType
      /\ WorkOf = {[type |-> run.type, of |-> run.of]}
      /\ ~Complete(run.type)
  BY AtWork
<1>2. CASE w = FALSE
  <2>1. ~Made(run.type, run.of, w).whole
    BY <1>2 DEF Made
  <2>2. OutputsOf' = {m \in OutputsOf : m.type # run.type}
    BY <1>1, <2>1, OutputsDiscard
  <2>3. QED
    BY <1>1, <2>2, NoOutputOf, GivesUp
<1>3. CASE w = TRUE
  <2>1. OutputsOf' = OutputsOf \cup {[type |-> run.type, of |-> run.of]}
    BY <1>1, <1>3, OutputsDeliver
  <2>2. \A j \in WorkOf : \A m \in OutputsOf : m.type # j.type
    BY <1>1, NoOutputOf
  <2>3. QED
    BY <1>1, <2>1, <2>2 DEF JobStep, Makefile!CompilationNext, Makefile!Deliver
<1>4. QED
  BY <1>2, <1>3

\* The steps that leave all files as they are and end the process, or do not
\* change what it works on.
LEMMA SameFilesStep ==
    ASSUME UNCHANGED files, (\E how : End(how)) \/ phase' = "exit" \/ WorkOf' = WorkOf
    PROVE  JobStep
<1>1. OutputsOf' = OutputsOf
  BY OutputsSame
<1>2. QED
  BY <1>1, WorkIsOver, GivesUp DEF JobStep

LEMMA EditStep == ASSUME DriverInv, Edit PROVE JobStep
<1>1. PICK c : files' = [files EXCEPT ![Source] = c]
  BY DEF Edit
<1>2. OutputsOf' = OutputsOf
  <2>1. files \in [Path -> Content]
    BY DEF DriverInv, FilesOK
  <2>2. \A t \in OutputType : files'[OutPath(t)] = files[OutPath(t)]
    BY <1>1, <2>1, OutPaths
  <2>3. QED
    BY <2>2, OutputsSame
<1>3. WorkOf' = WorkOf
  BY DEF Edit, WorkOf
<1>4. QED
  BY <1>2, <1>3 DEF JobStep

LEMMA InterruptStep == ASSUME DriverInv, Interrupt PROVE JobStep
<1>1. End("interrupted")
  BY DEF Interrupt
<1>2. CASE UNCHANGED files
  BY <1>1, <1>2, SameFilesStep
<1>3. CASE /\ phase \in {"print", "emit"} /\ run.world # "closed"
           /\ files' = [files EXCEPT ![OutPath(run.type)] =
                            Made(run.type, run.of, FALSE)]
  BY <1>1, <1>3, WorkIsOver, WritingIsDelivering
<1>4. QED
  BY <1>2, <1>3 DEF Interrupt

LEMMA ParseFileStep == ASSUME DriverInv, DriverInv', ParseFile PROVE JobStep
<1>1. CASE \E how : End(how)
  BY <1>1, SameFilesStep DEF ParseFile
<1>2. CASE /\ UNCHANGED files /\ GoTo(IF run.type = "run" THEN "check" ELSE "open")
           /\ \E p, t : run' = [run EXCEPT !.of = p, !.tree = t]
  <2>1. /\ phase = "parse" /\ run = [f \in RunFields |-> run[f]]
        /\ run.type \in OutputType \cup {"run"}
    BY DEF ParseFile, DriverInv, RunOK, Working
  <2>2. phase' = IF run.type = "run" THEN "check" ELSE "open"
    BY <1>2 DEF GoTo
  <2>3. run'.type = run.type
    BY <1>2, <2>1 DEF RunFields
  <2>4. WorkOf = {}
    BY <2>1 DEF WorkOf, Compiling
  <2>5. CASE run.type = "run"
    <3>1. WorkOf' = {}
      BY <2>3, <2>5 DEF WorkOf
    <3>2. QED
      BY <1>2, <2>4, <3>1, SameFilesStep
  <2>6. CASE run.type # "run"
    <3> DEFINE job == [type |-> run'.type, of |-> run'.of]
    <3>1. WorkOf' = {job}
      BY <2>2, <2>3, <2>6 DEF WorkOf, Compiling
    <3>2. job \in [type : OutputType, of : Program \cup {NoProgram}]
      BY <2>1, <2>2, <2>3, <2>6 DEF DriverInv, RunOK, Working
    <3>3. OutputsOf' = OutputsOf
      BY <1>2, OutputsSame
    <3> HIDE DEF job
    <3>4. QED
      BY <2>4, <3>1, <3>2, <3>3 DEF JobStep, Makefile!CompilationNext, Makefile!Begin
  <2>7. QED
    BY <2>5, <2>6
<1>3. QED
  BY <1>1, <1>2 DEF ParseFile

LEMMA OpenOutputStep == ASSUME DriverInv, OpenOutput PROVE JobStep
<1>1. /\ phase = "open" /\ run = [f \in RunFields |-> run[f]]
      /\ run.type \in OutputType /\ run.type # "run"
      /\ files \in [Path -> Content]
  BY DEF OpenOutput, DriverInv, RunOK, PlaceOK, FilesOK, Working
<1>2. PICK w \in World :
        /\ run' = [run EXCEPT !.world = w]
        /\ files' = IF w = "closed" THEN files
                    ELSE [files EXCEPT ![OutPath(run.type)] = Empty]
  BY DEF OpenOutput
<1>3. phase' = IF run.type = "ast" THEN "print" ELSE "check"
  BY DEF OpenOutput, GoTo
<1>4. run'.type = run.type /\ run'.of = run.of
  BY <1>1, <1>2 DEF RunFields
<1>5. WorkOf' = WorkOf /\ WorkOf = {[type |-> run.type, of |-> run.of]}
  BY <1>1, <1>3, <1>4 DEF WorkOf, Compiling
<1>6. CASE w = "closed"
  BY <1>2, <1>5, <1>6, SameFilesStep
<1>7. CASE w # "closed"
  <2>1. ~Empty.whole
    BY DEF Empty, Absent
  <2>2. OutputsOf' = {m \in OutputsOf : m.type # run.type}
    BY <1>1, <1>2, <1>7, <2>1, OutputsDiscard
  <2>3. QED
    BY <1>5, <2>2 DEF JobStep, Makefile!CompilationNext, Makefile!Discard
<1>8. QED
  BY <1>6, <1>7

LEMMA PassStep ==
    ASSUME DriverInv, Check \/ Build \/ CreatePasses
    PROVE  JobStep
<1>1. UNCHANGED files
  BY DEF Check, Build, CreatePasses
<1>2. CASE \E how : End(how)
  BY <1>1, <1>2, SameFilesStep
<1>3. CASE /\ UNCHANGED run /\ phase \in {"check", "build", "passes"}
           /\ phase' = "jit" => run.type = "run"
           /\ phase' \in {"build", "jit", "passes", "emit"}
  <2>1. WorkOf' = WorkOf
    BY <1>3 DEF WorkOf, Compiling
  <2>2. QED
    BY <1>1, <2>1, SameFilesStep
<1>4. QED
  BY <1>2, <1>3 DEF Check, Build, CreatePasses, GoTo

LEMMA WriteStep == ASSUME DriverInv, EndPrint \/ Emit PROVE JobStep
<1>1. phase \in {"print", "emit"} /\ phase' = "exit"
  BY DEF EndPrint, Emit, GoTo
<1>2. CASE UNCHANGED files
  BY <1>1, <1>2, SameFilesStep
<1>3. CASE Flush /\ run.world # "closed"
  <2>1. files' = [files EXCEPT ![OutPath(run.type)] =
                      Made(run.type, run.of, run.world # "full")]
    BY <1>3 DEF Flush
  <2>2. (run.world # "full") \in BOOLEAN
    OBVIOUS
  <2>3. QED
    BY <1>1, <1>3, <2>1, <2>2, WorkIsOver, WritingIsDelivering
<1>4. QED
  BY <1>2, <1>3 DEF EndPrint, Emit, Flush

\* The steps before a process has read its input, and the printing of a tree,
\* are none of Compilation's.
LEMMA QuietStep ==
    ASSUME DriverInv, Start \/ EndArgs \/ PrintTree \/ NoTree \/ ExitMain \/ Jit \/ Stopped
    PROVE  JobStep
<1>1. UNCHANGED files
  BY DEF Start, EndArgs, PrintTree, NoTree, ExitMain, Jit, Stopped, driverVars
<1>2. CASE NoTree \/ ExitMain \/ Jit
  BY <1>1, <1>2, SameFilesStep DEF NoTree, ExitMain, Jit
<1>3. CASE PrintTree \/ Stopped
  <2>1. WorkOf' = WorkOf
    BY <1>3 DEF PrintTree, Stopped, driverVars, toolVars, WorkOf
  <2>2. QED
    BY <1>1, <2>1, SameFilesStep
<1>4. CASE Start \/ EndArgs
  <2>1. phase \in {"idle", "args"} /\ phase' \in {"idle", "args", "parse"}
    BY <1>4 DEF Start, EndArgs, End
  <2>2. WorkOf' = WorkOf
    BY <2>1 DEF WorkOf, Compiling
  <2>3. QED
    BY <1>1, <2>2, SameFilesStep
<1>5. QED
  BY <1>2, <1>3, <1>4

LEMMA RefinementInit == DriverInit => Makefile!CompilationInit
<1> SUFFICES ASSUME DriverInit PROVE OutputsOf = {} /\ WorkOf = {}
  BY DEF Makefile!CompilationInit
<1>1. \A p \in Path : files[p].holds \in {"source", "nothing"}
  BY DEF DriverInit, Src, Absent
<1>2. \A t \in OutputType : ~Complete(t)
  BY <1>1, OutPaths DEF Complete, OutputType
<1>3. OutputsOf = {}
  BY <1>2, OutputsForm
<1>4. WorkOf = {}
  BY DEF DriverInit, WorkOf, Compiling
<1>5. QED
  BY <1>3, <1>4

LEMMA RefinementStep ==
    DriverInv /\ DriverInv' /\ [DriverNext]_driverVars
        => [Makefile!CompilationNext]_<<OutputsOf, WorkOf>>
<1> SUFFICES ASSUME DriverInv, DriverInv', [DriverNext]_driverVars PROVE JobStep
  BY DEF JobStep
<1>1. CASE Edit \/ Interrupt \/ ParseFile \/ OpenOutput
  BY <1>1, EditStep, InterruptStep, ParseFileStep, OpenOutputStep
<1>2. CASE Check \/ Build \/ CreatePasses
  BY <1>2, PassStep
<1>3. CASE EndPrint \/ Emit
  BY <1>3, WriteStep
<1>4. CASE Start \/ EndArgs \/ PrintTree \/ NoTree \/ ExitMain \/ Jit \/ Stopped
  BY <1>4, QuietStep
<1>5. CASE UNCHANGED driverVars
  <2>1. UNCHANGED files /\ WorkOf' = WorkOf
    BY <1>5 DEF driverVars, toolVars, WorkOf
  <2>2. QED
    BY <2>1, SameFilesStep
<1>6. QED
  BY <1>1, <1>2, <1>3, <1>4, <1>5 DEF DriverNext, Compile

\* mjc and mji implement Compilation: a complete output appears only when it is
\* closed by a process that has read its program, and only after the older output of
\* the same type has been destroyed (executeCodegen opens before it checks).
THEOREM ToolsImplementCompilation == DriverSpec => ImplementsCompilation
<1>1. QED
  BY RefinementInit, RefinementStep, DriverInvariant, PTL
     DEF DriverSpec, ImplementsCompilation, Makefile!CompilationSpec

-----------------------------------------------------------------------------
(* The type of the state, and the level of optimization.                   *)

\* What a process keeps about itself, and what a printing one has printed.
Item == {Line(n) : n \in Nat} \cup
        {Piece(s) : s \in Text \cup {Blank, "(", ")", "special", "inner"}}

PrintOK ==
    /\ tree \in Seq({"special", "inner", "close"} \cup Text)
    /\ nodes \in Seq(Node)
    /\ text \in Seq(Item)

ToolsOK ==
    /\ runs \in 0..MaxRuns
    /\ status \in {"none", "0", "1", "signal", "interrupted"}
    /\ argv # << >> <=> phase = "args"
    /\ phase \in Working => run.does = "run"
    /\ phase # "print" => tree = << >>

\* The levels are those of the number that the command line has.
LevelOK ==
    /\ phase = "args" /\ run.does = "run" => run.level \in Int
    /\ phase \in Working => run.level \in Int /\ run.levels = Levels(run.level)

\* A first node is moved in twice as far as the others.
LEMMA IndentsAreNumbers == ASSUME PrintOK PROVE NodeIndent \in Nat
<1>1. CASE nodes = << >>
  BY <1>1 DEF NodeIndent
<1>2. CASE nodes # << >>
  <2>1. Last(nodes) \in Node
    BY <1>2 DEF PrintOK, Last
  <2>2. Last(nodes).indent \in Nat /\ Last(nodes).children \in Nat
    BY <2>1 DEF Node
  <2>3. QED
    BY <1>2, <2>2 DEF NodeIndent, INDENT_INC
<1>3. QED
  BY <1>1, <1>2

LEMMA PrintInitOK == PrintInit => PrintOK
  BY DEF PrintInit, PrintOK

LEMMA CountedOK == ASSUME PrintOK PROVE Counted \in Seq(Node)
<1>1. CASE nodes = << >>
  BY <1>1 DEF Counted
<1>2. CASE nodes # << >>
  <2> DEFINE k == Len(nodes)
             p == nodes[k]
  <2>1. nodes \in Seq(Node) /\ k \in 1..Len(nodes) /\ p \in Node
    BY <1>2 DEF PrintOK
  <2>2. [p EXCEPT !.children = @ + 1] \in Node
    BY <2>1 DEF Node
  <2>3. Counted = [nodes EXCEPT ![k] = [p EXCEPT !.children = @ + 1]]
    BY <1>2, <2>1 DEF Counted
  <2> HIDE DEF k, p
  <2>4. QED
    BY <2>1, <2>2, <2>3
<1>3. QED
  BY <1>1, <1>2

LEMMA BeforeOK == ASSUME PrintOK PROVE Before \in Seq(Item)
<1>1. Line(NodeIndent) \in Item
  BY IndentsAreNumbers DEF Item
<1>2. QED
  BY <1>1 DEF Before

LEMMA WalkOK == ASSUME PrintOK, NEW max, Walk(max) PROVE PrintOK'
<1>1. Counted \in Seq(Node) /\ Before \in Seq(Item) /\ NodeIndent \in Nat
  BY CountedOK, BeforeOK, IndentsAreNumbers
<1>2. /\ tree \in Seq({"special", "inner", "close"} \cup Text)
      /\ nodes \in Seq(Node) /\ text \in Seq(Item)
  BY DEF PrintOK
<1>3. /\ Line(NodeIndent) \in Item
      /\ \A s \in Text \cup {Blank, "(", ")", "special", "inner"} : Piece(s) \in Item
  BY <1>1 DEF Item
<1>4. CASE \E kind \in {"special", "inner"} : OpenNode(kind)
  <2>1. PICK kind \in {"special", "inner"} : OpenNode(kind)
    BY <1>4
  <2>2. [kind |-> kind, indent |-> NodeIndent, children |-> 0] \in Node
    BY <1>1 DEF Node
  <2>3. nodes' \in Seq(Node) /\ tree' \in Seq({"special", "inner", "close"} \cup Text)
    BY <1>1, <1>2, <2>1, <2>2 DEF OpenNode
  <2>4. <<IF kind = "special" THEN Line(NodeIndent) ELSE Piece(Blank),
          Piece("("), Piece(kind)>> \in Seq(Item)
    BY <1>3
  <2>5. text' \in Seq(Item)
    BY <1>1, <1>2, <2>1, <2>4 DEF OpenNode
  <2>6. QED
    BY <2>3, <2>5 DEF PrintOK
<1>5. CASE \E w \in Text : Leaf(w)
  <2>1. PICK w \in Text : Leaf(w)
    BY <1>5
  <2>2. <<Piece(Blank), Piece(w)>> \in Seq(Item)
    BY <1>3
  <2>3. QED
    BY <1>1, <1>2, <2>1, <2>2 DEF Leaf, PrintOK
<1>6. CASE CloseNode
  <2>1. nodes' \in Seq(Node)
    BY <1>2, <1>6 DEF CloseNode, Front
  <2>2. QED
    BY <1>2, <1>3, <1>6, <2>1 DEF CloseNode, PrintOK
<1>7. QED
  BY <1>4, <1>5, <1>6 DEF Walk

\* A level is a number, whatever the words are (atoi).
LEMMA LevelDecided ==
    \A a : LET d == Decide(a) IN d.does = "run" => d.level \in Int
<1>1. \A w : Atoi(w) \in Int
  BY NumeralAssumption DEF Atoi
<1>2. ASSUME NEW p PROVE Refuse(p).does # "run"
  BY DEF Refuse, Exit
<1>3. ASSUME NEW a PROVE /\ MjcMain(a).does = "run" => MjcMain(a).level \in Int
                         /\ MjiMain(a).does = "run" => MjiMain(a).level \in Int
  BY <1>1, <1>2 DEF MjcMain, MjiMain, GetInt
<1>4. QED
  BY <1>3 DEF Decide

ProcessInv == DriverInv /\ ToolsOK /\ LevelOK /\ PrintOK

LEMMA ProcessInvInit == DriverInit => ProcessInv
<1> SUFFICES ASSUME DriverInit PROVE ProcessInv
  OBVIOUS
<1>1. DriverInv /\ PrintOK
  BY DriverInvInit, PrintInitOK DEF DriverInit
<1>2. ToolsOK /\ LevelOK
  BY DriverAssumption DEF DriverInit, PrintInit, ToolsOK, LevelOK, Working
<1>3. QED
  BY <1>1, <1>2 DEF ProcessInv

\* What is left after the end of a process.
LEMMA EndLeaves ==
    ASSUME ProcessInv, NEW how \in {"0", "1", "signal", "interrupted"}, End(how)
    PROVE  ToolsOK' /\ LevelOK' /\ PrintOK'
<1>1. PrintOK'
  BY DEF End, PrintOK
<1>2. ToolsOK' /\ LevelOK'
  BY DEF End, ProcessInv, ToolsOK, LevelOK, Working
<1>3. QED
  BY <1>1, <1>2

LEMMA ProcessInvStep == ProcessInv /\ [DriverNext]_driverVars => ProcessInv'
<1> SUFFICES ASSUME ProcessInv, [DriverNext]_driverVars
             PROVE  ToolsOK' /\ LevelOK' /\ PrintOK'
  BY DriverInvStep DEF ProcessInv
<1>1. /\ phase = "args" => Decision(run)
      /\ phase \in Working => run = [f \in RunFields |-> run[f]]
      /\ phase \in Phase
  BY DEF ProcessInv, DriverInv, RunOK, FilesOK
<1>2. CASE \E how \in {"0", "1", "signal", "interrupted"} : End(how)
  BY <1>2, EndLeaves
<1>3. CASE Edit
  BY <1>3 DEF Edit, printVars, ProcessInv, ToolsOK, LevelOK, PrintOK
<1>4. CASE Start
  <2>1. run'.does = "run" => run'.level \in Int
    BY <1>4, LevelDecided DEF Start
  <2>2. argv' # << >> /\ runs' \in 0..MaxRuns /\ phase = "idle" /\ phase' = "args"
    BY <1>4, DriverAssumption DEF Start, ProcessInv, ToolsOK
  <2>3. PrintOK' /\ ToolsOK'
    BY <1>4, <2>2 DEF Start, printVars, ProcessInv, ToolsOK, PrintOK, Working
  <2>4. LevelOK'
    BY <2>1, <2>2 DEF LevelOK, Working
  <2>5. QED
    BY <2>3, <2>4
<1>5. CASE EndArgs /\ run.does # "exit"
  <2>1. /\ phase = "args" /\ phase' = "parse" /\ argv' = << >>
        /\ run' = [does |-> "run", input |-> run.input, type |-> run.type,
                   levels |-> Levels(run.level), level |-> run.level,
                   of |-> NoProgram, tree |-> "none", world |-> "fine"]
        /\ UNCHANGED <<edits, runs, status, printVars>>
    BY <1>5 DEF EndArgs
  <2>2. run.level \in Int
    BY <1>1, <1>5, <2>1 DEF ProcessInv, LevelOK, Decision
  <2>3. run'.does = "run" /\ run'.level = run.level /\ run'.levels = Levels(run.level)
    BY <2>1
  <2>4. LevelOK'
    BY <2>1, <2>2, <2>3 DEF LevelOK
  <2>5. ToolsOK' /\ PrintOK'
    BY <2>1, <2>3 DEF ProcessInv, ToolsOK, PrintOK, printVars
  <2>6. QED
    BY <2>4, <2>5
<1>6. CASE PrintTree
  <2>1. PrintOK'
    BY <1>6, WalkOK DEF PrintTree, ProcessInv
  <2>2. ToolsOK' /\ LevelOK'
    BY <1>6 DEF PrintTree, toolVars, ProcessInv, ToolsOK, LevelOK
  <2>3. QED
    BY <2>1, <2>2
<1>7. CASE /\ phase \in Working \ {"print"} /\ phase' \in Working \ {"print"}
           /\ UNCHANGED <<edits, runs, argv, status, printVars>>
           /\ run'.does = run.does /\ run'.level = run.level /\ run'.levels = run.levels
  BY <1>7 DEF ProcessInv, ToolsOK, LevelOK, PrintOK, printVars, Working
<1>8. CASE OpenOutput
  <2>1. PICK w : run' = [run EXCEPT !.world = w]
    BY <1>8 DEF OpenOutput
  <2>2. /\ phase \in Working \ {"print"} /\ phase' \in Working
        /\ UNCHANGED <<edits, runs, argv, status, printVars>>
    BY <1>8 DEF OpenOutput, GoTo, Working
  <2>3. run'.does = run.does /\ run'.level = run.level /\ run'.levels = run.levels
    BY <1>1, <2>1, <2>2 DEF RunFields
  <2>4. QED
    BY <2>2, <2>3 DEF ProcessInv, ToolsOK, LevelOK, PrintOK, printVars, Working
<1>9. CASE ParseFile
  <2>1. CASE run.input \notin Path \/ files[run.input] = Absent
    BY <1>2, <1>9, <2>1 DEF ParseFile
  <2>2. CASE ~(run.input \notin Path \/ files[run.input] = Absent)
    <3>1. PICK p, t : run' = [run EXCEPT !.of = p, !.tree = t]
      BY <1>9, <2>2 DEF ParseFile
    <3>2. /\ phase = "parse" /\ phase' \in {"check", "open"}
          /\ UNCHANGED <<edits, runs, argv, status, printVars>>
      BY <1>9, <2>2 DEF ParseFile, GoTo
    <3>3. run'.does = run.does /\ run'.level = run.level /\ run'.levels = run.levels
      BY <1>1, <3>1, <3>2 DEF RunFields, Working
    <3>4. QED
      BY <1>7, <3>2, <3>3 DEF Working
  <2>3. QED
    BY <2>1, <2>2
<1>10. CASE Check \/ Build \/ CreatePasses
  <2>1. CASE End("1") \/ End("signal")
    BY <1>2, <2>1
  <2>2. CASE UNCHANGED <<run, printVars, edits, runs, argv, status>>
             /\ phase' \in {"build", "jit", "passes", "emit"}
    BY <1>7, <1>10, <2>2 DEF Check, Build, CreatePasses, Working
  <2>3. QED
    BY <1>10, <2>1, <2>2 DEF Check, Build, CreatePasses, GoTo
<1>11. CASE EndArgs /\ run.does = "exit"
  BY <1>1, <1>2, <1>11 DEF EndArgs, Decision
<1>12. CASE Interrupt \/ NoTree \/ ExitMain \/ Jit
  BY <1>2, <1>12 DEF Interrupt, NoTree, ExitMain, Jit
<1>13. CASE EndPrint
  <2>1. /\ phase \in Working /\ phase' = "exit" /\ tree' = << >>
        /\ UNCHANGED <<edits, runs, argv, status, run>>
    BY <1>13 DEF EndPrint, GoTo, Working
  <2>2. PrintOK'
    BY <1>13 DEF EndPrint, PrintOK
  <2>3. ToolsOK' /\ LevelOK'
    BY <2>1 DEF ProcessInv, ToolsOK, LevelOK, Working
  <2>4. QED
    BY <2>2, <2>3
<1>14. CASE Emit
  <2>1. /\ phase = "emit" /\ phase' = "exit"
        /\ UNCHANGED <<run, printVars, edits, runs, argv, status>>
    BY <1>14 DEF Emit, GoTo
  <2>2. QED
    BY <1>7, <2>1 DEF Working
<1>15. CASE UNCHANGED driverVars
  BY <1>15 DEF driverVars, toolVars, printVars, ProcessInv, ToolsOK, LevelOK, PrintOK
<1>16. QED
  BY <1>3, <1>4, <1>5, <1>6, <1>8, <1>9, <1>10, <1>11, <1>12, <1>13, <1>14, <1>15
     DEF DriverNext, Compile, Stopped

\* The inductive invariant with what a process keeps about itself.
THEOREM ProcessInvariant == DriverSpec => []ProcessInv
<1>1. QED
  BY ProcessInvInit, ProcessInvStep, PTL DEF DriverSpec

\* The state of the tools keeps its type: what is written of a tree included
\* (pretty_print), and a process ends with the status main gives it.
THEOREM DriverTypeCorrect == DriverSpec => []DriverTypeOK
<1>1. ASSUME ProcessInv PROVE DriverTypeOK
  <2>1. \A i \in DOMAIN text : text[i].is \in {"line", "piece"}
    <3>1. \A i \in DOMAIN text : text[i] \in Item
      BY <1>1 DEF ProcessInv, PrintOK
    <3>2. QED
      BY <3>1 DEF Item, Line, Piece
  <2>2. PrintTypeOK
    BY <1>1, <2>1 DEF ProcessInv, PrintOK, PrintTypeOK
  <2>3. phase \in Phase \ {"idle", "args"} => phase \in Working
    BY DEF Phase, Working
  <2>4. phase \in {"open", "print", "passes", "emit", "exit"} => run.type \in OutputType
    BY <1>1 DEF ProcessInv, DriverInv, RunOK, PlaceOK, Working, OutputType
  <2>5. QED
    BY <1>1, <2>2, <2>3, <2>4
       DEF ProcessInv, ToolsOK, DriverInv, FilesOK, RunOK, DriverTypeOK
<1>2. QED
  BY <1>1, ProcessInvariant, PTL

\* A level of 0 to 3 is the level of the machine code, of the pass builder and
\* of the inliner alike, and no other level is (targetMachine, createPasses).
THEOREM LevelsAgreeInvariant == DriverSpec => []LevelsAgree
<1>1. ASSUME ProcessInv PROVE LevelsAgree
  <2> SUFFICES ASSUME phase = "emit"
               PROVE  run.level \in 0..3 <=> /\ run.levels.machine = run.level
                                             /\ run.levels.builder = run.level
                                             /\ run.levels.inliner = (run.level = 3)
    BY DEF LevelsAgree
  <2>1. run.level \in Int /\ run.levels = Levels(run.level)
    BY <1>1 DEF ProcessInv, LevelOK, Working
  <2>2. QED
    BY <2>1 DEF Levels, UnsignedInts
<1>2. QED
  BY <1>1, ProcessInvariant, PTL

-----------------------------------------------------------------------------
(* The words of a command line, read one after the other (ReadOptions) and  *)
(* from their positions (DecidesRight).                                     *)

Group == {"help", "type", "level"}

LEMMA FlagFacts ==
    /\ \A t : /\ Groups(t) \subseteq Group /\ "help" \in Groups(t)
              /\ t = "mjc" => Groups(t) = Group
    /\ \A g, h \in Group : \A w : w \in Flags[g] /\ w \in Flags[h] => g = h
    /\ \A g \in Group : ExpectArgs[g] = IF g = "help" THEN 0 ELSE 1
  BY DEF Groups, Group, Flags, ExpectArgs

LEMMA FlagGroups ==
    \A t, w : /\ IsFlag(t, w) => GroupOf(t, w) \in Groups(t) /\ w \in Flags[GroupOf(t, w)]
              /\ \A g \in Groups(t) : w \in Flags[g] => IsFlag(t, w) /\ GroupOf(t, w) = g
<1> SUFFICES ASSUME NEW t, NEW w
             PROVE  /\ IsFlag(t, w) => GroupOf(t, w) \in Groups(t) /\ w \in Flags[GroupOf(t, w)]
                    /\ \A g \in Groups(t) : w \in Flags[g] => IsFlag(t, w) /\ GroupOf(t, w) = g
  OBVIOUS
<1>1. IsFlag(t, w) => GroupOf(t, w) \in Groups(t) /\ w \in Flags[GroupOf(t, w)]
  BY DEF IsFlag, GroupOf
<1>2. ASSUME NEW g \in Groups(t), w \in Flags[g]
      PROVE  IsFlag(t, w) /\ GroupOf(t, w) = g
  <2>1. IsFlag(t, w)
    BY <1>2 DEF IsFlag
  <2>2. QED
    BY <1>1, <1>2, <2>1, FlagFacts
<1>3. QED
  BY <1>1, <1>2

\* The words at the positions V are the values: each one follows a word that
\* takes one and is none itself.
ValuesAt(t, a, V) ==
    /\ V \subseteq 1..Len(a)
    /\ \A i \in 1..Len(a) : i \in V <=> i > 1 /\ i - 1 \notin V /\ TakesValue(t, a[i - 1])

LEMMA ValuesAreAt ==
    ASSUME NEW S, NEW a \in Seq(S)
    PROVE  ValuesAt(a[1], a, Values(a))
<1> DEFINE n == Len(a)
           t == a[1]
           step == [i \in 1..n |-> [b \in BOOLEAN |-> i > 1 /\ ~b /\ TakesValue(t, a[i - 1])]]
           value == CHOOSE f : f = [i \in 1..n |-> i > 1 /\ ~f[i - 1] /\ TakesValue(t, a[i - 1])]
<1>1. n \in Nat
  OBVIOUS
<1>2. PICK f : DefinedBy(f, BOOLEAN, FALSE, n, step)
  <2>1. step \in [1..n -> [BOOLEAN -> BOOLEAN]]
    OBVIOUS
  <2> HIDE DEF step, n
  <2>2. QED
    BY ONLY <1>1, <2>1, Recursion
<1>3. \A i \in 1..n : f[i] = (i > 1 /\ ~f[i - 1] /\ TakesValue(t, a[i - 1]))
  <2> SUFFICES ASSUME NEW i \in 1..n
               PROVE  f[i] = (i > 1 /\ ~f[i - 1] /\ TakesValue(t, a[i - 1]))
    OBVIOUS
  <2>1. i - 1 \in 0..n /\ f[i - 1] \in BOOLEAN
    BY <1>1, <1>2 DEF DefinedBy
  <2>2. f[i] = step[i][f[i - 1]]
    BY <1>2 DEF DefinedBy
  <2>3. QED
    BY <2>1, <2>2
<1> DEFINE g == [i \in 1..n |-> f[i]]
<1>4. g = [i \in 1..n |-> i > 1 /\ ~g[i - 1] /\ TakesValue(t, a[i - 1])]
  <2>1. ASSUME NEW i \in 1..n
        PROVE  f[i] = (i > 1 /\ ~g[i - 1] /\ TakesValue(t, a[i - 1]))
    <3>1. CASE i > 1
      <4>1. i - 1 \in 1..n
        BY <1>1, <3>1
      <4>2. g[i - 1] = f[i - 1]
        BY <4>1
      <4>3. QED
        BY <1>3, <4>2
    <3>2. CASE ~(i > 1)
      BY <1>3, <3>2
    <3>3. QED
      BY <3>1, <3>2
  <2> HIDE DEF n, t
  <2>2. QED
    BY <2>1
<1>5. value = [i \in 1..n |-> i > 1 /\ ~value[i - 1] /\ TakesValue(t, a[i - 1])]
  <2> HIDE DEF g, n, t
  <2>1. \E h : h = [i \in 1..n |-> i > 1 /\ ~h[i - 1] /\ TakesValue(t, a[i - 1])]
    BY <1>4
  <2>2. QED
    BY <2>1
<1>6. Values(a) = {i \in 1..n : value[i]}
  BY DEF Values
<1> HIDE DEF value
<1>7. \A i \in 1..n : i \in Values(a) <=> value[i]
  BY <1>6
<1>8. \A i \in 1..n : value[i] <=> i > 1 /\ ~value[i - 1] /\ TakesValue(t, a[i - 1])
  BY <1>5
<1>9. ASSUME NEW i \in 1..n
      PROVE  i \in Values(a) <=> i > 1 /\ i - 1 \notin Values(a) /\ TakesValue(t, a[i - 1])
  <2>1. CASE i > 1
    <3>1. i - 1 \in 1..n
      BY <1>1, <2>1
    <3>2. QED
      BY <1>7, <1>8, <3>1
  <2>2. CASE ~(i > 1)
    BY <1>7, <1>8, <2>2
  <2>3. QED
    BY <2>1, <2>2
<1>10. QED
  BY <1>6, <1>9 DEF ValuesAt

-----------------------------------------------------------------------------
\* What parse keeps while it reads the words of S.
Reading(S) == [isSet : SUBSET Group,
               args : [Group -> Seq({<< >>} \cup {<<w>> : w \in S})],
               last : Nat, expecting : Group \cup {"nothing"}]

\* What becomes of it with the word w at i.
WordRead(t, o, w, i, new) ==
    /\ o.expecting # "nothing" =>
         /\ new.isSet = o.isSet /\ new.last = i /\ new.expecting = "nothing"
         /\ new.args = [o.args EXCEPT ![o.expecting] =
                           Append(o.args[o.expecting], SplitDelim(w))]
    /\ o.expecting = "nothing" /\ ~IsFlag(t, w) => new = o
    /\ o.expecting = "nothing" /\ IsFlag(t, w) =>
         /\ new.isSet = o.isSet \cup {GroupOf(t, w)} /\ new.args = o.args
         /\ GroupOf(t, w) = "help" => new.last = i /\ new.expecting = "nothing"
         /\ GroupOf(t, w) # "help" => new.last = o.last /\ new.expecting = GroupOf(t, w)

LEMMA ReadWordKeeps ==
    ASSUME NEW S, NEW t, NEW o \in Reading(S), NEW w \in S, NEW i \in Nat,
           NEW new, new = ReadWord(t, o, w, i)
    PROVE  new \in Reading(S) /\ WordRead(t, o, w, i, new)
<1> DEFINE Part == {<< >>} \cup {<<v>> : v \in S}
<1>1. /\ o.isSet \in SUBSET Group /\ o.args \in [Group -> Seq(Part)] /\ o.last \in Nat
      /\ o.expecting \in Group \cup {"nothing"}
      /\ o = [isSet |-> o.isSet, args |-> o.args, last |-> o.last, expecting |-> o.expecting]
  BY DEF Reading
<1>2. SplitDelim(w) \in Part
  BY DEF SplitDelim
<1>3. "nothing" \notin Group
  BY DEF Group
<1>4. CASE o.expecting # "nothing"
  <2> DEFINE args == [o.args EXCEPT ![o.expecting] =
                                  Append(o.args[o.expecting], SplitDelim(w))]
  <2>1. new = [isSet |-> o.isSet, args |-> args, last |-> i, expecting |-> "nothing"]
    BY <1>1, <1>4 DEF ReadWord
  <2>2. args \in [Group -> Seq(Part)]
    <3>1. o.expecting \in Group /\ o.args[o.expecting] \in Seq(Part)
      BY <1>1, <1>4
    <3> HIDE DEF Part
    <3>2. Append(o.args[o.expecting], SplitDelim(w)) \in Seq(Part)
      BY <1>2, <3>1
    <3>3. QED
      BY <1>1, <3>1, <3>2
  <2>3. new.isSet = o.isSet /\ new.last = i /\ new.expecting = "nothing" /\ new.args = args
    BY <2>1
  <2>4. new \in Reading(S)
    <3> HIDE DEF args
    <3> QED
      BY <1>1, <2>1, <2>2 DEF Reading
  <2>5. QED
    BY <1>4, <2>3, <2>4 DEF WordRead
<1>5. CASE o.expecting = "nothing" /\ ~IsFlag(t, w)
  <2>1. new = o
    BY <1>5 DEF ReadWord
  <2>2. QED
    BY <1>5, <2>1 DEF WordRead
<1>6. CASE o.expecting = "nothing" /\ IsFlag(t, w)
  <2> DEFINE g == GroupOf(t, w)
  <2>1. g \in Group /\ ExpectArgs[g] = IF g = "help" THEN 0 ELSE 1
    BY <1>6, FlagFacts, FlagGroups
  <2> HIDE DEF g
  <2>2. new = IF g = "help"
              THEN [isSet |-> o.isSet \cup {g}, args |-> o.args, last |-> i,
                    expecting |-> "nothing"]
              ELSE [isSet |-> o.isSet \cup {g}, args |-> o.args, last |-> o.last,
                    expecting |-> g]
    <3>1. new = IF ExpectArgs[g] = 0
                THEN [o EXCEPT !.isSet = @ \cup {g}, !.last = i]
                ELSE [o EXCEPT !.isSet = @ \cup {g}, !.expecting = g]
      BY <1>6 DEF ReadWord, g
    <3>2. CASE g = "help"
      <4>1. new = [o EXCEPT !.isSet = @ \cup {g}, !.last = i]
        BY <2>1, <3>1, <3>2
      <4>2. QED
        BY <1>1, <1>6, <3>2, <4>1
    <3>3. CASE g # "help"
      <4>1. new = [o EXCEPT !.isSet = @ \cup {g}, !.expecting = g]
        BY <2>1, <3>1, <3>3
      <4>2. QED
        BY <1>1, <3>3, <4>1
    <3>4. QED
      BY <3>2, <3>3
  <2>3. /\ new.isSet = o.isSet \cup {g} /\ new.args = o.args
        /\ g = "help" => new.last = i /\ new.expecting = "nothing"
        /\ g # "help" => new.last = o.last /\ new.expecting = g
    BY <2>2
  <2>4. new \in Reading(S)
    BY <1>1, <2>1, <2>2 DEF Reading
  <2>5. QED
    BY <1>6, <2>3, <2>4 DEF WordRead, g
<1>7. QED
  BY <1>4, <1>5, <1>6

\* The loop over the options, as a sequence of states.
LEMMA ReadsAllWords ==
    ASSUME NEW S, NEW a \in Seq(S), NEW t
    PROVE  \E f : /\ f[0] = NoOptions
                  /\ \A i \in 0..Len(a) : f[i] \in Reading(S)
                  /\ \A i \in 1..Len(a) : f[i] = ReadWord(t, f[i - 1], a[i], i)
                  /\ ReadOptions(t, a) = f[Len(a)]
<1> DEFINE n == Len(a)
           R == Reading(S)
           step == [i \in 1..n |-> [o \in R |-> ReadWord(t, o, a[i], i)]]
           upTo == CHOOSE f : f = [i \in 0..n |-> IF i = 0 THEN NoOptions
                                                  ELSE ReadWord(t, f[i - 1], a[i], i)]
<1>1. n \in Nat /\ \A i \in 1..n : a[i] \in S /\ i \in Nat
  OBVIOUS
<1>2. NoOptions \in R
  <2>1. [g \in {"help", "type", "level"} |-> << >>]
          \in [Group -> Seq({<< >>} \cup {<<w>> : w \in S})]
    BY DEF Group
  <2>2. QED
    BY <2>1 DEF NoOptions, Reading
<1>3. PICK f : DefinedBy(f, R, NoOptions, n, step)
  <2>1. step \in [1..n -> [R -> R]]
    <3>1. \A i \in 1..n : \A o \in R : ReadWord(t, o, a[i], i) \in R
      <4> SUFFICES ASSUME NEW i \in 1..n, NEW o \in R PROVE ReadWord(t, o, a[i], i) \in R
        OBVIOUS
      <4>1. a[i] \in S /\ i \in Nat /\ o \in Reading(S)
        BY <1>1
      <4> DEFINE w == a[i]
                 new == ReadWord(t, o, w, i)
      <4>2. w \in S /\ i \in Nat /\ o \in Reading(S) /\ new = ReadWord(t, o, w, i)
        BY <4>1
      <4>3. new \in Reading(S)
        <5> HIDE DEF w, new, n
        <5> QED
          BY ONLY <4>2, ReadWordKeeps, Zenon
      <4>4. QED
        BY <4>3
    <3> HIDE DEF R, n
    <3>2. QED
      BY <3>1
  <2> HIDE DEF step, n, R
  <2>2. QED
    BY ONLY <1>1, <1>2, <2>1, Recursion
<1> HIDE DEF R
<1>4. /\ f \in [0..n -> R] /\ f[0] = NoOptions
      /\ \A i \in 1..n : f[i] = ReadWord(t, f[i - 1], a[i], i)
  <2>1. f \in [0..n -> R] /\ f[0] = NoOptions
    BY <1>3 DEF DefinedBy
  <2>2. ASSUME NEW i \in 1..n PROVE f[i] = ReadWord(t, f[i - 1], a[i], i)
    <3>1. i - 1 \in 0..n /\ f[i - 1] \in R
      BY <1>1, <2>1
    <3>2. f[i] = step[i][f[i - 1]]
      BY <1>3 DEF DefinedBy
    <3>3. QED
      BY <3>1, <3>2
  <2>3. QED
    BY <2>1, <2>2
<1>5. f = [i \in 0..n |-> IF i = 0 THEN NoOptions ELSE ReadWord(t, f[i - 1], a[i], i)]
  <2>1. \A i \in 0..n : i = 0 \/ i \in 1..n
    OBVIOUS
  <2> HIDE DEF n
  <2>2. QED
    BY <1>4, <2>1
<1>6. upTo = [i \in 0..n |-> IF i = 0 THEN NoOptions ELSE ReadWord(t, upTo[i - 1], a[i], i)]
  <2> HIDE DEF n
  <2> QED
    BY <1>5
<1>7. ReadOptions(t, a) = upTo[n]
  BY DEF ReadOptions
<1> HIDE DEF upTo
<1>8. \A k \in 0..n : upTo[k] = f[k]
  <2> DEFINE T == {k \in Nat : k <= n => upTo[k] = f[k]}
  <2>1. 0 \in T
    <3>1. 0 \in 0..n
      BY <1>1
    <3>2. upTo[0] = NoOptions
      BY <1>6, <3>1
    <3>3. QED
      BY <1>4, <3>2
  <2>2. ASSUME NEW k \in T PROVE k + 1 \in T
    <3> SUFFICES ASSUME k + 1 <= n PROVE upTo[k + 1] = f[k + 1]
      OBVIOUS
    <3>1. k + 1 \in 0..n /\ k + 1 \in 1..n /\ k + 1 # 0 /\ k + 1 - 1 = k /\ k <= n
      BY <1>1
    <3>2. upTo[k + 1] = ReadWord(t, upTo[k + 1 - 1], a[k + 1], k + 1)
      BY <1>6, <3>1
    <3>3. QED
      BY <1>4, <3>1, <3>2
  <2>3. T = Nat
    <3> HIDE DEF T
    <3>1. T \in SUBSET Nat
      BY DEF T
    <3>2. QED
      BY ONLY <2>1, <2>2, <3>1, Induct
  <2>4. QED
    BY <1>1, <2>3
<1>9. n \in 0..n
  BY <1>1
<1>10. QED
  BY <1>4, <1>7, <1>8, <1>9 DEF R

-----------------------------------------------------------------------------
\* What has been read of the first k words, in terms of their positions.
Occurs(a, V, g, k) == {i \in 1..k : i \notin V /\ a[i] \in Flags[g]}

SetRight(t, a, V, o, k) == o.isSet = {g \in Groups(t) : Occurs(a, V, g, k) # {}}

WaitsRight(t, a, V, o, k) ==
    o.expecting = IF k > 0 /\ k \notin V /\ TakesValue(t, a[k]) THEN GroupOf(t, a[k])
                  ELSE "nothing"

LastRight(t, a, V, o, k) ==
    /\ o.last \in 0..k
    /\ o.last # 0 => o.last \in V \/ IsFlag(t, a[o.last])
    /\ \A i \in 1..k : i \in V \/ IsFlag(t, a[i]) =>
                         i <= o.last \/ (i = k /\ o.expecting # "nothing")

\* The values read for one option, which occurs at the positions "at".
ArgsRight(a, at, args) ==
    /\ args = << >> <=> at = {}
    /\ at # {} => \E i \in at : (\A j \in at : i <= j) /\ args[1] = SplitDelim(a[i + 1])
    /\ (\A j \in 1..Len(args) : args[j] # << >>) <=> (\A i \in at : a[i + 1] # "")

ReadRight(t, a, V, o, k) ==
    /\ SetRight(t, a, V, o, k)
    /\ WaitsRight(t, a, V, o, k)
    /\ LastRight(t, a, V, o, k)
    /\ \A g \in Groups(t) \ {"help"} : ArgsRight(a, Occurs(a, V, g, k - 1), o.args[g])
    /\ o.args["help"] = << >>

LEMMA TakesValues ==
    \A t, w : /\ TakesValue(t, w) <=> IsFlag(t, w) /\ GroupOf(t, w) # "help"
              /\ TakesValue(t, w) => GroupOf(t, w) \in Groups(t) \ {"help"}
                                     /\ GroupOf(t, w) # "nothing"
  BY FlagFacts, FlagGroups DEF TakesValue, Group

LEMMA ReadNone ==
    ASSUME NEW t, NEW a, NEW V PROVE ReadRight(t, a, V, NoOptions, 0)
<1> DEFINE o == NoOptions
<1>1. /\ o.isSet = {} /\ o.last = 0 /\ o.expecting = "nothing"
      /\ \A g \in Group : o.args[g] = << >>
  BY DEF NoOptions, Group
<1> HIDE DEF o
<1>2. \A g : Occurs(a, V, g, 0) = {} /\ Occurs(a, V, g, 0 - 1) = {}
  BY DEF Occurs
<1>3. SetRight(t, a, V, o, 0) /\ WaitsRight(t, a, V, o, 0) /\ LastRight(t, a, V, o, 0)
  BY <1>1, <1>2 DEF SetRight, WaitsRight, LastRight
<1>4. ASSUME NEW g \in Groups(t) \ {"help"}
      PROVE  ArgsRight(a, Occurs(a, V, g, 0 - 1), o.args[g])
  <2>1. o.args[g] = << >>
    BY <1>1, FlagFacts
  <2>2. ArgsRight(a, {}, << >>)
    BY DEF ArgsRight
  <2>3. QED
    BY <1>2, <2>1, <2>2
<1>5. o.args["help"] = << >>
  BY <1>1 DEF Group
<1>6. QED
  BY <1>3, <1>4, <1>5 DEF ReadRight, o

\* One more value is read for an option, at k + 1.
LEMMA ArgsAppended ==
    ASSUME NEW a, NEW k \in Nat, NEW at \in SUBSET (1..(k - 1)), NEW T, NEW args \in Seq(T),
           SplitDelim(a[k + 1]) \in T, ArgsRight(a, at, args)
    PROVE  ArgsRight(a, at \cup {k}, Append(args, SplitDelim(a[k + 1])))
<1> DEFINE part == SplitDelim(a[k + 1])
           more == Append(args, part)
           n == Len(args)
<1>1. part # << >> <=> a[k + 1] # ""
  BY DEF SplitDelim
<1> HIDE DEF part
<1>2. /\ n \in Nat /\ Len(more) = n + 1 /\ more[n + 1] = part
      /\ \A j \in 1..n : more[j] = args[j]
      /\ more # << >>
  BY DEF part
<1>3. \A j \in 1..(n + 1) : j \in 1..n \/ j = n + 1
  OBVIOUS
<1> HIDE DEF more, n
<1>4. \E i \in at \cup {k} : (\A j \in at \cup {k} : i <= j) /\ more[1] = SplitDelim(a[i + 1])
  <2>1. CASE at = {}
    <3>1. args = << >> /\ n = 0
      BY <2>1 DEF ArgsRight, n
    <3>2. more[1] = SplitDelim(a[k + 1])
      BY <1>2, <3>1 DEF part
    <3>3. QED
      BY <2>1, <3>2
  <2>2. CASE at # {}
    <3>1. PICK i \in at : (\A j \in at : i <= j) /\ args[1] = SplitDelim(a[i + 1])
      BY <2>2 DEF ArgsRight
    <3>2. 1 \in 1..n
      <4>1. args # << >>
        BY <2>2 DEF ArgsRight
      <4>2. QED
        BY <4>1 DEF n
    <3>3. more[1] = args[1] /\ i <= k
      BY <1>2, <3>2
    <3>4. QED
      BY <3>1, <3>3
  <2>3. QED
    BY <2>1, <2>2
<1>5. (\A j \in 1..(n + 1) : more[j] # << >>) <=> (\A i \in at \cup {k} : a[i + 1] # "")
  <2>1. (\A j \in 1..n : args[j] # << >>) <=> (\A i \in at : a[i + 1] # "")
    BY DEF ArgsRight, n
  <2>2. n + 1 \in 1..(n + 1) /\ \A j \in 1..n : j \in 1..(n + 1)
    BY <1>2
  <2>3. (\A j \in 1..(n + 1) : more[j] # << >>)
          <=> (\A j \in 1..n : args[j] # << >>) /\ part # << >>
    BY <1>2, <1>3, <2>2
  <2>4. QED
    BY <1>1, <2>1, <2>3
<1>6. QED
  BY <1>2, <1>4, <1>5 DEF ArgsRight, more, part

\* One more word is read.
LEMMA ReadOne ==
    ASSUME NEW S, NEW a \in Seq(S), NEW t, NEW V, ValuesAt(t, a, V),
           NEW k \in Nat, k + 1 <= Len(a),
           NEW o \in Reading(S), ReadRight(t, a, V, o, k),
           NEW new, new = ReadWord(t, o, a[k + 1], k + 1)
    PROVE  ReadRight(t, a, V, new, k + 1)
<1> DEFINE w == a[k + 1]
           m == k + 1
           takes == k > 0 /\ k \notin V /\ TakesValue(t, a[k])
<1>1. /\ m \in 1..Len(a) /\ m > 0 /\ w \in S /\ m \in Nat /\ k + 1 - 1 = k
      /\ \A i \in 1..m : i \in 1..k \/ i = m
      /\ \A i \in 1..k : i \in 1..m /\ i < m
      /\ \A i \in 1..k : i \in 1..(k - 1) \/ i = k
  OBVIOUS
<1>2. m \in V <=> takes
  <2>1. k = 0 \/ k > 0
    OBVIOUS
  <2>2. QED
    BY <1>1, <2>1 DEF ValuesAt
<1>3. /\ o.expecting = IF takes THEN GroupOf(t, a[k]) ELSE "nothing"
      /\ o.expecting # "nothing" <=> takes
  BY TakesValues DEF ReadRight, WaitsRight
<1>4. /\ new \in Reading(S)
      /\ takes => /\ new.isSet = o.isSet /\ new.last = m /\ new.expecting = "nothing"
                  /\ new.args = [o.args EXCEPT ![o.expecting] =
                                    Append(o.args[o.expecting], SplitDelim(w))]
      /\ ~takes /\ ~IsFlag(t, w) => new = o
      /\ ~takes /\ IsFlag(t, w) =>
           /\ new.isSet = o.isSet \cup {GroupOf(t, w)} /\ new.args = o.args
           /\ GroupOf(t, w) = "help" => new.last = m /\ new.expecting = "nothing"
           /\ GroupOf(t, w) # "help" => new.last = o.last /\ new.expecting = GroupOf(t, w)
  <2>1. w \in S /\ m \in Nat /\ new = ReadWord(t, o, w, m)
    BY <1>1
  <2> HIDE DEF w, m, takes
  <2>2. new \in Reading(S) /\ WordRead(t, o, w, m, new)
    BY <2>1, ReadWordKeeps
  <2>3. QED
    BY ONLY <1>3, <2>2, Zenon DEF WordRead
<1>5. \A g \in Groups(t) : Occurs(a, V, g, m) = IF m \notin V /\ w \in Flags[g]
                                               THEN Occurs(a, V, g, k) \cup {m}
                                               ELSE Occurs(a, V, g, k)
  BY <1>1 DEF Occurs
<1>6. \A g \in Groups(t) \ {"help"} :
        Occurs(a, V, g, m - 1) = IF takes /\ g = GroupOf(t, a[k])
                                 THEN Occurs(a, V, g, k - 1) \cup {k}
                                 ELSE Occurs(a, V, g, k - 1)
  <2> SUFFICES ASSUME NEW g \in Groups(t) \ {"help"}
               PROVE  Occurs(a, V, g, k) = IF takes /\ g = GroupOf(t, a[k])
                                           THEN Occurs(a, V, g, k - 1) \cup {k}
                                           ELSE Occurs(a, V, g, k - 1)
    BY <1>1
  <2>1. k > 0 /\ k \notin V /\ a[k] \in Flags[g] <=> takes /\ g = GroupOf(t, a[k])
    BY FlagGroups, TakesValues
  <2>2. k \in 1..k <=> k > 0
    OBVIOUS
  <2>3. Occurs(a, V, g, k) = IF k > 0 /\ k \notin V /\ a[k] \in Flags[g]
                             THEN Occurs(a, V, g, k - 1) \cup {k} ELSE Occurs(a, V, g, k - 1)
    BY <1>1, <2>2 DEF Occurs
  <2>4. QED
    BY <2>1, <2>3
<1> HIDE DEF w, m, takes
<1>7. SetRight(t, a, V, new, m)
  <2>1. o.isSet = {g \in Groups(t) : Occurs(a, V, g, k) # {}}
    BY DEF ReadRight, SetRight
  <2>2. CASE takes
    BY <1>2, <1>4, <1>5, <2>1, <2>2 DEF SetRight
  <2>3. CASE ~takes /\ ~IsFlag(t, w)
    <3>1. \A g \in Groups(t) : w \notin Flags[g]
      BY <2>3, FlagGroups
    <3>2. QED
      BY <1>4, <1>5, <2>1, <2>3, <3>1 DEF SetRight
  <2>4. CASE ~takes /\ IsFlag(t, w)
    <3>1. GroupOf(t, w) \in Groups(t)
          /\ \A g \in Groups(t) : w \in Flags[g] <=> g = GroupOf(t, w)
      BY <2>4, FlagGroups
    <3>2. QED
      BY <1>2, <1>4, <1>5, <2>1, <2>4, <3>1 DEF SetRight
  <2>5. QED
    BY <2>2, <2>3, <2>4
<1>8. WaitsRight(t, a, V, new, m)
  <2>1. /\ TakesValue(t, w) <=> IsFlag(t, w) /\ GroupOf(t, w) # "help"
        /\ a[m] = w
    BY TakesValues DEF w, m
  <2>2. QED
    BY <1>1, <1>2, <1>3, <1>4, <2>1 DEF WaitsRight
<1>9. LastRight(t, a, V, new, m)
  <2>1. /\ o.last \in 0..k
        /\ o.last # 0 => o.last \in V \/ IsFlag(t, a[o.last])
        /\ \A i \in 1..k : i \in V \/ IsFlag(t, a[i]) => i <= o.last \/ (i = k /\ takes)
    BY <1>3 DEF ReadRight, LastRight
  <2>2. a[m] = w /\ m = k + 1 /\ (m \in V <=> takes)
    BY <1>2 DEF w, m
  <2>3. new.expecting # "nothing" <=> ~takes /\ IsFlag(t, w) /\ GroupOf(t, w) # "help"
    BY <1>3, <1>4, FlagGroups, FlagFacts DEF Group
  <2>4. new.last = IF takes \/ (IsFlag(t, w) /\ GroupOf(t, w) = "help") THEN m ELSE o.last
    BY <1>4
  <2>5. new.last \in 0..m
    BY <1>1, <2>1, <2>2, <2>4
  <2>6. new.last # 0 => new.last \in V \/ IsFlag(t, a[new.last])
    BY <2>1, <2>2, <2>4
  <2>7. ASSUME NEW i \in 1..m, i \in V \/ IsFlag(t, a[i])
        PROVE  i <= new.last \/ (i = m /\ new.expecting # "nothing")
    <3>1. CASE i = m
      <4>1. takes \/ IsFlag(t, w)
        BY <2>2, <2>7, <3>1
      <4>2. QED
        BY <2>2, <2>3, <2>4, <3>1, <4>1
    <3>2. CASE i \in 1..k
      BY <1>1, <2>1, <2>2, <2>4, <2>7, <3>2
    <3>3. QED
      BY <1>1, <3>1, <3>2
  <2>8. QED
    BY <2>5, <2>6, <2>7 DEF LastRight
<1>10. ASSUME NEW g \in Groups(t) \ {"help"}
       PROVE  ArgsRight(a, Occurs(a, V, g, m - 1), new.args[g])
  <2>1. ArgsRight(a, Occurs(a, V, g, k - 1), o.args[g]) /\ g \in Group
    BY FlagFacts DEF ReadRight
  <2>2. o.args \in [Group -> Seq({<< >>} \cup {<<v>> : v \in S})]
    BY DEF Reading
  <2>3. CASE takes /\ g = GroupOf(t, a[k])
    <3>1. Occurs(a, V, g, m - 1) = Occurs(a, V, g, k - 1) \cup {k}
      BY <1>6, <2>3
    <3>2. new.args[g] = Append(o.args[g], SplitDelim(w))
      BY <1>3, <1>4, <2>1, <2>2, <2>3
    <3>3. Occurs(a, V, g, k - 1) \in SUBSET (1..(k - 1))
      BY DEF Occurs
    <3>4. SplitDelim(w) \in {<< >>} \cup {<<v>> : v \in S} /\ w = a[k + 1]
      BY <1>1 DEF SplitDelim, w
    <3>5. o.args[g] \in Seq({<< >>} \cup {<<v>> : v \in S})
      BY <2>1, <2>2
    <3>6. ArgsRight(a, Occurs(a, V, g, k - 1) \cup {k}, Append(o.args[g], SplitDelim(a[k + 1])))
      BY ONLY <2>1, <3>3, <3>4, <3>5, k \in Nat, ArgsAppended
    <3>7. QED
      BY <3>1, <3>2, <3>4, <3>6
  <2>4. CASE ~(takes /\ g = GroupOf(t, a[k]))
    <3>1. new.args[g] = o.args[g]
      BY <1>3, <1>4, <2>1, <2>2, <2>4
    <3>2. QED
      BY <1>6, <2>1, <2>4, <3>1
  <2>5. QED
    BY <2>3, <2>4
<1>11. new.args["help"] = << >>
  <2>1. /\ o.args["help"] = << >> /\ "help" \in Group
        /\ o.args \in [Group -> Seq({<< >>} \cup {<<v>> : v \in S})]
    BY DEF ReadRight, Reading, Group
  <2>2. takes => o.expecting # "help"
    BY <1>3, TakesValues DEF takes
  <2>3. QED
    BY <1>4, <2>1, <2>2
<1>12. QED
  BY <1>7, <1>8, <1>9, <1>10, <1>11 DEF ReadRight, m

\* All words are read.
LEMMA ReadAll ==
    ASSUME NEW S, NEW a \in Seq(S), NEW t, NEW V, ValuesAt(t, a, V)
    PROVE  ReadOptions(t, a) \in Reading(S) /\ ReadRight(t, a, V, ReadOptions(t, a), Len(a))
<1>1. PICK f : /\ f[0] = NoOptions
               /\ \A i \in 0..Len(a) : f[i] \in Reading(S)
               /\ \A i \in 1..Len(a) : f[i] = ReadWord(t, f[i - 1], a[i], i)
               /\ ReadOptions(t, a) = f[Len(a)]
  BY ReadsAllWords
<1> DEFINE T == {k \in Nat : k <= Len(a) => ReadRight(t, a, V, f[k], k)}
<1>2. 0 \in T
  BY <1>1, ReadNone
<1>3. ASSUME NEW k \in T PROVE k + 1 \in T
  <2> SUFFICES ASSUME k + 1 <= Len(a) PROVE ReadRight(t, a, V, f[k + 1], k + 1)
    OBVIOUS
  <2>1. k \in 0..Len(a) /\ k + 1 \in 1..Len(a) /\ k + 1 - 1 = k /\ k <= Len(a) /\ k \in Nat
    OBVIOUS
  <2>2. f[k] \in Reading(S) /\ ReadRight(t, a, V, f[k], k)
    BY <1>1, <2>1
  <2>3. f[k + 1] = ReadWord(t, f[k], a[k + 1], k + 1)
    BY <1>1, <2>1
  <2> DEFINE o == f[k]
             new == f[k + 1]
  <2>4. ReadRight(t, a, V, new, k + 1)
    <3>1. o \in Reading(S) /\ ReadRight(t, a, V, o, k) /\ new = ReadWord(t, o, a[k + 1], k + 1)
      BY <2>2, <2>3
    <3> HIDE DEF o, new
    <3>2. QED
      BY ONLY a \in Seq(S), ValuesAt(t, a, V), <2>1, k + 1 <= Len(a), <3>1, ReadOne
  <2>5. QED
    BY <2>4
<1>4. T = Nat
  <2> HIDE DEF T
  <2>1. T \in SUBSET Nat
    BY DEF T
  <2>2. QED
    BY ONLY <1>2, <1>3, <2>1, Induct
<1>5. Len(a) \in 0..Len(a) /\ Len(a) \in Nat
  OBVIOUS
<1>6. QED
  BY <1>1, <1>4, <1>5

-----------------------------------------------------------------------------
(* From the words to the decision.                                         *)

Options(t, a, V) == {i \in (1..Len(a)) \ V : IsFlag(t, a[i])}

\* Every option that takes a value has one, or had one.
CompleteAt(t, a, V) ==
    \A i \in Options(t, a, V) : TakesValue(t, a[i]) =>
        IF i < Len(a) THEN a[i + 1] # ""
        ELSE \E j \in Occurs(a, V, GroupOf(t, a[i]), Len(a)) : j < i

OperandsAt(t, a, V) ==
    {i \in (1..Len(a)) \ (Options(t, a, V) \cup V) :
        i > 1 /\ \A j \in Options(t, a, V) : j < i}

\* The occurrences of an option but one at the very end.
LEMMA OccursBefore ==
    ASSUME NEW S, NEW a \in Seq(S), NEW t, NEW V, NEW g \in Groups(t)
    PROVE  /\ Occurs(a, V, g, Len(a)) = {i \in Options(t, a, V) : a[i] \in Flags[g]}
           /\ \A i : i \in Occurs(a, V, g, Len(a) - 1) <=>
                       i \in Occurs(a, V, g, Len(a)) /\ i < Len(a)
           /\ Occurs(a, V, g, Len(a) - 1) \subseteq 1..Len(a)
           /\ \A i \in Occurs(a, V, g, Len(a)) : i \in 1..Len(a) /\ i <= Len(a)
<1>1. Occurs(a, V, g, Len(a)) = {i \in Options(t, a, V) : a[i] \in Flags[g]}
  BY FlagGroups DEF Occurs, Options
<1>2. \A i : i \in 1..(Len(a) - 1) <=> i \in 1..Len(a) /\ i < Len(a)
  OBVIOUS
<1>3. \A i : i \in Occurs(a, V, g, Len(a) - 1) <=>
               i \in Occurs(a, V, g, Len(a)) /\ i < Len(a)
  BY <1>2 DEF Occurs
<1>4. QED
  BY <1>1, <1>3 DEF Occurs

\* With complete arguments, each option in use has its values, and the first
\* one is the word behind its first occurrence.
LEMMA ExpectedIsComplete ==
    ASSUME NEW S, NEW a \in Seq(S), NEW t, NEW V, ValuesAt(t, a, V)
    PROVE  LET p == Parse(t, a)
           IN  /\ p.isSet = {g \in Groups(t) : Occurs(a, V, g, Len(a)) # {}}
               /\ GotExpected(p) <=> CompleteAt(t, a, V)
               /\ GotExpected(p) => \A g \in p.isSet \ {"help"} :
                    \E i \in Occurs(a, V, g, Len(a)) :
                       (\A j \in Occurs(a, V, g, Len(a)) : i <= j) /\ GetString(p, g) = a[i + 1]
<1> DEFINE n == Len(a)
           p == Parse(t, a)
           at(g) == Occurs(a, V, g, n)
           before(g) == Occurs(a, V, g, n - 1)
           Part == {<< >>} \cup {<<w>> : w \in S}
<1>1. /\ p.isSet = {g \in Groups(t) : at(g) # {}}
      /\ p.args \in [Group -> Seq(Part)]
      /\ p.args["help"] = << >>
      /\ \A g \in Groups(t) \ {"help"} : ArgsRight(a, before(g), p.args[g])
  <2>1. p.isSet = ReadOptions(t, a).isSet /\ p.args = ReadOptions(t, a).args
    BY DEF Parse
  <2>2. ReadOptions(t, a) \in Reading(S) /\ ReadRight(t, a, V, ReadOptions(t, a), n)
    BY ReadAll
  <2>3. QED
    BY <2>1, <2>2 DEF Reading, ReadRight, SetRight
<1> DEFINE has(g) == before(g) # {} /\ \A i \in before(g) : a[i + 1] # ""
<1> HIDE DEF p
<1>2. ASSUME NEW g \in Groups(t) \ {"help"}
      PROVE  has(g) <=> /\ p.args[g] # << >>
                        /\ \A j \in DOMAIN p.args[g] : Len(p.args[g][j]) = 1
  <2>1. p.args[g] \in Seq(Part)
    BY <1>1, FlagFacts
  <2>2. \A x \in Part : Len(x) = 1 <=> x # << >>
    <3>1. ASSUME NEW w \in S PROVE Len(<<w>>) = 1 /\ <<w>> # << >>
      OBVIOUS
    <3>2. Len(<< >>) # 1
      OBVIOUS
    <3>3. QED
      BY <3>1, <3>2, Zenon
  <2> HIDE DEF Part
  <2>3. /\ DOMAIN p.args[g] = 1..Len(p.args[g])
        /\ \A j \in 1..Len(p.args[g]) : p.args[g][j] \in Part
    BY <2>1
  <2>4. ArgsRight(a, before(g), p.args[g])
    BY <1>1
  <2> HIDE DEF before
  <2>5. QED
    BY <2>2, <2>3, <2>4 DEF ArgsRight
<1>3. GotExpected(p) <=> \A g \in p.isSet \ {"help"} : has(g)
  <2>1. ExpectArgs["help"] = 0 /\ \A g \in Group \ {"help"} : ExpectArgs[g] = 1
    BY FlagFacts DEF Group
  <2>2. p.isSet \subseteq Groups(t) /\ Groups(t) \subseteq Group
    BY <1>1, FlagFacts
  <2>3. DOMAIN p.args["help"] = {}
    BY <1>1
  <2>4. ASSUME NEW g \in p.isSet
        PROVE  (/\ ExpectArgs[g] # 0 => p.args[g] # << >>
                /\ \A j \in DOMAIN p.args[g] : Len(p.args[g][j]) = ExpectArgs[g])
               <=> (g = "help" \/ has(g))
    <3> HIDE DEF has
    <3>1. CASE g = "help"
      BY <2>1, <2>3, <3>1
    <3>2. CASE g # "help"
      <4>1. g \in Groups(t) \ {"help"} /\ ExpectArgs[g] = 1
        BY <2>1, <2>2, <3>2
      <4>2. QED
        BY <1>2, <3>2, <4>1
    <3>3. QED
      BY <3>1, <3>2
  <2> HIDE DEF has
  <2>5. QED
    BY <2>4 DEF GotExpected
<1>4. \A g \in Groups(t) : /\ \A i : i \in before(g) <=> i \in at(g) /\ i < n
                           /\ \A i : i \in at(g) <=> i \in Options(t, a, V) /\ a[i] \in Flags[g]
                           /\ \A i \in at(g) : i \in 1..n /\ i <= n
  <2> SUFFICES ASSUME NEW g \in Groups(t)
               PROVE  /\ \A i : i \in before(g) <=> i \in at(g) /\ i < n
                      /\ \A i : i \in at(g) <=> i \in Options(t, a, V) /\ a[i] \in Flags[g]
                      /\ \A i \in at(g) : i \in 1..n /\ i <= n
    OBVIOUS
  <2>1. at(g) = {i \in Options(t, a, V) : a[i] \in Flags[g]}
    BY OccursBefore
  <2>2. \A i : i \in before(g) <=> i \in at(g) /\ i < n
    BY OccursBefore
  <2>3. \A i \in at(g) : i \in 1..n /\ i <= n
    BY OccursBefore
  <2>4. QED
    BY <2>1, <2>2, <2>3
<1>5. CompleteAt(t, a, V) <=> \A g \in p.isSet \ {"help"} : has(g)
  <2>1. ASSUME CompleteAt(t, a, V), NEW g \in p.isSet \ {"help"} PROVE has(g)
    <3>1. g \in Groups(t) /\ at(g) # {}
      BY <1>1
    <3>2. ASSUME NEW i \in at(g)
          PROVE  IF i < n THEN a[i + 1] # "" ELSE \E j \in at(g) : j < i
      <4>1. i \in Options(t, a, V) /\ GroupOf(t, a[i]) = g /\ TakesValue(t, a[i])
        BY <1>4, <3>1, FlagGroups, TakesValues
      <4>2. QED
        BY <2>1, <4>1 DEF CompleteAt
    <3>3. before(g) # {}
      <4>1. PICK i \in at(g) : TRUE
        BY <3>1
      <4>2. CASE i < n
        BY <1>4, <3>1, <4>2
      <4>3. CASE ~(i < n)
        <5>1. PICK j \in at(g) : j < i
          BY <3>2, <4>3
        <5>2. j < n
          <6>1. i \in 1..n /\ j \in 1..n /\ i <= n
            BY <1>4, <3>1
          <6>2. QED
            BY <5>1, <6>1
        <5>3. QED
          BY <1>4, <3>1, <5>2
      <4>4. QED
        BY <4>2, <4>3
    <3>4. \A i \in before(g) : a[i + 1] # ""
      BY <1>4, <3>1, <3>2
    <3>5. QED
      BY <3>3, <3>4
  <2>2. ASSUME \A g \in p.isSet \ {"help"} : has(g),
               NEW i \in Options(t, a, V), TakesValue(t, a[i])
        PROVE  IF i < n THEN a[i + 1] # "" ELSE \E j \in at(GroupOf(t, a[i])) : j < i
    <3> DEFINE g == GroupOf(t, a[i])
    <3>1. g \in Groups(t) \ {"help"} /\ a[i] \in Flags[g]
      BY <2>2, FlagGroups, TakesValues
    <3>2. i \in at(g)
      BY <1>4, <3>1
    <3>3. has(g)
      BY <1>1, <2>2, <3>1, <3>2
    <3>4. CASE i < n
      BY <1>4, <3>1, <3>2, <3>3, <3>4
    <3>5. CASE ~(i < n)
      <4>1. PICK j \in before(g) : TRUE
        BY <3>3
      <4>2. j \in at(g) /\ j < n /\ i \in 1..n
        BY <1>4, <3>1, <3>2
      <4>3. j < i
        BY <3>5, <4>2, <1>4, <3>1
      <4>4. QED
        BY <3>5, <4>2, <4>3
    <3>6. QED
      BY <3>4, <3>5
  <2>3. QED
    BY <2>1, <2>2 DEF CompleteAt
<1>6. ASSUME GotExpected(p), NEW g \in p.isSet \ {"help"}
      PROVE  \E i \in at(g) : (\A j \in at(g) : i <= j) /\ GetString(p, g) = a[i + 1]
  <2>1. g \in Groups(t) \ {"help"} /\ has(g)
    BY <1>1, <1>3, <1>6
  <2>2. PICK i \in before(g) : (\A j \in before(g) : i <= j) /\ p.args[g][1] = SplitDelim(a[i + 1])
    BY <1>1, <2>1 DEF ArgsRight
  <2>3. a[i + 1] # ""
    BY <2>1
  <2>4. p.args[g] # << >> /\ p.args[g][1] = <<a[i + 1]>>
    BY <1>2, <2>1, <2>2, <2>3 DEF SplitDelim
  <2>5. GetString(p, g) = a[i + 1]
    BY <1>6, <2>4 DEF GetString
  <2>6. i \in at(g) /\ \A j \in at(g) : i <= j
    <3>1. i \in at(g) /\ i < n /\ i \in 1..n
      BY <1>4, <2>1
    <3>2. ASSUME NEW j \in at(g) PROVE i <= j
      <4>1. j \in 1..n
        BY <1>4, <2>1
      <4>2. CASE j < n
        BY <1>4, <2>1, <2>2, <4>2
      <4>3. CASE ~(j < n)
        BY <3>1, <4>1, <4>3
      <4>4. QED
        BY <4>2, <4>3
    <3>3. QED
      BY <3>1, <3>2
  <2>7. QED
    BY <2>5, <2>6
<1>7. QED
  BY <1>1, <1>3, <1>5, <1>6 DEF p

\* The words that are left are those behind the last option and its value.
LEMMA OperandsLeft ==
    ASSUME NEW S, NEW a \in Seq(S), a # << >>, NEW t, NEW V, ValuesAt(t, a, V)
    PROVE  LET p == Parse(t, a)
               operands == OperandsAt(t, a, V)
           IN  /\ Cardinality(operands) = 1 <=> Len(p.lastArgs) = 1
               /\ Len(p.lastArgs) = 1 => operands = {Len(a)} /\ p.lastArgs[1] = a[Len(a)]
<1> DEFINE n == Len(a)
           o == ReadOptions(t, a)
           operands == OperandsAt(t, a, V)
           lastArgs == Parse(t, a).lastArgs
<1>1. o \in Reading(S) /\ ReadRight(t, a, V, o, n) /\ n \in Nat \ {0}
  BY ReadAll
<1>2. lastArgs = IF o.expecting # "nothing" THEN << >>
                 ELSE IF o.isSet = {} THEN Tail(a) ELSE SubSeq(a, o.last + 1, n)
  BY DEF Parse
<1>3. /\ o.isSet = {g \in Groups(t) : Occurs(a, V, g, n) # {}}
      /\ o.expecting = IF n > 0 /\ n \notin V /\ TakesValue(t, a[n]) THEN GroupOf(t, a[n])
                       ELSE "nothing"
      /\ o.last \in 0..n
      /\ o.last # 0 => o.last \in V \/ IsFlag(t, a[o.last])
      /\ \A i \in 1..n : i \in V \/ IsFlag(t, a[i]) =>
                           i <= o.last \/ (i = n /\ o.expecting # "nothing")
  BY <1>1 DEF ReadRight, SetRight, WaitsRight, LastRight
<1> HIDE DEF o, lastArgs
<1>4. \A i : i \in Options(t, a, V) <=> i \in 1..n /\ i \notin V /\ IsFlag(t, a[i])
  BY DEF Options
<1>5. \A i \in V : i \in 1..n /\ i - 1 \in Options(t, a, V) /\ i - 1 < i
  <2> SUFFICES ASSUME NEW i \in V
               PROVE  i \in 1..n /\ i - 1 \in Options(t, a, V) /\ i - 1 < i
    OBVIOUS
  <2>1. i \in 1..n /\ i > 1 /\ i - 1 \notin V /\ TakesValue(t, a[i - 1])
    BY DEF ValuesAt
  <2>2. i - 1 \in 1..n
    BY <1>1, <2>1
  <2>3. QED
    BY <1>4, <2>1, <2>2, TakesValues
<1>6. CASE o.expecting # "nothing"
  <2>1. n \in Options(t, a, V)
    BY <1>1, <1>3, <1>4, <1>6, TakesValues
  <2>2. operands = {}
    <3>1. \A i \in operands : i \in 1..n /\ n < i
      BY <2>1 DEF OperandsAt
    <3>2. QED
      BY <1>1, <3>1
  <2>3. Len(lastArgs) = 0
    BY <1>2, <1>6
  <2>4. Cardinality(operands) = 0
    BY <2>2, FS_EmptySet
  <2>5. QED
    BY <2>3, <2>4 DEF lastArgs
<1>7. CASE o.expecting = "nothing"
  <2> DEFINE L == IF o.isSet = {} THEN 1 ELSE o.last
  <2>1. ASSUME o.isSet = {}
        PROVE  /\ L \in 1..n /\ operands = (L + 1)..n
               /\ Len(lastArgs) = n - L /\ (n - L = 1 => lastArgs[1] = a[n])
    <3>1. Options(t, a, V) = {}
      <4>1. ASSUME NEW i \in Options(t, a, V) PROVE FALSE
        <5>1. GroupOf(t, a[i]) \in Groups(t) /\ i \in Occurs(a, V, GroupOf(t, a[i]), n)
          BY <1>4, FlagGroups DEF Occurs
        <5>2. QED
          BY <1>3, <2>1, <5>1
      <4>2. QED
        BY <4>1
    <3>2. V = {}
      BY <1>5, <3>1
    <3>3. operands = (L + 1)..n
      BY <1>1, <2>1, <3>1, <3>2 DEF OperandsAt
    <3>4. lastArgs = Tail(a)
      BY <1>2, <1>7, <2>1
    <3>5. Len(lastArgs) = n - L /\ (n - L = 1 => lastArgs[1] = a[n])
      <4>1. Len(Tail(a)) = n - 1 /\ (n = 2 => Tail(a)[1] = a[2])
        BY <1>1
      <4>2. QED
        BY <1>1, <2>1, <3>4, <4>1
    <3>6. L \in 1..n
      BY <1>1, <2>1
    <3>7. QED
      BY <3>3, <3>5, <3>6
  <2>2. ASSUME o.isSet # {}
        PROVE  /\ L \in 1..n /\ operands = (L + 1)..n
               /\ Len(lastArgs) = n - L /\ (n - L = 1 => lastArgs[1] = a[n])
    <3>1. PICK i \in Options(t, a, V) : TRUE
      <4>1. PICK g \in Groups(t) : Occurs(a, V, g, n) # {}
        BY <1>3, <2>2
      <4>2. PICK i \in Occurs(a, V, g, n) : TRUE
        BY <4>1
      <4>3. i \in Options(t, a, V)
        BY <1>4, FlagGroups DEF Occurs
      <4>4. QED
        BY <4>3
    <3>2. L = o.last /\ L \in 1..n
      <4>1. i \in 1..n /\ i <= o.last
        BY <1>3, <1>4, <1>7, <3>1
      <4>2. QED
        BY <1>1, <1>3, <2>2, <4>1
    <3>3. \A j \in 1..n : j \in V \/ IsFlag(t, a[j]) => j <= L
      BY <1>3, <1>7, <3>2
    <3>4. ASSUME NEW j \in 1..n PROVE j \in operands <=> j > L
      <4>1. ASSUME j > L PROVE j \in operands
        <5>1. j \notin V /\ j \notin Options(t, a, V) /\ j > 1
          BY <1>4, <3>2, <3>3, <4>1
        <5>2. ASSUME NEW k \in Options(t, a, V) PROVE k < j
          <6>1. k \in 1..n /\ k <= L
            BY <1>4, <3>3
          <6>2. QED
            BY <3>2, <4>1, <6>1
        <5>3. QED
          BY <5>1, <5>2 DEF OperandsAt
      <4>2. ASSUME j \in operands PROVE j > L
        <5>1. j \notin V /\ \A k \in Options(t, a, V) : k < j
          BY <4>2 DEF OperandsAt
        <5>2. L \in V \/ IsFlag(t, a[L])
          BY <1>3, <3>2
        <5>3. CASE L \in V
          <6>1. L - 1 < j /\ L # j
            BY <1>5, <5>1, <5>3
          <6>2. QED
            BY <3>2, <6>1
        <5>4. CASE L \notin V
          BY <1>4, <3>2, <5>1, <5>2, <5>4
        <5>5. QED
          BY <5>3, <5>4
      <4>3. QED
        BY <4>1, <4>2
    <3>5. operands = (L + 1)..n
      <4>1. \A j \in operands : j \in 1..n
        BY DEF OperandsAt
      <4>2. \A j : j \in (L + 1)..n <=> j \in 1..n /\ j > L
        BY <1>1, <3>2
      <4> HIDE DEF operands, L
      <4>3. QED
        BY <3>4, <4>1, <4>2
    <3>6. lastArgs = SubSeq(a, L + 1, n)
      BY <1>2, <1>7, <2>2
    <3>7. Len(lastArgs) = n - L /\ (n - L = 1 => lastArgs[1] = a[n])
      <4> HIDE DEF L
      <4>1. Len(lastArgs) = n - L
        BY <1>1, <3>2, <3>6
      <4>2. ASSUME n - L = 1 PROVE lastArgs[1] = a[n]
        <5>1. L + 1 = n
          BY <1>1, <3>2, <4>2
        <5>2. QED
          BY <1>1, <3>6, <5>1
      <4>3. QED
        BY <4>1, <4>2
    <3>8. QED
      BY <3>2, <3>5, <3>7
  <2>3. L \in 1..n /\ operands = (L + 1)..n
        /\ Len(lastArgs) = n - L /\ (n - L = 1 => lastArgs[1] = a[n])
    BY <2>1, <2>2
  <2> HIDE DEF L, operands
  <2>4. Cardinality(operands) = IF L + 1 > n THEN 0 ELSE n - (L + 1) + 1
    <3>1. L + 1 \in Int /\ n \in Int
      BY <1>1, <2>3
    <3>2. QED
      BY <2>3, <3>1, FS_Interval
  <2>5. Cardinality(operands) = 1 <=> n - L = 1
    BY <1>1, <2>3, <2>4
  <2>6. n - L = 1 => operands = {n}
    <3>1. n - L = 1 => L + 1 = n
      BY <1>1, <2>3
    <3>2. n..n = {n}
      BY <1>1
    <3>3. QED
      BY <2>3, <3>1, <3>2
  <2>7. QED
    BY <2>3, <2>5, <2>6 DEF lastArgs, operands
<1>8. QED
  BY <1>6, <1>7

\* What the options that take values are given.
AskedAt(t, a, V, g) == LET at == Occurs(a, V, g, Len(a))
                       IN  IF at = {} THEN Defaults[g] ELSE a[Min(at) + 1]

LEMMA StringsAreAsked ==
    ASSUME NEW S, NEW a \in Seq(S), NEW t, NEW V, ValuesAt(t, a, V),
           GotExpected(Parse(t, a)), NEW g \in Groups(t) \ {"help"}
    PROVE  GetString(Parse(t, a), g) = AskedAt(t, a, V, g)
<1> DEFINE p == Parse(t, a)
           at == Occurs(a, V, g, Len(a))
<1>1. /\ g \in p.isSet <=> at # {}
      /\ g \in p.isSet => \E i \in at : (\A j \in at : i <= j) /\ GetString(p, g) = a[i + 1]
  BY ExpectedIsComplete
<1>2. CASE at = {}
  BY <1>1, <1>2 DEF GetString, AskedAt
<1>3. CASE at # {}
  <2>1. PICK i \in at : (\A j \in at : i <= j) /\ GetString(p, g) = a[i + 1]
    BY <1>1, <1>3
  <2>2. at \subseteq Nat
    BY DEF Occurs
  <2>3. Min(at) = i
    <3>1. \A x, y \in at : x <= y /\ y <= x => x = y
      BY <2>2
    <3> HIDE DEF at
    <3>2. \E x \in at : \A y \in at : x <= y
      BY <2>1
    <3>3. Min(at) \in at /\ \A y \in at : Min(at) <= y
      BY <3>2 DEF Min
    <3>4. QED
      BY <2>1, <3>1, <3>3
  <2>4. QED
    BY <1>3, <2>1, <2>3 DEF AskedAt
<1>4. QED
  BY <1>2, <1>3

\* The decision of main, in terms of the positions of the words.
LEMMA DecisionAt ==
    ASSUME NEW S, NEW a \in Seq(S), a # << >>, NEW V, NEW t, NEW d,
           \/ t = "mjc" /\ d = MjcMain(a)
           \/ t = "mji" /\ d = MjiMain(a),
           ValuesAt(t, a, V)
    PROVE  LET complete == CompleteAt(t, a, V)
               helped == Occurs(a, V, "help", Len(a)) # {}
               operands == OperandsAt(t, a, V)
               starts == /\ complete /\ ~helped /\ Cardinality(operands) = 1
                         /\ t = "mjc" => AskedAt(t, a, V, "type") \in OutputType
           IN  /\ d.does = "run" <=> starts
               /\ starts => /\ operands = {Len(a)} /\ d.input = a[Len(a)]
                            /\ t = "mjc" => /\ d.type = AskedAt(t, a, V, "type")
                                            /\ d.level = Atoi(AskedAt(t, a, V, "level"))
               /\ d = Exit("0") <=> complete /\ helped
<1> DEFINE p == Parse(t, a)
           complete == CompleteAt(t, a, V)
           helped == Occurs(a, V, "help", Len(a)) # {}
           operands == OperandsAt(t, a, V)
           asked(g) == AskedAt(t, a, V, g)
           starts == /\ complete /\ ~helped /\ Cardinality(operands) = 1
                     /\ t = "mjc" => asked("type") \in OutputType
<1>1. GotExpected(p) <=> complete
  BY ExpectedIsComplete
<1>2. "help" \in p.isSet <=> helped
  <2>1. p.isSet = {g \in Groups(t) : Occurs(a, V, g, Len(a)) # {}}
    BY ExpectedIsComplete
  <2>2. QED
    BY <2>1, FlagFacts
<1>3. Cardinality(operands) = 1 <=> Len(p.lastArgs) = 1
  BY OperandsLeft
<1>4. Len(p.lastArgs) = 1 => operands = {Len(a)} /\ p.lastArgs[1] = a[Len(a)]
  BY OperandsLeft
<1>5. ASSUME t = "mjc", complete
      PROVE  GetString(p, "type") = asked("type") /\ GetString(p, "level") = asked("level")
  <2>1. "type" \in Groups(t) \ {"help"} /\ "level" \in Groups(t) \ {"help"}
    BY <1>5, FlagFacts DEF Group
  <2>2. QED
    BY <1>1, <1>5, <2>1, StringsAreAsked
<1> HIDE DEF p, complete, helped, operands, asked
<1>6. Usable(p) <=> complete /\ ~helped /\ Cardinality(operands) = 1
  BY <1>1, <1>2, <1>3 DEF Usable
<1>7. Refuse(p) = Exit(IF complete /\ helped THEN "0" ELSE "1")
  BY <1>1, <1>2 DEF Refuse
<1>8. /\ d.does = "run" <=> starts
      /\ starts => /\ d.input = p.lastArgs[1]
                   /\ t = "mjc" => /\ d.type = asked("type")
                                   /\ d.level = Atoi(asked("level"))
      /\ ~starts => d = Refuse(p)
  <2>1. Refuse(p).does = "exit"
    BY <1>7 DEF Exit
  <2>2. CASE t = "mjc"
    <3>1. d = IF Usable(p) /\ GetString(p, "type") \in OutputType
              THEN [does |-> "run", input |-> p.lastArgs[1], type |-> GetString(p, "type"),
                    level |-> GetInt(p, "level")]
              ELSE Refuse(p)
      BY <2>2 DEF MjcMain, p
    <3>2. Usable(p) /\ GetString(p, "type") \in OutputType <=> starts
      BY <1>5, <1>6, <2>2
    <3>3. CASE starts
      <4>1. GetString(p, "type") = asked("type") /\ GetInt(p, "level") = Atoi(asked("level"))
        BY <1>5, <2>2, <3>3 DEF GetInt
      <4> HIDE DEF starts
      <4>2. QED
        BY <3>1, <3>2, <3>3, <4>1
    <3>4. CASE ~starts
      <4> HIDE DEF starts
      <4>1. d = Refuse(p)
        BY <3>1, <3>2, <3>4
      <4>2. QED
        BY <2>1, <3>4, <4>1
    <3>5. QED
      BY <3>3, <3>4
  <2>3. CASE t = "mji"
    <3>1. d = IF Usable(p)
              THEN [does |-> "run", input |-> p.lastArgs[1], type |-> "run", level |-> 0]
              ELSE Refuse(p)
      BY <2>3 DEF MjiMain, p
    <3>2. Usable(p) <=> starts
      BY <1>6, <2>3
    <3>3. t # "mjc"
      BY <2>3
    <3> HIDE DEF starts
    <3>4. CASE starts
      BY <3>1, <3>2, <3>3, <3>4
    <3>5. CASE ~starts
      <4>1. d = Refuse(p)
        BY <3>1, <3>2, <3>5
      <4>2. QED
        BY <2>1, <3>5, <4>1
    <3>6. QED
      BY <3>4, <3>5
  <2>4. QED
    BY <2>2, <2>3
<1>9. d = Exit("0") <=> complete /\ helped
  <2>1. Exit("0").does = "exit" /\ Exit("0") # Exit("1")
    BY DEF Exit
  <2>2. CASE starts
    BY <1>8, <2>1, <2>2
  <2>3. CASE ~starts
    BY <1>7, <1>8, <2>1, <2>3
  <2>4. QED
    BY <2>2, <2>3
<1>10. starts => operands = {Len(a)} /\ p.lastArgs[1] = a[Len(a)]
  BY <1>3, <1>4
<1>11. QED
  BY <1>8, <1>9, <1>10 DEF complete, helped, operands, asked

\* Whatever the arguments are, main decides what they say.
LEMMA DecisionsAreRight ==
    ASSUME NEW S, NEW a \in Seq(S), a # << >>
    PROVE  DecidesRight(a, Decide(a))
<1> DEFINE tool == a[1]
           t == IF tool = "mjc" THEN "mjc" ELSE "mji"
           V == Values(a)
           d == Decide(a)
           n == Len(a)
           options == {i \in DOMAIN a \ V : IsFlag(tool, a[i])}
           at == [g \in Groups(tool) |-> {i \in options : a[i] \in Flags[g]}]
           asked == [g \in Groups(tool) |-> IF at[g] = {} THEN Defaults[g]
                                            ELSE a[Min(at[g]) + 1]]
           complete == \A i \in options : TakesValue(tool, a[i]) =>
                          IF i < Len(a) THEN a[i + 1] # ""
                          ELSE \E j \in at[GroupOf(tool, a[i])] : j < i
           operands == {i \in DOMAIN a \ (options \cup V) :
                           i > 1 /\ \A j \in options : j < i}
           starts == /\ complete /\ at["help"] = {} /\ Cardinality(operands) = 1
                     /\ tool = "mjc" => asked["type"] \in OutputType
<1>1. \/ t = "mjc" /\ d = MjcMain(a)
      \/ t = "mji" /\ d = MjiMain(a)
  BY DEF Decide
<1>2. /\ Groups(t) = Groups(tool)
      /\ \A w : IsFlag(t, w) <=> IsFlag(tool, w)
      /\ \A w : GroupOf(t, w) = GroupOf(tool, w)
      /\ \A w : TakesValue(t, w) <=> TakesValue(tool, w)
  <2>1. Groups(t) = Groups(tool)
    BY DEF Groups
  <2> HIDE DEF t, tool
  <2>2. QED
    BY <2>1 DEF IsFlag, GroupOf, TakesValue
<1>3. ValuesAt(t, a, V)
  <2>1. ValuesAt(tool, a, V)
    BY ValuesAreAt
  <2> HIDE DEF t, tool, V
  <2>2. QED
    BY <1>2, <2>1 DEF ValuesAt
<1>4. t = "mjc" <=> tool = "mjc"
  OBVIOUS
<1>5. DOMAIN a = 1..n
  OBVIOUS
<1> HIDE DEF t, tool, V, d
<1>6. options = Options(t, a, V)
  BY <1>2, <1>5 DEF Options
<1>7. operands = OperandsAt(t, a, V)
  BY <1>5, <1>6 DEF OperandsAt
<1>8. \A g \in Groups(tool) : at[g] = Occurs(a, V, g, n)
  <2> SUFFICES ASSUME NEW g \in Groups(tool) PROVE at[g] = Occurs(a, V, g, n)
    OBVIOUS
  <2>1. Occurs(a, V, g, n) = {i \in Options(t, a, V) : a[i] \in Flags[g]}
    BY <1>2, OccursBefore
  <2>2. QED
    BY <1>6, <2>1
<1> HIDE DEF at
<1>9. "help" \in Groups(tool) /\ (tool = "mjc" => {"type", "level"} \subseteq Groups(tool))
  BY FlagFacts DEF Group
<1>10. tool = "mjc" => /\ asked["type"] = AskedAt(t, a, V, "type")
                       /\ asked["level"] = AskedAt(t, a, V, "level")
  BY <1>8, <1>9 DEF AskedAt
<1>11. complete <=> CompleteAt(t, a, V)
  <2>1. ASSUME NEW i \in options
        PROVE  at[GroupOf(tool, a[i])] = Occurs(a, V, GroupOf(t, a[i]), n)
    <3>1. IsFlag(tool, a[i])
      OBVIOUS
    <3>2. GroupOf(tool, a[i]) \in Groups(tool)
      BY <3>1, FlagGroups
    <3>3. QED
      BY <1>2, <1>8, <3>2
  <2> HIDE DEF options
  <2>2. QED
    BY <1>2, <1>6, <2>1 DEF CompleteAt
<1> HIDE DEF options, asked, complete, operands
<1>12. /\ d.does = "run" <=> starts
       /\ starts => /\ operands = {n} /\ d.input = a[n]
                    /\ tool = "mjc" => d.type = asked["type"] /\ d.level = Atoi(asked["level"])
       /\ d = Exit("0") <=> complete /\ at["help"] # {}
  <2>1. LET helped == Occurs(a, V, "help", n) # {}
            starting == /\ CompleteAt(t, a, V) /\ ~helped
                        /\ Cardinality(OperandsAt(t, a, V)) = 1
                        /\ t = "mjc" => AskedAt(t, a, V, "type") \in OutputType
        IN  /\ d.does = "run" <=> starting
            /\ starting => /\ OperandsAt(t, a, V) = {n} /\ d.input = a[n]
                           /\ t = "mjc" => /\ d.type = AskedAt(t, a, V, "type")
                                           /\ d.level = Atoi(AskedAt(t, a, V, "level"))
            /\ d = Exit("0") <=> CompleteAt(t, a, V) /\ helped
    BY <1>1, <1>3, DecisionAt
  <2>2. at["help"] = Occurs(a, V, "help", n)
    BY <1>8, <1>9
  <2>3. QED
    BY <1>4, <1>7, <1>10, <1>11, <2>1, <2>2
<1>13. starts => operands = {i \in DOMAIN a : i = n}
  <2>1. {i \in 1..n : i = n} = {n}
    <3>1. n \in Nat /\ n # 0
      OBVIOUS
    <3>2. QED
      BY <3>1
  <2>2. QED
    BY <1>5, <1>12, <2>1
<1>14. QED
  BY <1>12, <1>13
     DEF DecidesRight, options, at, asked, complete, operands, V, d, tool

-----------------------------------------------------------------------------
(* From the decision to the process.                                       *)

ArgsInv == phase = "args" => argv \in Argvs /\ run = Decide(argv)

LEMMA ArgsInvStep == ArgsInv /\ [DriverNext]_driverVars => ArgsInv'
<1> SUFFICES ASSUME ArgsInv, [DriverNext]_driverVars PROVE ArgsInv'
  OBVIOUS
<1>1. CASE UNCHANGED <<phase, argv, run>>
  BY <1>1 DEF ArgsInv
<1>2. CASE phase' # "args"
  BY <1>2 DEF ArgsInv
<1>3. CASE Start
  BY <1>3 DEF Start, ArgsInv
<1>4. CASE PrintTree
  BY <1>1, <1>4 DEF PrintTree, toolVars
<1>5. CASE Edit
  BY <1>1, <1>5 DEF Edit
<1>6. CASE Interrupt
  BY <1>2, <1>6 DEF Interrupt, End
<1>7. CASE EndArgs \/ ParseFile \/ OpenOutput
  BY <1>2, <1>7 DEF EndArgs, ParseFile, OpenOutput, End, GoTo
<1>8. CASE EndPrint \/ NoTree \/ Check \/ Build \/ CreatePasses \/ Emit \/ ExitMain \/ Jit
  BY <1>2, <1>8
     DEF EndPrint, NoTree, Check, Build, CreatePasses, Emit, ExitMain, Jit, End, GoTo
<1>9. CASE Stopped
  BY <1>1, <1>9 DEF Stopped, driverVars, toolVars
<1>10. CASE UNCHANGED driverVars
  BY <1>1, <1>10 DEF driverVars, toolVars
<1>11. QED
  BY <1>3, <1>4, <1>5, <1>6, <1>7, <1>8, <1>9, <1>10 DEF DriverNext, Compile

\* What is run, and with which values, is what the arguments say, for all
\* words, in any number and order (OptionParser::parse, mjc.cpp, mji.cpp).
THEOREM ArgumentsDecideInvariant == DriverSpec => []ArgumentsDecide
<1>1. DriverInit => ArgsInv
  BY DEF DriverInit, ArgsInv
<1>2. ArgsInv => ArgumentsDecide
  <2> SUFFICES ASSUME ArgsInv, phase = "args" PROVE DecidesRight(argv, run)
    BY DEF ArgumentsDecide
  <2>1. argv \in Argvs /\ run = Decide(argv)
    BY DEF ArgsInv
  <2>2. argv \in Seq(Word \cup {"mjc", "mji"}) /\ argv # << >>
    BY <2>1, DriverAssumption
  <2>3. DecidesRight(argv, Decide(argv))
    BY <2>2, DecisionsAreRight
  <2>4. QED
    BY <2>1, <2>3
<1>3. QED
  BY <1>1, <1>2, ArgsInvStep, PTL DEF DriverSpec

-----------------------------------------------------------------------------
(* What the printed tree is read as.                                      *)

LEMMA FrontFacts ==
    ASSUME NEW S, NEW s \in Seq(S), s # << >>
    PROVE  /\ Front(s) \in Seq(S) /\ Len(Front(s)) = Len(s) - 1
           /\ \A i \in 1..(Len(s) - 1) : Front(s)[i] = s[i]
<1> DEFINE n == Len(s) - 1
           t == SubSeq(s, 1, n)
<1>1. Front(s) = t
  BY DEF Front
<1>2. n \in Nat /\ \A i \in 1..n : s[i] \in S
  OBVIOUS
<1> HIDE DEF n
<1>3. /\ t \in Seq(S)
      /\ Len(t) = IF 1 <= n THEN n - 1 + 1 ELSE 0
      /\ \A i \in 1..(n - 1 + 1) : t[i] = s[1 + i - 1]
  BY <1>2, SubSeqProperties
<1> HIDE DEF t
<1>4. Len(t) = n /\ \A i \in 1..n : t[i] = s[i]
  BY <1>2, <1>3
<1>5. QED
  BY <1>1, <1>3, <1>4 DEF n

\* What is read from such items: a leaf is a word.
Words == (Text \cup {"special", "inner"}) \ Unreadable
Sign == {Open, <<"close">>, <<"glued">>}
        \cup {<<"node", s>> : s \in Text \cup {Blank, "(", ")", "special", "inner"}}
        \cup {<<"leaf", s>> : s \in Words}

LEMMA ReadItemOK ==
    ASSUME NEW r \in Seq(Sign), NEW b, NEW x \in Item, NEW new, new = ReadItem(r, b, x)
    PROVE  new \in Seq(Sign)
<1>1. CASE x.is = "line" \/ x.by = Blank
  BY <1>1 DEF ReadItem
<1>2. CASE ~(x.is = "line" \/ x.by = Blank)
  <2>1. PICK s \in Text \cup {Blank, "(", ")", "special", "inner"} : x = Piece(s)
    BY <1>2 DEF Item, Line
  <2>2. x.by = s /\ s # Blank
    BY <1>2, <2>1 DEF Piece
  <2>3. Front(r) \in Seq(Sign)
    <3>1. CASE r = << >>
      BY <3>1 DEF Front
    <3>2. CASE r # << >>
      BY <3>2, FrontFacts
    <3>3. QED
      BY <3>1, <3>2
  <2> DEFINE y == CASE s = "(" -> Open [] s = ")" -> <<"close">> [] OTHER -> <<"leaf", s>>
             f == Front(r)
  <2>4. y \in Sign /\ <<"node", s>> \in Sign /\ <<"glued">> \in Sign
    <3>1. s = "(" \/ s = ")" \/ s \in Words
      BY <2>2 DEF Words, Unreadable
    <3>2. CASE s = "(" \/ s = ")"
      BY <3>2 DEF Sign
    <3>3. CASE s \in Words
      <4>1. s # "(" /\ s # ")"
        BY <3>3 DEF Words, Unreadable
      <4>2. QED
        BY <3>3, <4>1 DEF Sign
    <3>4. QED
      BY <3>1, <3>2, <3>3
  <2> HIDE DEF y, f
  <2>5. new = Append(f, <<"node", s>>) \/ new = Append(f, <<"glued">>) \/ new = Append(r, y)
    <3>1. CASE r # << >> /\ Last(r) = Open
      BY <1>2, <2>2, <3>1 DEF ReadItem, f
    <3>2. CASE ~(r # << >> /\ Last(r) = Open) /\ IsWord(b) /\ IsWord(x)
      BY <1>2, <2>2, <3>2 DEF ReadItem, f
    <3>3. CASE ~(r # << >> /\ Last(r) = Open) /\ ~(IsWord(b) /\ IsWord(x))
      BY <1>2, <2>2, <3>3 DEF ReadItem, y
    <3>4. QED
      BY <3>1, <3>2, <3>3
  <2>6. f \in Seq(Sign)
    BY <2>3 DEF f
  <2>7. \A q \in Seq(Sign) : \A z \in Sign : Append(q, z) \in Seq(Sign)
    OBVIOUS
  <2>8. QED
    BY <2>4, <2>5, <2>6, <2>7, Zenon
<1>3. QED
  BY <1>1, <1>2

\* The reading of a text, item by item.
ReadsInto(f, t) ==
    /\ f \in [0..Len(t) -> Seq(Sign)] /\ f[0] = << >>
    /\ \A i \in 1..Len(t) : f[i] = ReadItem(f[i - 1], ItemBefore(t, i), t[i])

LEMMA ReadsSteps ==
    ASSUME NEW t \in Seq(Item)
    PROVE  \E f : ReadsInto(f, t) /\ Read(t) = f[Len(t)]
<1> DEFINE n == Len(t)
           R == Seq(Sign)
           step == [i \in 1..n |-> [r \in R |-> ReadItem(r, ItemBefore(t, i), t[i])]]
           read == CHOOSE f :
                     f = [i \in 0..n |-> IF i = 0 THEN << >>
                                         ELSE ReadItem(f[i - 1], ItemBefore(t, i), t[i])]
<1>1. n \in Nat /\ (\A i \in 1..n : t[i] \in Item) /\ << >> \in R
  OBVIOUS
<1>2. PICK f : DefinedBy(f, R, << >>, n, step)
  <2>1. step \in [1..n -> [R -> R]]
    <3>1. ASSUME NEW i \in 1..n, NEW r \in R PROVE ReadItem(r, ItemBefore(t, i), t[i]) \in R
      <4> DEFINE x == t[i]
                 b == ItemBefore(t, i)
                 new == ReadItem(r, b, x)
      <4>1. x \in Item /\ r \in Seq(Sign) /\ new = ReadItem(r, b, x)
        BY <1>1
      <4>2. new \in Seq(Sign)
        <5> HIDE DEF x, b, new
        <5> QED
          BY ONLY <4>1, ReadItemOK, Zenon
      <4>3. QED
        BY <4>2
    <3> HIDE DEF R, n
    <3>2. QED
      BY <3>1
  <2> HIDE DEF step, n, R
  <2>2. QED
    BY ONLY <1>1, <2>1, Recursion
<1> HIDE DEF R
<1>3. f \in [0..n -> R] /\ f[0] = << >>
  BY <1>2 DEF DefinedBy
<1>4. ASSUME NEW i \in 1..n PROVE f[i] = ReadItem(f[i - 1], ItemBefore(t, i), t[i])
  <2>1. i - 1 \in 0..n /\ f[i - 1] \in R
    BY <1>1, <1>3
  <2>2. f[i] = step[i][f[i - 1]]
    BY <1>2 DEF DefinedBy
  <2>3. QED
    BY <2>1, <2>2
<1>5. f = [i \in 0..n |-> IF i = 0 THEN << >>
                            ELSE ReadItem(f[i - 1], ItemBefore(t, i), t[i])]
  <2>1. \A i \in 0..n : i = 0 \/ i \in 1..n
    OBVIOUS
  <2> HIDE DEF n
  <2>2. QED
    BY <1>3, <1>4, <2>1
<1>6. read = [i \in 0..n |-> IF i = 0 THEN << >>
                               ELSE ReadItem(read[i - 1], ItemBefore(t, i), t[i])]
  <2> HIDE DEF n
  <2> QED
    BY <1>5
<1>7. Read(t) = read[n]
  BY DEF Read
<1> HIDE DEF read
<1>8. /\ read \in [0..n -> R] /\ read[0] = << >>
      /\ \A i \in 1..n : read[i] = ReadItem(read[i - 1], ItemBefore(t, i), t[i])
  <2>1. read[0] = << >>
    <3>1. 0 \in 0..n
      BY <1>1
    <3>2. QED
      BY <1>6, <3>1
  <2>2. ASSUME NEW i \in 1..n PROVE read[i] = ReadItem(read[i - 1], ItemBefore(t, i), t[i])
    <3>1. i \in 0..n /\ i # 0
      BY <1>1
    <3>2. QED
      BY <1>6, <3>1
  <2>3. \A k \in 0..n : read[k] = f[k]
    <3> DEFINE T == {k \in Nat : k <= n => read[k] = f[k]}
    <3>1. 0 \in T
      BY <1>3, <2>1
    <3>2. ASSUME NEW k \in T PROVE k + 1 \in T
      <4> SUFFICES ASSUME k + 1 <= n PROVE read[k + 1] = f[k + 1]
        OBVIOUS
      <4>1. k + 1 \in 1..n /\ k + 1 - 1 = k /\ k <= n
        BY <1>1
      <4>2. read[k + 1] = ReadItem(read[k + 1 - 1], ItemBefore(t, k + 1), t[k + 1])
        BY <2>2, <4>1
      <4>3. f[k + 1] = ReadItem(f[k + 1 - 1], ItemBefore(t, k + 1), t[k + 1])
        BY <1>4, <4>1
      <4>4. QED
        BY <4>1, <4>2, <4>3
    <3>3. T = Nat
      <4> HIDE DEF T
      <4>1. T \in SUBSET Nat
        BY DEF T
      <4>2. QED
        BY ONLY <3>1, <3>2, <4>1, Induct
    <3>4. QED
      BY <1>1, <3>3
  <2>4. read \in [0..n -> R]
    <3>1. read = [i \in 0..n |-> read[i]]
      BY <1>6
    <3>2. \A i \in 0..n : read[i] \in R
      BY <1>3, <2>3
    <3>3. QED
      BY <3>1, <3>2
  <2>5. QED
    BY <2>1, <2>2, <2>4
<1>9. QED
  BY <1>7, <1>8 DEF ReadsInto, R

\* Reading goes on from where it was.
LEMMA ReadsOneMore ==
    ASSUME NEW t \in Seq(Item), NEW x \in Item, NEW u, u = Append(t, x)
    PROVE  /\ u \in Seq(Item) /\ Read(t) \in Seq(Sign)
           /\ Read(u) = ReadItem(Read(t), ItemBefore(u, Len(u)), x)
<1> DEFINE n == Len(t)
<1>1. /\ n \in Nat /\ u \in Seq(Item) /\ Len(u) = n + 1 /\ u[n + 1] = x
      /\ \A i \in 1..n : u[i] = t[i]
  OBVIOUS
<1>2. PICK f : ReadsInto(f, t) /\ Read(t) = f[n]
  BY ReadsSteps
<1>3. PICK g : ReadsInto(g, u) /\ Read(u) = g[n + 1]
  BY ReadsSteps, <1>1
<1> HIDE DEF n
<1>4. /\ f \in [0..n -> Seq(Sign)] /\ f[0] = << >>
      /\ \A i \in 1..n : f[i] = ReadItem(f[i - 1], ItemBefore(t, i), t[i])
  BY <1>2 DEF ReadsInto, n
<1>5. g[0] = << >> /\ \A i \in 1..(n + 1) : g[i] = ReadItem(g[i - 1], ItemBefore(u, i), u[i])
  BY <1>1, <1>3 DEF ReadsInto
<1>6. g[n] = f[n]
  <2> DEFINE T == {k \in Nat : k <= n => g[k] = f[k]}
  <2>1. 0 \in T
    BY <1>4, <1>5
  <2>2. ASSUME NEW k \in T PROVE k + 1 \in T
    <3> SUFFICES ASSUME k + 1 <= n PROVE g[k + 1] = f[k + 1]
      OBVIOUS
    <3>1. k + 1 \in 1..n /\ k + 1 \in 1..(n + 1) /\ k + 1 - 1 = k /\ k <= n
      BY <1>1
    <3>2. g[k + 1] = ReadItem(g[k + 1 - 1], ItemBefore(u, k + 1), u[k + 1])
      BY ONLY <1>5, <3>1
    <3>3. f[k + 1] = ReadItem(f[k + 1 - 1], ItemBefore(t, k + 1), t[k + 1])
      BY <1>4, <3>1
    <3>4. u[k + 1] = t[k + 1]
      BY <1>1, <3>1
    <3>5. ItemBefore(u, k + 1) = ItemBefore(t, k + 1)
      <4>1. k + 1 = 1 \/ k \in 1..n
        BY <1>1, <3>1
      <4>2. QED
        BY <1>1, <3>1, <4>1 DEF ItemBefore
    <3>6. QED
      BY <3>1, <3>2, <3>3, <3>4, <3>5
  <2>3. T = Nat
    <3> HIDE DEF T
    <3>1. T \in SUBSET Nat
      BY DEF T
    <3>2. QED
      BY ONLY <2>1, <2>2, <3>1, Induct
  <2>4. QED
    BY <1>1, <2>3
<1>7. n + 1 \in 1..(n + 1) /\ n + 1 - 1 = n /\ n \in 0..n
  BY <1>1
<1>8. g[n + 1] = ReadItem(g[n + 1 - 1], ItemBefore(u, n + 1), u[n + 1])
  BY ONLY <1>5, <1>7
<1>9. QED
  BY <1>1, <1>2, <1>3, <1>4, <1>6, <1>7, <1>8

LEMMA ReadsNothing == Read(<< >>) = << >>
<1>1. << >> \in Seq(Item) /\ Len(<< >>) = 0
  OBVIOUS
<1>2. PICK f : ReadsInto(f, << >>) /\ Read(<< >>) = f[Len(<< >>)]
  BY <1>1, ReadsSteps
<1>3. QED
  BY <1>1, <1>2 DEF ReadsInto

-----------------------------------------------------------------------------
\* What a tree is when it is read: from a tree without unreadable leaves every
\* event has been read so far.
Event == {"special", "inner", "close"} \cup Text
SignOf(e) == CASE e \in {"special", "inner"} -> <<"node", e>>
               [] e = "close" -> <<"close">>
               [] OTHER -> <<"leaf", e>>
Readable(t) == \A i \in DOMAIN t : t[i] \notin Unreadable
ReadSoFar(t, r) == Len(r) = Len(t) /\ \A i \in 1..Len(t) : r[i] = SignOf(t[i])

ReadInv == Readable(tree) => ReadSoFar(tree, Read(text))

\* Signs that are not waiting for a word.
LEMMA NoOpenEnd ==
    ASSUME NEW t \in Seq(Event), NEW r \in Seq(Sign), ReadSoFar(t, r)
    PROVE  r = << >> \/ Last(r) # Open
<1>1. \A e : SignOf(e) # Open
  BY DEF SignOf, Open
<1>2. CASE r # << >>
  <2>1. Len(r) \in 1..Len(t) /\ Last(r) = r[Len(r)]
    BY <1>2 DEF ReadSoFar, Last
  <2>2. QED
    BY <1>1, <2>1 DEF ReadSoFar
<1>3. QED
  BY <1>2

\* The tree had no unreadable leaf if it has none with one more event.
LEMMA ReadableBefore ==
    ASSUME NEW t \in Seq(Event), NEW e \in Event, NEW u, u = Append(t, e), Readable(u)
    PROVE  Readable(t) /\ e \notin Unreadable
<1>1. /\ \A i \in DOMAIN t : i \in DOMAIN u /\ u[i] = t[i]
      /\ Len(t) + 1 \in DOMAIN u /\ u[Len(t) + 1] = e
  OBVIOUS
<1>2. QED
  BY <1>1 DEF Readable

\* One more sign, and what is printed for it.
LEMMA SoFarGrows ==
    ASSUME NEW t \in Seq(Event), NEW r \in Seq(Sign), ReadSoFar(t, r), NEW e \in Event,
           NEW new, new = Append(r, SignOf(e)), NEW u, u = Append(t, e)
    PROVE  ReadSoFar(u, new)
<1>1. Len(t) \in Nat /\ Len(r) = Len(t) /\ (\A i \in 1..Len(t) : r[i] = SignOf(t[i]))
  BY DEF ReadSoFar
<1>2. /\ Len(u) = Len(t) + 1 /\ u[Len(t) + 1] = e
      /\ \A i \in 1..Len(t) : u[i] = t[i]
  OBVIOUS
<1> DEFINE y == SignOf(e)
<1> HIDE DEF y
<1>3. /\ Len(new) = Len(t) + 1 /\ new[Len(t) + 1] = y
      /\ \A i \in 1..Len(t) : new[i] = r[i]
  BY <1>1 DEF y
<1>4. \A i \in 1..(Len(t) + 1) : i = Len(t) + 1 \/ i \in 1..Len(t)
  BY <1>1
<1>5. \A i \in 1..(Len(t) + 1) : new[i] = SignOf(u[i])
  BY <1>1, <1>2, <1>3, <1>4 DEF y
<1>6. QED
  BY <1>2, <1>3, <1>5 DEF ReadSoFar

\* Lines and blanks are not read.
Separator == {Line(n) : n \in Nat} \cup {Piece(Blank)}

LEMMA ReadsSeparator ==
    ASSUME NEW t \in Seq(Item), NEW x \in Separator
    PROVE  Append(t, x) \in Seq(Item) /\ Read(Append(t, x)) = Read(t)
<1>1. x \in Item
  BY DEF Separator, Item
<1>2. x.is = "line" \/ x.by = Blank
  BY DEF Separator, Line, Piece
<1> DEFINE u == Append(t, x)
<1>3. u \in Seq(Item) /\ Read(u) = ReadItem(Read(t), ItemBefore(u, Len(u)), x)
  BY <1>1, ReadsOneMore
<1> HIDE DEF u
<1>4. Read(u) = Read(t)
  BY <1>2, <1>3 DEF ReadItem
<1>5. QED
  BY <1>3, <1>4 DEF u

LEMMA ReadsLine ==
    ASSUME NEW t \in Seq(Item), NEW b, b = << >> \/ \E n \in Nat : b = <<Line(n)>>
    PROVE  t \o b \in Seq(Item) /\ Read(t \o b) = Read(t)
<1>1. CASE b = << >>
  BY <1>1
<1>2. CASE \E n \in Nat : b = <<Line(n)>>
  <2>1. PICK n \in Nat : b = <<Line(n)>>
    BY <1>2
  <2> DEFINE x == Line(n)
  <2>2. x \in Separator
    BY DEF Separator
  <2> HIDE DEF x
  <2>3. t \o b = Append(t, x)
    BY <2>1 DEF x
  <2>4. QED
    BY <2>2, <2>3, ReadsSeparator
<1>3. QED
  BY <1>1, <1>2

\* What an event adds to a text that has been read so far.
LEMMA ReadsOpen ==
    ASSUME NEW r \in Seq(Sign), r = << >> \/ Last(r) # Open, NEW kind \in {"special", "inner"},
           NEW b, NEW c, NEW r3, r3 = ReadItem(r, b, Piece("(")),
           NEW r4, r4 = ReadItem(r3, c, Piece(kind))
    PROVE  r4 = Append(r, SignOf(kind))
<1>1. /\ Piece("(").is # "line" /\ Piece("(").by = "(" /\ "(" # Blank
      /\ Piece(kind).is # "line" /\ Piece(kind).by = kind /\ kind # Blank
      /\ ~IsWord(Piece("("))
  BY DEF Piece, Blank, IsWord, Unreadable
<1>2. r3 = Append(r, Open)
  BY <1>1 DEF ReadItem
<1>3. r3 \in Seq(Sign)
  BY <1>2 DEF Sign
<1>4. r3 # << >> /\ Last(r3) = Open
  BY <1>2, <1>3 DEF Last
<1>5. Front(r3) = r
  <2>1. Front(r3) \in Seq(Sign) /\ Len(Front(r3)) = Len(r3) - 1
        /\ \A i \in 1..(Len(r3) - 1) : Front(r3)[i] = r3[i]
    BY <1>3, <1>4, FrontFacts
  <2>2. Len(r3) - 1 = Len(r) /\ Len(r) \in Nat /\ \A i \in 1..Len(r) : r3[i] = r[i]
    BY <1>2
  <2> DEFINE f == Front(r3)
  <2> HIDE DEF f
  <2>3. f \in Seq(Sign) /\ Len(f) = Len(r) /\ \A i \in 1..Len(r) : f[i] = r[i]
    BY <2>1, <2>2 DEF f
  <2>4. f = r
    BY <2>3, SeqEqual
  <2>5. QED
    BY <2>4 DEF f
<1>6. r4 = Append(r, <<"node", kind>>)
  BY <1>1, <1>4, <1>5 DEF ReadItem
<1>7. QED
  BY <1>6 DEF SignOf

LEMMA ReadsLeaf ==
    ASSUME NEW r \in Seq(Sign), r = << >> \/ Last(r) # Open, NEW w \in Text \ Unreadable,
           NEW new, new = ReadItem(r, Piece(Blank), Piece(w))
    PROVE  new = Append(r, SignOf(w))
<1>1. /\ Piece(w).is # "line" /\ Piece(w).by = w /\ w \notin {Blank, "(", ")"}
      /\ ~IsWord(Piece(Blank))
  BY DEF Piece, IsWord, Unreadable
<1>2. new = Append(r, <<"leaf", w>>)
  BY <1>1 DEF ReadItem
<1>3. w \notin {"special", "inner", "close"}
  BY TextAssumption
<1>4. QED
  BY <1>2, <1>3 DEF SignOf

LEMMA ReadsClose ==
    ASSUME NEW r \in Seq(Sign), r = << >> \/ Last(r) # Open, NEW b,
           NEW new, new = ReadItem(r, b, Piece(")"))
    PROVE  new = Append(r, SignOf("close"))
<1>1. /\ Piece(")").is # "line" /\ Piece(")").by = ")" /\ ")" # Blank /\ ")" # "("
      /\ ~IsWord(Piece(")"))
  BY DEF Piece, Blank, IsWord, Unreadable
<1>2. new = Append(r, <<"close">>)
  BY <1>1 DEF ReadItem
<1>3. QED
  BY <1>2 DEF SignOf

LEMMA WalkReads == ASSUME PrintOK, ReadInv, NEW max, Walk(max) PROVE ReadInv'
<1>1. tree \in Seq(Event) /\ text \in Seq(Item) /\ Before \in Seq(Item) /\ NodeIndent \in Nat
  BY BeforeOK, IndentsAreNumbers DEF PrintOK, Event
<1>2. Before = << >> \/ \E n \in Nat : Before = <<Line(n)>>
  BY <1>1 DEF Before
<1> DEFINE t1 == text \o Before
           r == Read(text)
<1>3. t1 \in Seq(Item) /\ Read(t1) = r
  BY <1>1, <1>2, ReadsLine
<1>4. r \in Seq(Sign)
  <2>1. Line(0) \in Item
    BY DEF Item
  <2>2. QED
    BY <1>1, <2>1, ReadsOneMore
<1>5. /\ \A s \in Text \cup {Blank, "(", ")", "special", "inner"} : Piece(s) \in Item
      /\ Piece(Blank) \in Separator /\ Line(NodeIndent) \in Separator
  BY <1>1 DEF Item, Separator
<1> HIDE DEF t1, r
<1>6. ASSUME NEW e \in Event, tree' = Append(tree, e), Readable(tree')
      PROVE  /\ ReadSoFar(tree, r) /\ (r = << >> \/ Last(r) # Open) /\ e \notin Unreadable
             /\ \A new : new = Append(r, SignOf(e)) => ReadSoFar(tree', new)
  <2>1. Readable(tree) /\ e \notin Unreadable
    BY <1>1, <1>6, ReadableBefore
  <2>2. ReadSoFar(tree, r)
    BY <2>1 DEF ReadInv, r
  <2>3. r = << >> \/ Last(r) # Open
    BY <1>1, <1>4, <2>2, NoOpenEnd
  <2>4. \A new : new = Append(r, SignOf(e)) => ReadSoFar(tree', new)
    BY <1>1, <1>4, <1>6, <2>2, SoFarGrows
  <2>5. QED
    BY <2>1, <2>2, <2>3, <2>4
<1>7. CASE \E kind \in {"special", "inner"} : OpenNode(kind)
  <2>1. PICK kind \in {"special", "inner"} : OpenNode(kind)
    BY <1>7
  <2> SUFFICES ASSUME Readable(tree') PROVE ReadSoFar(tree', Read(text'))
    BY DEF ReadInv
  <2> DEFINE x == IF kind = "special" THEN Line(NodeIndent) ELSE Piece(Blank)
             t2 == Append(t1, x)
             t3 == Append(t2, Piece("("))
             t4 == Append(t3, Piece(kind))
  <2>2. x \in Separator
    BY <1>5
  <2>3. text' = t1 \o <<x, Piece("("), Piece(kind)>>
    BY <2>1 DEF OpenNode, t1
  <2> HIDE DEF x
  <2>4. text' = t4
    BY <1>3, <2>3
  <2>5. t2 \in Seq(Item) /\ Read(t2) = r
    BY <1>3, <2>2, ReadsSeparator
  <2> HIDE DEF t2
  <2>6. t3 \in Seq(Item) /\ Read(t3) = ReadItem(r, ItemBefore(t3, Len(t3)), Piece("("))
    BY <1>5, <2>5, ReadsOneMore
  <2> HIDE DEF t3
  <2>7. Read(t4) = ReadItem(Read(t3), ItemBefore(t4, Len(t4)), Piece(kind))
    BY <1>5, <2>6, ReadsOneMore
  <2> HIDE DEF t4
  <2>8. tree' = Append(tree, kind) /\ kind \in Event
    BY <2>1 DEF OpenNode, Event
  <2>9. r = << >> \/ Last(r) # Open
    BY <1>6, <2>8
  <2>10. Read(t4) = Append(r, SignOf(kind))
    BY ONLY <1>4, <2>1, <2>6, <2>7, <2>9, ReadsOpen
  <2>11. QED
    BY <1>6, <2>4, <2>8, <2>10
<1>8. CASE \E w \in Text : Leaf(w)
  <2>1. PICK w \in Text : Leaf(w)
    BY <1>8
  <2> SUFFICES ASSUME Readable(tree') PROVE ReadSoFar(tree', Read(text'))
    BY DEF ReadInv
  <2> DEFINE t2 == Append(t1, Piece(Blank))
             t3 == Append(t2, Piece(w))
  <2>2. text' = t1 \o <<Piece(Blank), Piece(w)>> /\ tree' = Append(tree, w) /\ w \in Event
    BY <2>1 DEF Leaf, t1, Event
  <2>3. text' = t3
    BY <1>3, <2>2
  <2>4. t2 \in Seq(Item) /\ Read(t2) = r
    BY <1>3, <1>5, ReadsSeparator
  <2>5. ItemBefore(t3, Len(t3)) = Piece(Blank)
    <3>1. Len(t2) \in Nat \ {0} /\ t2[Len(t2)] = Piece(Blank)
      BY <1>3, <1>5
    <3> HIDE DEF t2
    <3>2. Len(t3) = Len(t2) + 1 /\ t3[Len(t2)] = t2[Len(t2)]
      BY <2>4, <3>1
    <3> HIDE DEF t3
    <3>3. QED
      BY <3>1, <3>2 DEF ItemBefore
  <2> HIDE DEF t2
  <2>6. Read(t3) = ReadItem(r, Piece(Blank), Piece(w))
    BY <1>5, <2>4, <2>5, ReadsOneMore
  <2> HIDE DEF t3
  <2>7. (r = << >> \/ Last(r) # Open) /\ w \in Text \ Unreadable
    BY <1>6, <2>2
  <2>8. Read(t3) = Append(r, SignOf(w))
    BY ONLY <1>4, <2>6, <2>7, ReadsLeaf
  <2>9. QED
    BY <1>6, <2>2, <2>3, <2>8
<1>9. CASE CloseNode
  <2> SUFFICES ASSUME Readable(tree') PROVE ReadSoFar(tree', Read(text'))
    BY DEF ReadInv
  <2> DEFINE t2 == Append(text, Piece(")"))
  <2>1. text' = t2 /\ tree' = Append(tree, "close") /\ "close" \in Event
    BY <1>9 DEF CloseNode, Event
  <2>2. Read(t2) = ReadItem(r, ItemBefore(t2, Len(t2)), Piece(")"))
    BY <1>1, <1>5, ReadsOneMore DEF r
  <2> HIDE DEF t2
  <2>3. r = << >> \/ Last(r) # Open
    BY <1>6, <2>1
  <2>4. Read(t2) = Append(r, SignOf("close"))
    BY ONLY <1>4, <2>2, <2>3, ReadsClose
  <2>5. QED
    BY <1>6, <2>1, <2>4
<1>10. QED
  BY <1>7, <1>8, <1>9 DEF Walk

LEMMA EmptyReads == ASSUME tree = << >>, text = << >> PROVE ReadInv
<1>1. Read(text) = << >>
  BY ReadsNothing
<1>2. QED
  BY <1>1 DEF ReadInv, ReadSoFar

\* No reading has a leaf that is no word.
LEMMA NoSuchSign == \A c \in Unreadable : <<"leaf", c>> \notin Sign
<1> SUFFICES ASSUME NEW c \in Unreadable, NEW y \in Sign PROVE y # <<"leaf", c>>
  OBVIOUS
<1> DEFINE z == <<"leaf", c>>
<1>1. z[1] = "leaf" /\ z[2] = c
  OBVIOUS
<1>2. CASE \E s \in Words : y = <<"leaf", s>>
  <2>1. PICK s \in Words : y = <<"leaf", s>>
    BY <1>2
  <2>2. y[2] = s /\ s \notin Unreadable
    BY <2>1 DEF Words
  <2>3. QED
    BY <1>1, <2>2
<1>3. CASE ~\E s \in Words : y = <<"leaf", s>>
  <2>1. y[1] \in {"open", "close", "glued", "node"}
    BY <1>3 DEF Sign, Open
  <2>2. QED
    BY <1>1, <2>1
<1>4. QED
  BY <1>2, <1>3

LEMMA ReadingBack == ASSUME PrintOK, ReadInv PROVE ReadsBack
<1> DEFINE r == Read(text)
<1>1. tree \in Seq(Event) /\ r \in Seq(Sign)
  <2>1. Line(0) \in Item
    BY DEF Item
  <2>2. QED
    BY <2>1, ReadsOneMore DEF PrintOK, Event
<1>2. Walked = [i \in 1..Len(tree) |-> SignOf(tree[i])]
  BY <1>1 DEF Walked, SignOf
<1> HIDE DEF r
<1>3. CASE Readable(tree)
  <2>1. ReadSoFar(tree, r)
    BY <1>3 DEF ReadInv, r
  <2>2. r = [i \in 1..Len(tree) |-> r[i]]
    BY <1>1, <2>1 DEF ReadSoFar
  <2>3. r = Walked
    BY <1>2, <2>1, <2>2 DEF ReadSoFar
  <2>4. QED
    BY <1>3, <2>3 DEF ReadsBack, Readable, r
<1>4. CASE ~Readable(tree)
  <2>1. PICK k \in 1..Len(tree) : tree[k] \in Unreadable
    BY <1>1, <1>4 DEF Readable
  <2>2. SignOf(tree[k]) = <<"leaf", tree[k]>>
    <3>1. tree[k] \notin {"special", "inner", "close"}
      BY <2>1 DEF Unreadable, Blank
    <3>2. QED
      BY <3>1 DEF SignOf
  <2>3. Walked[k] = <<"leaf", tree[k]>> /\ k \in DOMAIN Walked
    BY <1>2, <2>2
  <2>4. r # Walked
    <3> SUFFICES ASSUME r = Walked PROVE FALSE
      OBVIOUS
    <3>1. k \in DOMAIN r /\ r[k] = <<"leaf", tree[k]>>
      BY <2>3
    <3>2. r[k] \in Sign
      BY <1>1, <3>1
    <3>3. QED
      BY <2>1, <3>1, <3>2, NoSuchSign
  <2>5. QED
    BY <1>4, <2>4 DEF ReadsBack, Readable, r
<1>5. QED
  BY <1>3, <1>4

LEMMA ReadInvStep ==
    ASSUME PrintOK, ReadInv, [DriverNext]_driverVars PROVE ReadInv'
<1>1. ASSUME PrintTree PROVE ReadInv'
  BY <1>1, WalkReads DEF PrintTree
<1>2. ASSUME tree' = << >>, text' = << >> PROVE ReadInv'
  <2>1. Read(text') = << >>
    BY <1>2, ReadsNothing
  <2>2. QED
    BY <1>2, <2>1 DEF ReadInv, ReadSoFar
<1>3. ASSUME UNCHANGED printVars PROVE ReadInv'
  <2>1. tree' = tree /\ text' = text
    BY <1>3 DEF printVars
  <2>2. QED
    BY <2>1 DEF ReadInv
<1>4. PrintTree \/ (tree' = << >> /\ text' = << >>) \/ UNCHANGED printVars
  BY DEF DriverNext, driverVars, Compile, Edit, Start, Interrupt, EndArgs, ParseFile,
         OpenOutput, EndPrint, NoTree, Check, Build, CreatePasses, Emit, ExitMain, Jit,
         Stopped, End
<1>5. QED
  BY <1>1, <1>2, <1>3, <1>4

\* A reader of the printed tree gets it back, node by node, exactly if no leaf
\* is a parenthesis or a blank, whatever the tree and however deep: from the
\* text of a tree with one something else is read.
THEOREM ReadsBackInvariant == DriverSpec => []ReadsBack
<1>1. DriverInit => ReadInv
  BY EmptyReads DEF DriverInit, PrintInit
<1>2. ProcessInv => PrintOK
  BY DEF ProcessInv
<1>3. PrintOK /\ ReadInv => ReadsBack
  BY ReadingBack
<1>4. PrintOK /\ ReadInv /\ [DriverNext]_driverVars => ReadInv'
  BY ReadInvStep
<1>5. QED
  BY <1>1, <1>2, <1>3, <1>4, ProcessInvariant, PTL DEF DriverSpec

-----------------------------------------------------------------------------
(* The indentation of the printed tree.                                    *)

Opens == {"special", "inner"}
EventsIn(S, t, j) == {i \in 1..j : t[i] \in S}

\* The nodes that are open after the j-th event, the nodes around the k-th
\* event, and how far a special node there is moved in.
DepthIn(t, j) == Cardinality(EventsIn(Opens, t, j)) - Cardinality(EventsIn({"close"}, t, j))
AboveIn(t, k) == {i \in 1..(k - 1) : t[i] \in Opens
                                      /\ \A j \in i..(k - 1) : DepthIn(t, j) >= DepthIn(t, i)}
SpecialIn(t, k) == {i \in AboveIn(t, k) : t[i] = "special"}
FirstIn(t, k) == {i \in SpecialIn(t, k) : i + 1 = k \/ i + 1 \in AboveIn(t, k)}
IndentIn(t, k) == 2 * Cardinality(SpecialIn(t, k)) + 2 * Cardinality(FirstIn(t, k))

\* What one more event changes in them.
CountsUp(S, t, e, u) ==
    /\ \A j \in 0..Len(t) : /\ EventsIn(S, u, j) = EventsIn(S, t, j)
                            /\ Cardinality(EventsIn(S, t, j)) \in Nat
    /\ Cardinality(EventsIn(S, u, Len(t) + 1)) =
          Cardinality(EventsIn(S, t, Len(t))) + IF e \in S THEN 1 ELSE 0

Deepens(t, e, u) ==
    /\ \A j \in 0..Len(t) : DepthIn(u, j) = DepthIn(t, j) /\ DepthIn(t, j) \in Int
    /\ DepthIn(u, Len(t) + 1) = DepthIn(t, Len(t)) +
          (IF e \in Opens THEN 1 ELSE IF e = "close" THEN 0 - 1 ELSE 0)

LEMMA CountUp ==
    ASSUME NEW S, NEW t \in Seq(Event), NEW e, NEW u, u = Append(t, e)
    PROVE  CountsUp(S, t, e, u)
<1> DEFINE n == Len(t)
<1>1. n \in Nat /\ u[n + 1] = e /\ \A i \in 1..n : u[i] = t[i]
  OBVIOUS
<1> HIDE DEF n
<1>2. ASSUME NEW j \in 0..n
      PROVE  /\ EventsIn(S, u, j) = EventsIn(S, t, j)
             /\ IsFiniteSet(EventsIn(S, t, j)) /\ Cardinality(EventsIn(S, t, j)) \in Nat
  <2>1. \A i \in 1..j : i \in 1..n
    BY <1>1
  <2>2. EventsIn(S, u, j) = EventsIn(S, t, j)
    BY <1>1, <2>1 DEF EventsIn
  <2>3. IsFiniteSet(1..j) /\ EventsIn(S, t, j) \subseteq 1..j
    BY FS_Interval DEF EventsIn
  <2>4. IsFiniteSet(EventsIn(S, t, j))
    BY <2>3, FS_Subset
  <2>5. QED
    BY <2>2, <2>4, FS_CardinalityType
<1>3. n \in 0..n /\ n + 1 \notin EventsIn(S, t, n)
  BY <1>1 DEF EventsIn
<1>4. \A i \in 1..(n + 1) : i = n + 1 \/ i \in 1..n
  BY <1>1
<1>5. n + 1 \in 1..(n + 1) /\ \A i \in 1..n : i \in 1..(n + 1)
  BY <1>1
<1> DEFINE A == EventsIn(S, t, n)
           B == EventsIn(S, u, n + 1)
<1>6. CASE e \in S
  <2>1. B = A \cup {n + 1}
    BY <1>1, <1>4, <1>5, <1>6 DEF EventsIn
  <2> HIDE DEF A, B
  <2>2. IsFiniteSet(A) /\ n + 1 \notin A
    BY <1>2, <1>3 DEF A
  <2>3. Cardinality(B) = Cardinality(A) + 1
    BY <2>1, <2>2, FS_AddElement
  <2>4. Cardinality(B) = Cardinality(A) + IF e \in S THEN 1 ELSE 0
    BY <1>6, <2>3
  <2>5. QED
    BY <1>2, <2>4 DEF A, B, n, CountsUp
<1>7. CASE e \notin S
  <2>1. B = A
    BY <1>1, <1>4, <1>5, <1>7 DEF EventsIn
  <2>2. Cardinality(A) \in Nat
    BY <1>2, <1>3
  <2> HIDE DEF A, B
  <2>3. Cardinality(B) = Cardinality(A) + 0
    BY <2>1, <2>2
  <2>4. Cardinality(B) = Cardinality(A) + IF e \in S THEN 1 ELSE 0
    BY <1>7, <2>3
  <2>5. QED
    BY <1>2, <2>4 DEF A, B, n, CountsUp
<1>8. QED
  BY <1>2, <1>6, <1>7 DEF CountsUp, n

LEMMA DepthSteps ==
    ASSUME NEW t \in Seq(Event), NEW e, NEW u, u = Append(t, e)
    PROVE  Deepens(t, e, u)
<1> DEFINE n == Len(t)
           a(j) == Cardinality(EventsIn(Opens, t, j))
           b(j) == Cardinality(EventsIn({"close"}, t, j))
           a2 == Cardinality(EventsIn(Opens, u, n + 1))
           b2 == Cardinality(EventsIn({"close"}, u, n + 1))
<1>0. CountsUp(Opens, t, e, u) /\ CountsUp({"close"}, t, e, u)
  BY CountUp
<1>1. /\ \A j \in 0..n : EventsIn(Opens, u, j) = EventsIn(Opens, t, j) /\ a(j) \in Nat
      /\ a2 = a(n) + IF e \in Opens THEN 1 ELSE 0
  BY <1>0 DEF CountsUp
<1>2. /\ \A j \in 0..n : EventsIn({"close"}, u, j) = EventsIn({"close"}, t, j) /\ b(j) \in Nat
      /\ b2 = b(n) + IF e \in {"close"} THEN 1 ELSE 0
  BY <1>0 DEF CountsUp
<1>3. \A j \in 0..n : DepthIn(u, j) = DepthIn(t, j) /\ DepthIn(t, j) = a(j) - b(j)
  BY <1>1, <1>2 DEF DepthIn
<1>4. DepthIn(u, n + 1) = a2 - b2
  BY DEF DepthIn
<1>5. n \in 0..n
  OBVIOUS
<1>6. "close" \notin Opens
  BY DEF Opens
<1> HIDE DEF a, b, a2, b2, n
<1>7. DepthIn(u, n + 1) = DepthIn(t, n) +
                 (IF e \in Opens THEN 1 ELSE IF e = "close" THEN 0 - 1 ELSE 0)
  BY <1>1, <1>2, <1>3, <1>4, <1>5, <1>6
<1>8. QED
  BY <1>1, <1>2, <1>3, <1>7 DEF n, Deepens

\* What is around an event is there before it.
LEMMA AroundSame ==
    ASSUME NEW t \in Seq(Event), NEW e, NEW u, u = Append(t, e), NEW k \in 1..(Len(t) + 1)
    PROVE  AboveIn(u, k) = AboveIn(t, k) /\ IndentIn(u, k) = IndentIn(t, k)
<1>1. /\ \A i \in 1..(k - 1) : i \in 1..Len(t) /\ i \in 0..Len(t)
      /\ \A i \in 1..Len(t) : u[i] = t[i]
  OBVIOUS
<1>2. \A j \in 0..Len(t) : DepthIn(u, j) = DepthIn(t, j)
  <2>1. Deepens(t, e, u)
    BY DepthSteps
  <2>2. QED
    BY <2>1 DEF Deepens
<1>3. \A i \in 1..(k - 1) : \A j \in i..(k - 1) : j \in 1..(k - 1)
  OBVIOUS
<1>4. \A i \in 1..(k - 1) : /\ u[i] = t[i] /\ DepthIn(u, i) = DepthIn(t, i)
                            /\ \A j \in i..(k - 1) : DepthIn(u, j) = DepthIn(t, j)
  BY <1>1, <1>2, <1>3
<1>5. AboveIn(u, k) = AboveIn(t, k)
  BY <1>4 DEF AboveIn
<1>6. \A i \in AboveIn(t, k) : u[i] = t[i]
  BY <1>4 DEF AboveIn
<1>7. SpecialIn(u, k) = SpecialIn(t, k)
  BY <1>5, <1>6 DEF SpecialIn
<1>8. FirstIn(u, k) = FirstIn(t, k)
  BY <1>5, <1>7 DEF FirstIn
<1>9. QED
  BY <1>5, <1>7, <1>8 DEF IndentIn

\* The nodes that are open after one more event.
LEMMA AroundNext ==
    ASSUME NEW t \in Seq(Event), NEW e, NEW u, u = Append(t, e)
    PROVE  LET n == Len(t)
               old == AboveIn(t, n + 1)
               new == AboveIn(u, n + 2)
           IN  /\ e \in Opens => new = old \cup {n + 1}
               /\ e \notin Opens /\ e # "close" => new = old
               /\ e = "close" => new = {i \in old : DepthIn(t, i) < DepthIn(t, n)}
<1> DEFINE n == Len(t)
           old == AboveIn(t, n + 1)
           new == AboveIn(u, n + 2)
           D(j) == DepthIn(t, j)
           last == DepthIn(u, n + 1)
<1>0. n \in Nat
  OBVIOUS
<1>1. n \in Nat /\ u[n + 1] = e /\ \A i \in 1..n : u[i] = t[i]
  OBVIOUS
<1>2. /\ \A j \in 0..n : DepthIn(u, j) = D(j) /\ D(j) \in Int
      /\ last = D(n) + (IF e \in Opens THEN 1 ELSE IF e = "close" THEN 0 - 1 ELSE 0)
  <2>1. Deepens(t, e, u)
    BY DepthSteps
  <2>2. QED
    BY <2>1 DEF Deepens
<1>3. old = {i \in 1..n : t[i] \in Opens /\ \A j \in i..n : D(j) >= D(i)}
  <2>1. n + 1 - 1 = n
    BY <1>1
  <2>2. QED
    BY <2>1 DEF AboveIn
<1>4. new = {i \in 1..(n + 1) : u[i] \in Opens
                                  /\ \A j \in i..(n + 1) : DepthIn(u, j) >= DepthIn(u, i)}
  <2>1. n + 2 - 1 = n + 1
    BY <1>1
  <2>2. QED
    BY <2>1 DEF AboveIn
<1> HIDE DEF n, D, old, new, last
<1>5. ASSUME NEW i \in 1..n PROVE i \in new <=> i \in old /\ last >= D(i)
  <2>0. i \in 0..n /\ i \in 1..(n + 1)
    BY <1>0
  <2>1. i \in 1..(n + 1) /\ u[i] = t[i] /\ DepthIn(u, i) = D(i)
    BY <1>1, <1>2, <2>0
  <2>2. \A j \in i..(n + 1) : j = n + 1 \/ j \in i..n
    BY <1>1
  <2>3. \A j \in i..n : j \in 0..n /\ j \in i..(n + 1)
    BY <1>1
  <2>4. n + 1 \in i..(n + 1) /\ DepthIn(u, n + 1) = last
    BY <1>1 DEF last
  <2>5. \A j \in i..n : DepthIn(u, j) = D(j)
    BY <1>2, <2>3
  <2>6. (\A j \in i..(n + 1) : DepthIn(u, j) >= DepthIn(u, i))
          <=> (\A j \in i..n : D(j) >= D(i)) /\ last >= D(i)
    BY <2>1, <2>2, <2>3, <2>4, <2>5
  <2>7. QED
    BY <1>3, <1>4, <2>1, <2>6
<1>6. n + 1 \in new <=> e \in Opens
  <2>1. \A j \in (n + 1)..(n + 1) : j = n + 1
    BY <1>1
  <2>2. last \in Int /\ DepthIn(u, n + 1) = last
    BY <1>1, <1>2 DEF last
  <2>3. n + 1 \in 1..(n + 1)
    BY <1>1
  <2>4. \A j \in (n + 1)..(n + 1) : DepthIn(u, j) >= DepthIn(u, n + 1)
    BY <2>1, <2>2
  <2>5. QED
    BY <1>1, <1>4, <2>3, <2>4
<1>7. \A i \in new : i \in 1..n \/ i = n + 1
  BY <1>1, <1>4
<1>8. \A i \in old : i \in 1..n /\ D(i) \in Int /\ D(n) \in Int /\ D(n) >= D(i)
  <2>1. \A i \in 1..n : n \in i..n /\ i \in 0..n /\ n \in 0..n
    BY <1>1
  <2>2. QED
    BY <1>2, <1>3, <2>1
<1>9. ASSUME e \in Opens PROVE new = old \cup {n + 1}
  <2>1. \A i \in old : last >= D(i)
    BY <1>2, <1>8, <1>9
  <2>2. QED
    BY <1>5, <1>6, <1>7, <1>8, <1>9, <2>1
<1>10. ASSUME e \notin Opens, e # "close" PROVE new = old
  <2>1. \A i \in old : last >= D(i)
    BY <1>2, <1>8, <1>10
  <2>2. QED
    BY <1>5, <1>6, <1>7, <1>8, <1>10, <2>1
<1>11. ASSUME e = "close" PROVE new = {i \in old : D(i) < D(n)}
  <2>1. e \notin Opens
    BY <1>11 DEF Opens
  <2>2. \A i \in old : last >= D(i) <=> D(i) < D(n)
    BY <1>2, <1>8, <1>11, <2>1
  <2>3. QED
    BY <1>5, <1>6, <1>7, <1>8, <2>1, <2>2
<1>12. QED
  BY <1>9, <1>10, <1>11 DEF n, old, new, D

\* The i-th node on the stack is that of the event o[i], and these are the
\* events whose nodes are open.
NodeAt(t, s, o, i) ==
    /\ DepthIn(t, o[i]) = i
    /\ t[o[i]] = s[i].kind
    /\ AboveIn(t, o[i]) = {o[j] : j \in 1..(i - 1)}
    /\ s[i].indent = IndentIn(t, o[i])
    /\ s[i].children = 0 <=> o[i] = Len(t)

Nested(t, s, o) ==
    /\ o \in [1..Len(s) -> 1..Len(t)]
    /\ \A i, j \in 1..Len(s) : i < j => o[i] < o[j]
    /\ DepthIn(t, Len(t)) = Len(s)
    /\ AboveIn(t, Len(t) + 1) = {o[j] : j \in 1..Len(s)}
    /\ \A i \in 1..Len(s) : NodeAt(t, s, o, i)

NestInv ==
    /\ \E o : Nested(tree, nodes, o)
    /\ tree # << >> /\ Last(tree) = "special"
         => text[Len(text) - 2] = Line(IndentIn(tree, Len(tree)))

\* What stays of the i-th node when there is one more event.
Kept(s, c, o, q, i) ==
    /\ c[i].kind = s[i].kind /\ c[i].indent = s[i].indent /\ c[i].children # 0
    /\ \A j \in 1..i : q[j] = o[j]

LEMMA NodeStays ==
    ASSUME NEW t \in Seq(Event), NEW e, NEW u, u = Append(t, e), NEW s, NEW o,
           NEW i \in Nat \ {0}, NodeAt(t, s, o, i), o[i] \in 1..Len(t),
           NEW c, NEW q, Kept(s, c, o, q, i)
    PROVE  NodeAt(u, c, q, i)
<1>0. /\ c[i].kind = s[i].kind /\ c[i].indent = s[i].indent /\ c[i].children # 0
      /\ \A j \in 1..i : q[j] = o[j]
  BY DEF Kept
<1> DEFINE n == Len(t)
           k == o[i]
<1>1. n \in Nat /\ Len(u) = n + 1 /\ \A j \in 1..n : u[j] = t[j]
  OBVIOUS
<1> HIDE DEF n, k
<1>2. k \in 1..n /\ k \in 0..n /\ k \in 1..(n + 1) /\ k # n + 1
  <2>1. k \in 1..n
    BY DEF n, k
  <2>2. QED
    BY <1>1, <2>1
<1>3. DepthIn(u, k) = DepthIn(t, k)
  <2>1. Deepens(t, e, u)
    BY DepthSteps
  <2>2. QED
    BY <1>2, <2>1 DEF Deepens, n
<1>4. AboveIn(u, k) = AboveIn(t, k) /\ IndentIn(u, k) = IndentIn(t, k)
  BY <1>2, AroundSame DEF n
<1>5. u[k] = t[k]
  BY <1>1, <1>2
<1>6. q[i] = k /\ (\A j \in 1..(i - 1) : q[j] = o[j])
  <2>1. i \in 1..i /\ \A j \in 1..(i - 1) : j \in 1..i
    OBVIOUS
  <2>2. QED
    BY <1>0, <2>1 DEF k
<1>7. {q[j] : j \in 1..(i - 1)} = {o[j] : j \in 1..(i - 1)}
  BY <1>6
<1>8. /\ DepthIn(t, k) = i /\ t[k] = s[i].kind
      /\ AboveIn(t, k) = {o[j] : j \in 1..(i - 1)}
      /\ s[i].indent = IndentIn(t, k)
  BY DEF NodeAt, k
<1>9. k # Len(u)
  BY <1>1, <1>2
<1>10. QED
  BY <1>0, <1>3, <1>4, <1>5, <1>6, <1>7, <1>8, <1>9 DEF NodeAt

\* What a special node at the next event is moved in by, which is what the
\* innermost open node has in its data for it.
IndentFrom(p) ==
    IF p.kind = "inner" THEN p.indent
    ELSE p.indent + INDENT_INC * (IF p.children = 0 THEN 2 ELSE 1)

LEMMA IndentNext ==
    ASSUME NEW t \in Seq(Event), NEW s \in Seq(Node), NEW o, Nested(t, s, o)
    PROVE  /\ s = << >> => IndentIn(t, Len(t) + 1) = 0
           /\ s # << >> => IndentIn(t, Len(t) + 1) = IndentFrom(s[Len(s)])
<1> DEFINE n == Len(t)
           d == Len(s)
<1>1. n \in Nat /\ d \in Nat
  OBVIOUS
<1>2. /\ o \in [1..d -> 1..n]
      /\ \A i, j \in 1..d : i < j => o[i] < o[j]
      /\ AboveIn(t, n + 1) = {o[j] : j \in 1..d}
      /\ \A i \in 1..d : NodeAt(t, s, o, i)
  BY DEF Nested
<1>3. CASE s = << >>
  <2>1. AboveIn(t, n + 1) = {}
    BY <1>2, <1>3
  <2>2. SpecialIn(t, n + 1) = {} /\ FirstIn(t, n + 1) = {}
    BY <2>1 DEF SpecialIn, FirstIn
  <2>3. Cardinality({}) = 0
    BY FS_EmptySet
  <2>4. IndentIn(t, n + 1) = 2 * Cardinality({}) + 2 * Cardinality({})
    BY ONLY <2>2 DEF IndentIn
  <2>5. QED
    BY <1>3, <2>3, <2>4
<1>4. CASE s # << >>
  <2> DEFINE p == o[d]
             x == s[d]
             A == AboveIn(t, p)
             B == AboveIn(t, n + 1)
             S == SpecialIn(t, p)
             F == FirstIn(t, p)
  <2>1. d \in 1..d /\ x \in Node
    BY <1>4
  <2> HIDE DEF d, n
  <2>2. p \in 1..n /\ NodeAt(t, s, o, d)
    BY <1>2, <2>1
  <2>3. /\ t[p] = x.kind /\ A = {o[j] : j \in 1..(d - 1)}
        /\ x.indent = IndentIn(t, p) /\ (x.children = 0 <=> p = n)
    BY <2>2 DEF NodeAt, n
  <2>4. B = A \cup {p}
    <3>1. \A j \in 1..d : j = d \/ j \in 1..(d - 1)
      BY <1>1
    <3>2. \A j \in 1..(d - 1) : j \in 1..d
      BY <1>1
    <3>3. B = {o[j] : j \in 1..d}
      BY <1>2
    <3> HIDE DEF B, A
    <3>4. QED
      BY <2>1, <2>3, <3>1, <3>2, <3>3
  <2>5. \A i \in A : i \in 1..n /\ i < p
    <3>1. \A j \in 1..(d - 1) : j \in 1..d /\ j < d
      BY <1>1
    <3>2. \A j \in 1..(d - 1) : o[j] < o[d] /\ o[j] \in 1..n
      BY <1>2, <2>1, <3>1
    <3> HIDE DEF A
    <3>3. QED
      BY <2>3, <3>2
  <2>6. IsFiniteSet(S) /\ IsFiniteSet(F) /\ S \subseteq A /\ F \subseteq S
    <3>1. S \subseteq A /\ F \subseteq S
      BY DEF SpecialIn, FirstIn
    <3>2. S \subseteq 1..n
      BY <2>5, <3>1
    <3>3. IsFiniteSet(1..n)
      BY <1>1, FS_Interval
    <3>4. QED
      BY <3>1, <3>2, <3>3, FS_Subset
  <2> HIDE DEF A, B, p, x, S, F
  <2>7. Cardinality(S) \in Nat /\ Cardinality(F) \in Nat
    BY <2>6, FS_CardinalityType
  <2>8. p \notin S /\ p \notin F /\ p \in Nat
    BY <1>1, <2>2, <2>5, <2>6 DEF p
  <2>9. IndentIn(t, p) = 2 * Cardinality(S) + 2 * Cardinality(F)
    BY DEF IndentIn, S, F
  <2>10. IndentIn(t, n + 1) = 2 * Cardinality(SpecialIn(t, n + 1))
                              + 2 * Cardinality(FirstIn(t, n + 1))
    BY DEF IndentIn
  <2>11. \A i \in A : (i + 1 = n + 1 \/ i + 1 \in B) <=> (i + 1 = p \/ i + 1 \in A)
    <3>1. p \in 1..n
      BY <2>2 DEF p
    <3>2. \A i \in A : i \in Nat /\ i + 1 # n + 1
      BY <1>1, <2>5, <3>1
    <3>3. QED
      BY <2>4, <3>2
  <2>12. \A i \in S : i \in F <=> (i + 1 = n + 1 \/ i + 1 \in B)
    BY <2>6, <2>11 DEF F, FirstIn, S, A
  <2>13. SpecialIn(t, n + 1) = IF x.kind = "special" THEN S \cup {p} ELSE S
    <3>1. SpecialIn(t, n + 1) = {i \in B : t[i] = "special"}
      BY DEF SpecialIn, B
    <3>2. S = {i \in A : t[i] = "special"}
      BY DEF SpecialIn, S, A
    <3>3. t[p] = x.kind
      BY <2>3 DEF p, x
    <3>4. QED
      BY <2>4, <3>1, <3>2, <3>3
  <2>14. FirstIn(t, n + 1) = {i \in SpecialIn(t, n + 1) : i + 1 = n + 1 \/ i + 1 \in B}
    BY DEF FirstIn, B
  <2>15. p + 1 \notin B
    <3>1. \A i \in B : i <= p /\ i \in Nat
      BY <2>4, <2>5, <2>8
    <3>2. QED
      BY <2>8, <3>1
  <2>16. p + 1 = n + 1 <=> x.children = 0
    <3>1. x.children = 0 <=> p = n
      BY <2>3 DEF p, x
    <3>2. QED
      BY <1>1, <2>8, <3>1
  <2>17. x.indent = 2 * Cardinality(S) + 2 * Cardinality(F) /\ x.kind \in {"special", "inner"}
    BY <2>1, <2>3, <2>9 DEF p, x, Node
  <2>18. CASE x.kind = "inner"
    <3>1. SpecialIn(t, n + 1) = S
      BY <2>13, <2>18
    <3>2. FirstIn(t, n + 1) = F
      BY <2>6, <2>12, <2>14, <3>1
    <3>3. QED
      BY <2>10, <2>17, <2>18, <3>1, <3>2, <1>4 DEF IndentFrom, n, d, x
  <2>19. CASE x.kind = "special" /\ x.children = 0
    <3>1. SpecialIn(t, n + 1) = S \cup {p}
      BY <2>13, <2>19
    <3>2. FirstIn(t, n + 1) = F \cup {p}
      BY <2>6, <2>12, <2>14, <2>16, <2>19, <3>1
    <3>3. /\ Cardinality(S \cup {p}) = Cardinality(S) + 1
          /\ Cardinality(F \cup {p}) = Cardinality(F) + 1
      BY <2>6, <2>8, FS_AddElement
    <3>4. IndentIn(t, n + 1) = x.indent + 4
      <4> DEFINE a == Cardinality(S)
                 b == Cardinality(F)
      <4>1. a \in Nat /\ b \in Nat /\ x.indent = 2 * a + 2 * b
        BY <2>7, <2>17
      <4>2. IndentIn(t, n + 1) = 2 * Cardinality(S \cup {p}) + 2 * Cardinality(F \cup {p})
        BY <2>10, <3>1, <3>2
      <4>3. IndentIn(t, n + 1) = 2 * (a + 1) + 2 * (b + 1)
        BY <3>3, <4>2
      <4> HIDE DEF a, b
      <4>4. QED
        BY <4>1, <4>3
    <3>5. IndentFrom(x) = x.indent + 4
      BY <2>19 DEF IndentFrom, INDENT_INC
    <3>6. QED
      BY <1>4, <3>4, <3>5 DEF n, d, x
  <2>20. CASE x.kind = "special" /\ x.children # 0
    <3>1. SpecialIn(t, n + 1) = S \cup {p}
      BY <2>13, <2>20
    <3>2. FirstIn(t, n + 1) = F
      BY <2>6, <2>12, <2>14, <2>15, <2>16, <2>20, <3>1
    <3>3. Cardinality(S \cup {p}) = Cardinality(S) + 1
      BY <2>6, <2>8, FS_AddElement
    <3>4. IndentIn(t, n + 1) = x.indent + 2
      <4> DEFINE a == Cardinality(S)
                 b == Cardinality(F)
      <4>1. a \in Nat /\ b \in Nat /\ x.indent = 2 * a + 2 * b
        BY <2>7, <2>17
      <4>2. IndentIn(t, n + 1) = 2 * Cardinality(S \cup {p}) + 2 * Cardinality(F)
        BY <2>10, <3>1, <3>2
      <4>3. IndentIn(t, n + 1) = 2 * (a + 1) + 2 * (b)
        BY <3>3, <4>2
      <4> HIDE DEF a, b
      <4>4. QED
        BY <4>1, <4>3
    <3>5. IndentFrom(x) = x.indent + 2
      BY <2>20 DEF IndentFrom, INDENT_INC
    <3>6. QED
      BY <1>4, <3>4, <3>5 DEF n, d, x
  <2>21. QED
    BY <2>17, <2>18, <2>19, <2>20
<1>5. QED
  BY <1>3, <1>4

\* The stack with one more child counted in the node on top.
Marked(s, c) ==
    /\ c \in Seq(Node) /\ Len(c) = Len(s)
    /\ \A i \in 1..Len(s) : c[i].kind = s[i].kind /\ c[i].indent = s[i].indent
    /\ \A i \in 1..Len(s) : i # Len(s) => c[i].children = s[i].children
    /\ s # << >> => c[Len(s)].children # 0

LEMMA CountedMarks ==
    ASSUME NEW s \in Seq(Node), s # << >>, NEW c, c = [s EXCEPT ![Len(s)].children = @ + 1]
    PROVE  Marked(s, c)
<1> DEFINE d == Len(s)
           x == s[d]
           y == [kind |-> x.kind, indent |-> x.indent, children |-> x.children + 1]
<1>1. d \in 1..Len(s) /\ d \in Nat /\ x \in Node
  OBVIOUS
<1>2. y \in Node /\ y.children # 0 /\ y.kind = x.kind /\ y.indent = x.indent
  BY <1>1 DEF Node
<1>3. [x EXCEPT !.children = @ + 1] = y
  <2>1. PICK a \in {"special", "inner"}, b \in Nat, m \in Nat :
            x = [kind |-> a, indent |-> b, children |-> m]
    <3> HIDE DEF x
    <3> QED
      BY <1>1 DEF Node
  <2> HIDE DEF x
  <2>2. x.kind = a /\ x.indent = b /\ x.children = m
    BY <2>1
  <2>3. [x EXCEPT !.children = @ + 1] = [kind |-> a, indent |-> b, children |-> m + 1]
    BY <2>1
  <2>4. QED
    BY <2>2, <2>3
<1>4. c = [s EXCEPT ![d] = y]
  BY <1>1, <1>3
<1> HIDE DEF d, x, y
<1>5. /\ c \in Seq(Node) /\ Len(c) = Len(s) /\ c[d] = y
      /\ \A i \in 1..Len(s) : i # d => c[i] = s[i]
  BY <1>1, <1>2, <1>4
<1>6. ASSUME NEW i \in 1..Len(s) PROVE c[i].kind = s[i].kind /\ c[i].indent = s[i].indent
  <2>1. CASE i = d
    BY <1>2, <1>5, <2>1 DEF x
  <2>2. CASE i # d
    BY <1>5, <2>2
  <2>3. QED
    BY <2>1, <2>2
<1>7. c[d].children # 0
  BY <1>2, <1>5
<1>8. QED
  BY <1>5, <1>6, <1>7 DEF Marked, d

\* No counted node was opened by the last event.
LEMMA OldNodes ==
    ASSUME NEW t \in Seq(Event), NEW s \in Seq(Node), NEW o, Nested(t, s, o), NEW c, Marked(s, c)
    PROVE  \A i \in 1..Len(s) : c[i].children # 0
<1> DEFINE d == Len(s)
<1>1. d \in Nat /\ Len(t) \in Nat
  OBVIOUS
<1> HIDE DEF d
<1>2. /\ o \in [1..d -> 1..Len(t)]
      /\ \A i, j \in 1..d : i < j => o[i] < o[j]
      /\ \A i \in 1..d : s[i].children = 0 <=> o[i] = Len(t)
  BY DEF Nested, NodeAt, d
<1>3. /\ \A i \in 1..d : i # d => c[i].children = s[i].children
      /\ s # << >> => c[d].children # 0
  BY DEF Marked, d
<1>4. ASSUME NEW i \in 1..d PROVE c[i].children # 0
  <2>1. CASE i = d
    <3>1. s # << >>
      BY DEF d
    <3>2. QED
      BY <1>3, <2>1, <3>1
  <2>2. CASE i # d
    <3>1. i < d /\ d \in 1..d
      BY <1>1, <2>2
    <3>2. o[i] < o[d] /\ o[i] \in 1..Len(t) /\ o[d] \in 1..Len(t)
      BY <1>2, <3>1
    <3>3. o[i] # Len(t)
      BY <1>1, <3>2
    <3>4. QED
      BY <1>2, <1>3, <2>2, <3>3
  <2>3. QED
    BY <2>1, <2>2
<1>5. QED
  BY <1>4 DEF d

\* The events that open nodes of the stack as it is, or without its top.
LEMMA NodesStay ==
    ASSUME NEW t \in Seq(Event), NEW e, NEW u, u = Append(t, e), NEW s, NEW o,
           NEW m \in Nat, \A i \in 1..m : NodeAt(t, s, o, i) /\ o[i] \in 1..Len(t),
           NEW c, NEW q, \A i \in 1..m : Kept(s, c, o, q, i)
    PROVE  \A i \in 1..m : NodeAt(u, c, q, i)
<1> SUFFICES ASSUME NEW i \in 1..m PROVE NodeAt(u, c, q, i)
  OBVIOUS
<1>1. i \in Nat \ {0} /\ o[i] \in 1..Len(t) /\ NodeAt(t, s, o, i) /\ Kept(s, c, o, q, i)
  OBVIOUS
<1>2. t \in Seq(Event) /\ u = Append(t, e)
  OBVIOUS
<1>3. QED
  BY ONLY <1>1, <1>2, NodeStays, Zenon

LEMMA LeafNests ==
    ASSUME NEW t \in Seq(Event), NEW s \in Seq(Node), NEW o, Nested(t, s, o),
           NEW e, e \notin Opens, e # "close", NEW u, u = Append(t, e), NEW c, Marked(s, c)
    PROVE  Nested(u, c, o)
<1> DEFINE n == Len(t)
           d == Len(s)
<1>1. n \in Nat /\ d \in Nat /\ Len(u) = n + 1
  OBVIOUS
<1>2. /\ o \in [1..d -> 1..n] /\ \A i, j \in 1..d : i < j => o[i] < o[j]
      /\ DepthIn(t, n) = d /\ AboveIn(t, n + 1) = {o[j] : j \in 1..d}
      /\ \A i \in 1..d : NodeAt(t, s, o, i)
  BY DEF Nested
<1>3. /\ Len(c) = d
      /\ \A i \in 1..d : c[i].kind = s[i].kind /\ c[i].indent = s[i].indent
  BY DEF Marked
<1>4. \A i \in 1..d : c[i].children # 0
  BY OldNodes
<1>5. Deepens(t, e, u) /\ AboveIn(u, n + 2) = AboveIn(t, n + 1)
  BY DepthSteps, AroundNext
<1> HIDE DEF n, d
<1>6. \A i \in 1..d : NodeAt(u, c, o, i)
  <2>1. t \in Seq(Event) /\ u = Append(t, e) /\ d \in Nat
    BY <1>1
  <2>2. \A i \in 1..d : NodeAt(t, s, o, i) /\ o[i] \in 1..Len(t)
    BY <1>2 DEF n
  <2>3. \A i \in 1..d : Kept(s, c, o, o, i)
    BY <1>3, <1>4 DEF Kept
  <2>4. QED
    BY ONLY <2>1, <2>2, <2>3, NodesStay, Zenon
<1>7. DepthIn(u, n + 1) = d
  <2>1. DepthIn(u, n + 1) = DepthIn(t, n) + 0
    BY <1>5 DEF Deepens, n
  <2>2. QED
    BY <1>1, <1>2, <2>1
<1>8. o \in [1..d -> 1..(n + 1)]
  <2>1. \A i \in 1..n : i \in 1..(n + 1)
    BY <1>1
  <2>2. QED
    BY <1>2, <2>1
<1>9. AboveIn(u, (n + 1) + 1) = {o[j] : j \in 1..d}
  <2>1. (n + 1) + 1 = n + 2
    BY <1>1
  <2>2. QED
    BY <1>2, <1>5, <2>1
<1>10. QED
  BY <1>1, <1>2, <1>3, <1>6, <1>7, <1>8, <1>9 DEF Nested

LEMMA OpenNests ==
    ASSUME NEW t \in Seq(Event), NEW s \in Seq(Node), NEW o, Nested(t, s, o),
           NEW e \in Opens, NEW u, u = Append(t, e), NEW c, Marked(s, c),
           NEW x \in Node, x.kind = e, x.children = 0, x.indent = IndentIn(t, Len(t) + 1)
    PROVE  \E q : Nested(u, Append(c, x), q)
<1> DEFINE n == Len(t)
           d == Len(s)
           v == Append(c, x)
           q == [i \in 1..(d + 1) |-> IF i = d + 1 THEN n + 1 ELSE o[i]]
<1>1. n \in Nat /\ d \in Nat /\ Len(u) = n + 1 /\ u[n + 1] = e
  OBVIOUS
<1>2. /\ o \in [1..d -> 1..n] /\ \A i, j \in 1..d : i < j => o[i] < o[j]
      /\ DepthIn(t, n) = d /\ AboveIn(t, n + 1) = {o[j] : j \in 1..d}
      /\ \A i \in 1..d : NodeAt(t, s, o, i)
  BY DEF Nested
<1>3. /\ c \in Seq(Node) /\ Len(c) = d
      /\ \A i \in 1..d : c[i].kind = s[i].kind /\ c[i].indent = s[i].indent
  BY DEF Marked
<1>4. \A i \in 1..d : c[i].children # 0
  BY OldNodes
<1>5. Deepens(t, e, u) /\ AboveIn(u, n + 2) = AboveIn(t, n + 1) \cup {n + 1}
  BY DepthSteps, AroundNext
<1>6. AboveIn(u, n + 1) = AboveIn(t, n + 1) /\ IndentIn(u, n + 1) = IndentIn(t, n + 1)
  <2>1. t \in Seq(Event) /\ u = Append(t, e) /\ n + 1 \in 1..(Len(t) + 1)
    OBVIOUS
  <2>2. QED
    BY ONLY <2>1, AroundSame, Zenon
<1>7. x.indent = IndentIn(t, n + 1)
  OBVIOUS
<1> HIDE DEF n, d, v
<1>8. Len(v) = d + 1 /\ v[d + 1] = x /\ \A i \in 1..d : v[i] = c[i]
  BY <1>1, <1>3 DEF v
<1>9. /\ \A i \in 1..(d + 1) : i = d + 1 \/ i \in 1..d
      /\ \A i \in 1..d : i \in 1..(d + 1) /\ i # d + 1 /\ i < d + 1
      /\ d + 1 \in 1..(d + 1)
  BY <1>1
<1>10. q[d + 1] = n + 1 /\ \A i \in 1..d : q[i] = o[i]
  BY <1>9
<1>11. q \in [1..(d + 1) -> 1..(n + 1)]
  <2>1. n + 1 \in 1..(n + 1) /\ \A i \in 1..n : i \in 1..(n + 1)
    BY <1>1
  <2>2. \A i \in 1..(d + 1) : (IF i = d + 1 THEN n + 1 ELSE o[i]) \in 1..(n + 1)
    BY <1>2, <1>9, <2>1
  <2>3. QED
    BY <2>2
<1> HIDE DEF q
<1>12. \A i, j \in 1..(d + 1) : i < j => q[i] < q[j]
  <2> SUFFICES ASSUME NEW i \in 1..(d + 1), NEW j \in 1..(d + 1), i < j PROVE q[i] < q[j]
    OBVIOUS
  <2>1. i \in 1..d
    BY <1>1
  <2>2. CASE j = d + 1
    <3>1. q[i] \in 1..n
      BY <1>2, <1>10, <2>1
    <3>2. QED
      BY <1>1, <1>10, <2>2, <3>1
  <2>3. CASE j # d + 1
    <3>1. j \in 1..d
      BY <1>9, <2>3
    <3>2. QED
      BY <1>2, <1>10, <2>1, <3>1
  <2>4. QED
    BY <2>2, <2>3
<1>13. \A i \in 1..d : NodeAt(u, v, q, i)
  <2>1. t \in Seq(Event) /\ u = Append(t, e) /\ d \in Nat
    BY <1>1
  <2>2. \A i \in 1..d : v[i].kind = s[i].kind /\ v[i].indent = s[i].indent
                         /\ v[i].children # 0
    BY <1>3, <1>4, <1>8
  <2>3. \A i \in 1..d : \A j \in 1..i : q[j] = o[j]
    <3>1. \A i \in 1..d : \A j \in 1..i : j \in 1..d
      BY <1>1
    <3>2. QED
      BY <1>10, <3>1
  <2>4. \A i \in 1..d : NodeAt(t, s, o, i) /\ o[i] \in 1..Len(t)
    BY <1>2 DEF n
  <2>5. \A i \in 1..d : Kept(s, v, o, q, i)
    BY <2>2, <2>3 DEF Kept
  <2>6. QED
    BY ONLY <2>1, <2>4, <2>5, NodesStay, Zenon
<1>14. DepthIn(u, n + 1) = d + 1
  <2>1. DepthIn(u, n + 1) = DepthIn(t, n) + 1
    BY <1>5 DEF Deepens, n
  <2>2. QED
    BY <1>1, <1>2, <2>1
<1>15. {q[j] : j \in 1..d} = {o[j] : j \in 1..d}
  BY <1>10
<1>16. NodeAt(u, v, q, d + 1)
  <2>1. d + 1 - 1 = d
    BY <1>1
  <2>2. AboveIn(u, q[d + 1]) = {q[j] : j \in 1..(d + 1 - 1)}
    BY <1>2, <1>6, <1>10, <1>15, <2>1
  <2>3. v[d + 1].indent = IndentIn(u, q[d + 1])
    BY <1>6, <1>7, <1>8, <1>10
  <2>4. QED
    BY <1>1, <1>8, <1>10, <1>14, <2>2, <2>3 DEF NodeAt
<1>17. AboveIn(u, (n + 1) + 1) = {q[j] : j \in 1..(d + 1)}
  <2>1. (n + 1) + 1 = n + 2
    BY <1>1
  <2>2. {q[j] : j \in 1..(d + 1)} = {q[j] : j \in 1..d} \cup {q[d + 1]}
    BY <1>9
  <2>3. QED
    BY <1>2, <1>5, <1>10, <1>15, <2>1, <2>2
<1>18. \A i \in 1..(d + 1) : NodeAt(u, v, q, i)
  BY <1>9, <1>13, <1>16
<1>19. Nested(u, v, q)
  BY <1>1, <1>8, <1>11, <1>12, <1>14, <1>17, <1>18 DEF Nested
<1>20. QED
  BY <1>19 DEF v

LEMMA CloseNests ==
    ASSUME NEW t \in Seq(Event), NEW s \in Seq(Node), NEW o, Nested(t, s, o), s # << >>,
           NEW u, u = Append(t, "close")
    PROVE  \E q : Nested(u, Front(s), q)
<1> DEFINE n == Len(t)
           d == Len(s)
           f == Front(s)
           q == [i \in 1..(d - 1) |-> o[i]]
<1>1. n \in Nat /\ d \in Nat \ {0} /\ Len(u) = n + 1
  OBVIOUS
<1>2. /\ o \in [1..d -> 1..n] /\ \A i, j \in 1..d : i < j => o[i] < o[j]
      /\ DepthIn(t, n) = d /\ AboveIn(t, n + 1) = {o[j] : j \in 1..d}
      /\ \A i \in 1..d : NodeAt(t, s, o, i)
  BY DEF Nested
<1>3. Len(f) = d - 1 /\ \A i \in 1..(d - 1) : f[i] = s[i]
  BY FrontFacts
<1>4. /\ Deepens(t, "close", u)
      /\ AboveIn(u, n + 2) = {i \in AboveIn(t, n + 1) : DepthIn(t, i) < DepthIn(t, n)}
  BY DepthSteps, AroundNext
<1> HIDE DEF n, d, f
<1>5. /\ \A i \in 1..(d - 1) : i \in 1..d /\ i < d
      /\ \A i \in 1..d : i = d \/ i \in 1..(d - 1)
      /\ d \in 1..d /\ d - 1 \in Nat
  BY <1>1
<1>6. \A i \in 1..(d - 1) : q[i] = o[i]
  OBVIOUS
<1>7. \A i \in 1..(d - 1) : o[i] \in 1..n /\ o[i] \in 1..(n + 1) /\ o[i] # n
  <2> SUFFICES ASSUME NEW i \in 1..(d - 1) PROVE o[i] \in 1..n /\ o[i] \in 1..(n + 1) /\ o[i] # n
    OBVIOUS
  <2>1. o[i] \in 1..n /\ o[d] \in 1..n /\ o[i] < o[d]
    BY <1>2, <1>5
  <2>2. QED
    BY <1>1, <2>1
<1>8. q \in [1..(d - 1) -> 1..(n + 1)]
  BY <1>7
<1>9. \A i, j \in 1..(d - 1) : i < j => q[i] < q[j]
  BY <1>2, <1>5
<1> HIDE DEF q
<1>10. \A i \in 1..(d - 1) : NodeAt(u, f, q, i)
  <2>1. t \in Seq(Event) /\ u = Append(t, "close") /\ d - 1 \in Nat
    BY <1>5
  <2>2. \A i \in 1..(d - 1) : f[i].kind = s[i].kind /\ f[i].indent = s[i].indent
                               /\ f[i].children # 0
    <3>1. \A i \in 1..(d - 1) : s[i].children # 0
      <4>1. \A i \in 1..d : s[i].children = 0 <=> o[i] = n
        BY <1>2 DEF NodeAt, n
      <4>2. QED
        BY <1>5, <1>7, <4>1
    <3>2. QED
      BY <1>3, <3>1
  <2>3. \A i \in 1..(d - 1) : \A j \in 1..i : q[j] = o[j]
    <3>1. \A i \in 1..(d - 1) : \A j \in 1..i : j \in 1..(d - 1)
      BY <1>1
    <3>2. QED
      BY <1>6, <3>1
  <2>4. \A i \in 1..(d - 1) : NodeAt(t, s, o, i) /\ o[i] \in 1..Len(t)
    BY <1>2, <1>5, <1>7 DEF n
  <2>5. \A i \in 1..(d - 1) : Kept(s, f, o, q, i)
    BY <2>2, <2>3 DEF Kept
  <2>6. QED
    BY ONLY <2>1, <2>4, <2>5, NodesStay, Zenon
<1>11. DepthIn(u, n + 1) = d - 1
  <2>1. DepthIn(u, n + 1) = DepthIn(t, n) + (0 - 1)
    <3>1. "close" \notin Opens
      BY DEF Opens
    <3>2. QED
      BY <1>4, <3>1 DEF Deepens, n
  <2>2. QED
    BY <1>1, <1>2, <2>1
<1>12. AboveIn(u, (n + 1) + 1) = {q[j] : j \in 1..(d - 1)}
  <2>1. (n + 1) + 1 = n + 2
    BY <1>1
  <2>2. \A j \in 1..d : DepthIn(t, o[j]) = j
    BY <1>2 DEF NodeAt
  <2>3. \A j \in 1..d : j < d <=> j \in 1..(d - 1)
    BY <1>1
  <2>4. {i \in AboveIn(t, n + 1) : DepthIn(t, i) < DepthIn(t, n)} = {o[j] : j \in 1..(d - 1)}
    BY <1>2, <1>5, <2>2, <2>3
  <2>5. {q[j] : j \in 1..(d - 1)} = {o[j] : j \in 1..(d - 1)}
    BY <1>6
  <2>6. QED
    BY <1>4, <2>1, <2>4, <2>5
<1>13. Nested(u, f, q)
  BY <1>1, <1>3, <1>8, <1>9, <1>10, <1>11, <1>12 DEF Nested
<1>14. QED
  BY <1>13 DEF f

LEMMA NothingNests == \E o : Nested(<< >>, << >>, o)
<1> DEFINE o == [i \in 1..0 |-> 0]
           t == << >>
<1>1. Len(t) = 0 /\ 1..0 = {}
  OBVIOUS
<1>2. EventsIn(Opens, t, 0) = {} /\ EventsIn({"close"}, t, 0) = {}
  BY DEF EventsIn
<1>3. DepthIn(t, 0) = 0
  <2>1. Cardinality({}) = 0
    BY FS_EmptySet
  <2>2. DepthIn(t, 0) = Cardinality({}) - Cardinality({})
    BY <1>2 DEF DepthIn
  <2>3. QED
    BY <2>1, <2>2
<1>4. AboveIn(t, 0 + 1) = {}
  <2>1. 1..(0 + 1 - 1) = {}
    OBVIOUS
  <2>2. QED
    BY <2>1 DEF AboveIn
<1>5. o \in [1..0 -> 1..0]
  OBVIOUS
<1>6. {o[j] : j \in 1..0} = {}
  OBVIOUS
<1> HIDE DEF o, t
<1>7. Nested(t, t, o)
  BY <1>1, <1>3, <1>4, <1>5, <1>6 DEF Nested
<1>8. QED
  BY <1>7 DEF t

LEMMA TwoMore ==
    ASSUME NEW S, NEW p \in Seq(S), NEW q \in Seq(S), Len(q) = 2
    PROVE  Len(p \o q) = Len(p) + 2 /\ \A i \in 1..Len(p) : (p \o q)[i] = p[i]
<1> DEFINE r == p \o q
<1>1. /\ Len(r) = Len(p) + Len(q)
      /\ \A i \in 1..(Len(p) + Len(q)) : r[i] = IF i <= Len(p) THEN p[i] ELSE q[i - Len(p)]
  BY ConcatProperties
<1>2. Len(p) \in Nat
  OBVIOUS
<1> HIDE DEF r
<1>3. \A i \in 1..Len(p) : i \in 1..(Len(p) + Len(q)) /\ i <= Len(p)
  BY <1>2
<1>4. QED
  BY <1>1, <1>3 DEF r

LEMMA WalkNests == ASSUME PrintOK, NestInv, NEW max, Walk(max) PROVE NestInv'
<1>1. tree \in Seq(Event) /\ nodes \in Seq(Node) /\ text \in Seq(Item) /\ Before \in Seq(Item)
  BY BeforeOK DEF PrintOK, Event
<1>2. NodeIndent \in Nat
  BY IndentsAreNumbers
<1>3. PICK o : Nested(tree, nodes, o)
  BY DEF NestInv
<1>4. NodeIndent = IndentIn(tree, Len(tree) + 1)
  <2>1. /\ nodes = << >> => IndentIn(tree, Len(tree) + 1) = 0
        /\ nodes # << >> => IndentIn(tree, Len(tree) + 1) = IndentFrom(nodes[Len(nodes)])
    BY <1>1, <1>3, IndentNext
  <2>2. NodeIndent = IF nodes = << >> THEN 0 ELSE IndentFrom(nodes[Len(nodes)])
    BY DEF NodeIndent, IndentFrom, Last
  <2>3. QED
    BY <2>1, <2>2
<1>5. Marked(nodes, Counted)
  <2>1. CASE nodes = << >>
    BY <2>1 DEF Marked, Counted
  <2>2. CASE nodes # << >>
    <3>1. Counted = [nodes EXCEPT ![Len(nodes)].children = @ + 1]
      BY <2>2 DEF Counted
    <3> DEFINE c == Counted
    <3> HIDE DEF c
    <3>2. c = [nodes EXCEPT ![Len(nodes)].children = @ + 1]
      BY <3>1 DEF c
    <3>3. Marked(nodes, c)
      BY <1>1, <2>2, <3>2, CountedMarks
    <3>4. QED
      BY <3>3 DEF c
  <2>3. QED
    BY <2>1, <2>2
<1>6. CASE \E kind \in {"special", "inner"} : OpenNode(kind)
  <2>1. PICK kind \in {"special", "inner"} : OpenNode(kind)
    BY <1>6
  <2> DEFINE x == [kind |-> kind, indent |-> NodeIndent, children |-> 0]
             n == Len(tree)
  <2>2. nodes' = Append(Counted, x) /\ tree' = Append(tree, kind) /\ kind \in Opens
    BY <2>1 DEF OpenNode, Opens
  <2>3. x \in Node /\ x.kind = kind /\ x.children = 0 /\ x.indent = IndentIn(tree, n + 1)
    BY <1>2, <1>4 DEF Node
  <2> HIDE DEF x
  <2>4. \E q : Nested(tree', Append(Counted, x), q)
    <3> DEFINE c == Counted
               u == tree'
    <3> HIDE DEF c, u
    <3>1. Marked(nodes, c) /\ u = Append(tree, kind)
      BY <1>5, <2>2 DEF c, u
    <3>2. x.indent = IndentIn(tree, Len(tree) + 1)
      BY <2>3
    <3>3. \E q : Nested(u, Append(c, x), q)
      BY <1>1, <1>3, <2>2, <2>3, <3>1, <3>2, OpenNests
    <3>4. QED
      BY <3>3 DEF c, u
  <2>5. kind = "special" => text'[Len(text') - 2] = Line(NodeIndent)
    <3> SUFFICES ASSUME kind = "special" PROVE text'[Len(text') - 2] = Line(NodeIndent)
      OBVIOUS
    <3> DEFINE a == text \o Before
               y == Line(NodeIndent)
               z == <<Piece("("), Piece(kind)>>
    <3>1. text' = a \o <<y, Piece("("), Piece(kind)>>
      BY <2>1 DEF OpenNode
    <3>2. a \in Seq(Item) /\ y \in Item /\ z \in Seq(Item) /\ Len(z) = 2
      BY <1>1, <1>2 DEF Item
    <3> HIDE DEF a, y
    <3> DEFINE b == a \o <<y>>
    <3>3. Len(a) \in Nat /\ b \in Seq(Item) /\ Len(b) = Len(a) + 1 /\ b[Len(a) + 1] = y
      BY <3>2
    <3>4. text' = b \o z
      BY <3>1, <3>2
    <3> HIDE DEF b, z
    <3>5. Len(text') = Len(b) + 2 /\ \A i \in 1..Len(b) : text'[i] = b[i]
      <4>1. Len(b \o z) = Len(b) + 2 /\ \A i \in 1..Len(b) : (b \o z)[i] = b[i]
        BY ONLY <3>2, <3>3, TwoMore, Zenon
      <4>2. QED
        BY <3>4, <4>1
    <3>6. Len(a) + 1 \in 1..Len(b) /\ Len(text') - 2 = Len(a) + 1
      BY <3>3, <3>5
    <3>7. QED
      BY <3>3, <3>5, <3>6 DEF y
  <2>6. IndentIn(tree', n + 1) = IndentIn(tree, n + 1) /\ Len(tree') = n + 1 /\ Last(tree') = kind
    <3> DEFINE u == tree'
    <3>1. u = Append(tree, kind) /\ n + 1 \in 1..(Len(tree) + 1)
      BY <1>1, <2>2
    <3>2. Len(u) = n + 1 /\ Last(u) = kind
      BY <1>1, <3>1 DEF Last
    <3> HIDE DEF u
    <3>3. IndentIn(u, n + 1) = IndentIn(tree, n + 1)
      BY <1>1, <3>1, AroundSame
    <3>4. QED
      BY <3>2, <3>3 DEF u
  <2>7. QED
    BY <1>4, <2>2, <2>4, <2>5, <2>6 DEF NestInv
<1>7. CASE \E w \in Text : Leaf(w)
  <2>1. PICK w \in Text : Leaf(w)
    BY <1>7
  <2>2. tree' = Append(tree, w) /\ nodes' = Counted
    BY <2>1 DEF Leaf
  <2>3. w \notin Opens /\ w # "close"
    BY TextAssumption DEF Opens
  <2>4. Nested(tree', Counted, o)
    <3> DEFINE c == Counted
               u == tree'
    <3> HIDE DEF c, u
    <3>1. Marked(nodes, c) /\ u = Append(tree, w)
      BY <1>5, <2>2 DEF c, u
    <3>2. Nested(u, c, o)
      BY <1>1, <1>3, <2>3, <3>1, LeafNests
    <3>3. QED
      BY <3>2 DEF c, u
  <2>5. Last(tree') # "special"
    BY <1>1, <2>2, <2>3 DEF Last, Opens
  <2>6. QED
    BY <2>2, <2>4, <2>5 DEF NestInv
<1>8. CASE CloseNode
  <2>1. tree' = Append(tree, "close") /\ nodes' = Front(nodes) /\ nodes # << >>
    BY <1>8 DEF CloseNode
  <2>2. \E q : Nested(tree', Front(nodes), q)
    <3> DEFINE u == tree'
    <3> HIDE DEF u
    <3>1. u = Append(tree, "close")
      BY <2>1 DEF u
    <3>2. \E q : Nested(u, Front(nodes), q)
      BY <1>1, <1>3, <2>1, <3>1, CloseNests
    <3>3. QED
      BY <3>2 DEF u
  <2>3. Last(tree') # "special"
    BY <1>1, <2>1 DEF Last
  <2>4. QED
    BY <2>1, <2>2, <2>3 DEF NestInv
<1>9. QED
  BY <1>6, <1>7, <1>8 DEF Walk

LEMMA NestInvStep == ASSUME PrintOK, NestInv, [DriverNext]_driverVars PROVE NestInv'
<1>1. ASSUME PrintTree PROVE NestInv'
  BY <1>1, WalkNests DEF PrintTree
<1>2. ASSUME tree' = << >>, nodes' = << >> PROVE NestInv'
  BY <1>2, NothingNests DEF NestInv
<1>3. ASSUME UNCHANGED printVars PROVE NestInv'
  <2>1. tree' = tree /\ nodes' = nodes /\ text' = text
    BY <1>3 DEF printVars
  <2>2. QED
    BY <2>1 DEF NestInv
<1>4. PrintTree \/ (tree' = << >> /\ nodes' = << >>) \/ UNCHANGED printVars
  BY DEF DriverNext, driverVars, Compile, Edit, Start, Interrupt, EndArgs, ParseFile,
         OpenOutput, EndPrint, NoTree, Check, Build, CreatePasses, Emit, ExitMain, Jit,
         Stopped, End
<1>5. QED
  BY <1>1, <1>2, <1>3, <1>4

\* The definitions with the tree as an argument are those of the property.
LEMMA Indents == ASSUME PrintOK, NestInv PROVE IndentFollowsNesting
<1> SUFFICES ASSUME tree # << >>, Last(tree) = "special" PROVE IndentFollowsNesting
  BY DEF IndentFollowsNesting
<1> DEFINE k == Len(tree)
           special == {i \in Above(k) : tree[i] = "special"}
           first == {i \in special : i + 1 = k \/ i + 1 \in Above(k)}
<1>1. \A j : DepthIn(tree, j) = Cardinality({i \in 1..j : tree[i] \in {"special", "inner"}})
                                - Cardinality({i \in 1..j : tree[i] = "close"})
  <2>1. \A j : EventsIn({"close"}, tree, j) = {i \in 1..j : tree[i] = "close"}
    BY DEF EventsIn
  <2>2. QED
    BY <2>1 DEF DepthIn, EventsIn, Opens
<1>2. Above(k) = AboveIn(tree, k)
  BY <1>1 DEF Above, AboveIn, Opens
<1>3. special = SpecialIn(tree, k) /\ first = FirstIn(tree, k)
  BY <1>2 DEF SpecialIn, FirstIn
<1>4. text[Len(text) - 2] = Line(2 * Cardinality(special) + 2 * Cardinality(first))
  BY <1>3 DEF NestInv, IndentIn
<1>5. QED
  BY <1>4 DEF IndentFollowsNesting

\* However deep the tree and whatever the order in which its nodes open and
\* close, a special node is moved in by two blanks for every special node
\* around it and two more for each in whose first child it is.
THEOREM IndentFollowsNestingInvariant == DriverSpec => []IndentFollowsNesting
<1>1. DriverInit => NestInv
  BY NothingNests DEF DriverInit, PrintInit, NestInv
<1>2. ProcessInv => PrintOK
  BY DEF ProcessInv
<1>3. PrintOK /\ NestInv => IndentFollowsNesting
  BY Indents
<1>4. PrintOK /\ NestInv /\ [DriverNext]_driverVars => NestInv'
  BY NestInvStep
<1>5. QED
  BY <1>1, <1>2, <1>3, <1>4, ProcessInvariant, PTL DEF DriverSpec
=============================================================================
