------------------------------ MODULE Pipeline ------------------------------
(***************************************************************************)
(* The two passes over one program: checkSemantics, then the code          *)
(* generator (executeCodegen in src/src/codegen/codegen.cpp).  Both walk   *)
(* the same tree; "ast" is the tree in the order of the walk, an inner     *)
(* node being an opening event, its children, and "end"; "fn unknown" is a *)
(* whole method whose return type no pass knows.  The first pass reads the *)
(* events as the parser could have produced them, the second replays what  *)
(* the first one accepted.                                                 *)
(*                                                                         *)
(* What one pass promises and the other assumes crosses no interface in    *)
(* the code: BreakVisitor takes back() of the break points without a test, *)
(* because the semantic pass has rejected every break outside a loop.      *)
(***************************************************************************)
EXTENDS BlockGen, SemWalk, FiniteSets

CONSTANT MaxEvents  \* bound: events of one program

ASSUME EventsAssumption ==
    /\ MaxEvents \in Nat
    /\ MaxBlock > 3 * MaxEvents
    /\ MaxSimple >= MaxEvents
    /\ MaxDepth >= MaxEvents

VARIABLES
    ast,    \* the program
    pos,    \* the next event of the code generator
    phase   \* where executeCodegen is

pipeVars == <<vars, semVars, ast, pos, phase>>

Opening == {"fn void", "fn value", "while", "if"}
Event == Opening \cup {"else", "end", "simple", "break", "fn unknown",
                       "return none", "return compatible", "return incompatible"}

PipeTypeOK ==
    /\ TypeOK
    /\ SemTypeOK
    /\ ast \in Seq(Event)
    /\ pos \in 1..(Len(ast) + 1)
    /\ phase \in {"check", "generate", "done", "rejected", "undefined"}

PipeInit ==
    /\ Init
    /\ SemInit
    /\ ast = << >>
    /\ pos = 1
    /\ phase = "check"

\* What the visitor registered for the node of an event does in the first pass.
CheckEvent(e) ==
    CASE e = "fn void"  -> EnterMethod("void")
      [] e = "fn value" -> EnterMethod("value")
      [] e = "fn unknown" -> SkipMethod
      [] e = "while"    -> EnterLoop
      [] e = "if"       -> EnterIf
      [] e = "else"     -> EnterElse
      [] e = "end"      -> LeaveMethod \/ LeaveLoop \/ LeaveIf
      [] e = "simple"   -> stack # << >> /\ UNCHANGED semVars
      [] e = "break"    -> VisitBreak
      [] e = "return none"         -> VisitReturn("none")
      [] e = "return compatible"   -> VisitReturn("compatible")
      [] e = "return incompatible" -> VisitReturn("incompatible")

\* What it does in the second.
GenerateEvent(e) ==
    CASE e = "fn void"  -> BeginMethod("void")
      [] e = "fn value" -> BeginMethod("value")
      [] e = "fn unknown" -> FALSE  \* was rejected
      [] e = "while"    -> BeginWhile
      [] e = "if"       -> BeginIf
      [] e = "else"     -> BeginElse
      [] e = "end"      -> EndMethod \/ EndWhile \/ EndIfWithoutElse \/ EndElse
      [] e = "simple"   -> Simple
      [] e = "break"    -> Break
      [] OTHER          -> Return

\* Events still owed: every open node has to be closed.
Check ==
    /\ phase = "check"
    /\ \E e \in Event :
         /\ Len(ast) + Len(stack) + (IF e \in Opening THEN 2
                                     ELSE IF e = "end" THEN 0 ELSE 1) <= MaxEvents
         /\ CheckEvent(e)
         /\ ast' = Append(ast, e)
    /\ phase' = IF broken' THEN "undefined" ELSE "check"
    /\ UNCHANGED <<vars, pos>>

\* The end of checkSemantics: a dirty pass throws, and no code is generated.
EndCheck ==
    /\ phase = "check"
    /\ stack = << >>
    /\ ast # << >>
    /\ phase' = IF dirty THEN "rejected" ELSE "generate"
    /\ UNCHANGED <<vars, semVars, ast, pos>>

Generate ==
    /\ phase = "generate"
    /\ pos <= Len(ast)
    /\ GenerateEvent(ast[pos])
    /\ pos' = pos + 1
    /\ UNCHANGED <<semVars, ast, phase>>

EndGenerate ==
    /\ phase = "generate"
    /\ pos = Len(ast) + 1
    /\ phase' = "done"
    /\ UNCHANGED <<vars, semVars, ast, pos>>

Stopped ==
    /\ phase \in {"done", "rejected", "undefined"}
    /\ UNCHANGED pipeVars

PipeNext == Check \/ EndCheck \/ Generate \/ EndGenerate \/ Stopped

PipeSpec == PipeInit /\ [][PipeNext]_pipeVars

-----------------------------------------------------------------------------
Depth(k) == Cardinality({i \in 1..(k - 1) : ast[i] \in Opening})
            - Cardinality({i \in 1..(k - 1) : ast[i] = "end"})

\* The opening events of the nodes around the k-th event.
Around(k) == {i \in 1..(k - 1) : ast[i] \in Opening
                                 /\ \A j \in (i + 1)..k : Depth(j) > Depth(i)}

Accepted == phase \in {"generate", "done"}

\* Until something else is reported, a break is reported exactly if no while of
\* the source is open around it, whatever loops, ifs and methods were entered
\* and left before (implementation.tex:90, appendix.tex:289).
BreakReported ==
    [][ast' = Append(ast, "break") /\ ~dirty
         => (dirty' <=> \A i \in Around(Len(ast) + 1) : ast[i] # "while")]_pipeVars

\* In a program that is accepted every break stands in a loop of its own
\* method (implementation.tex:90).
AcceptedBreaks ==
    Accepted => \A k \in 1..Len(ast) :
                  ast[k] = "break" => \E i \in Around(k) : ast[i] = "while"

\* ... so that the code generator never takes the last of no break points.
BreakHasTarget ==
    phase = "generate" /\ pos <= Len(ast) /\ ast[pos] = "break"
        => breakPoints # << >>

\* The generator's stack of visitors is the nesting of the source: it neither
\* keeps a loop or an if open nor closes one early, and it is between methods
\* exactly where the source is.
GeneratorFollowsSource ==
    phase = "generate" =>
        /\ Cardinality(Around(pos)) = Len(frames) + (IF fn = "none" THEN 0 ELSE 1)
        /\ Cardinality({i \in Around(pos) : ast[i] = "while"}) = Len(breakPoints)

\* A return that is accepted fits the method around it (appendix.tex:303-305).
AcceptedReturns ==
    Accepted => \A k \in 1..Len(ast) : \A i \in Around(k) :
        /\ ast[k] = "return none" => ast[i] # "fn value"
        /\ ast[k] # "return incompatible"

\* implementation.tex:91: a function that returns a value contains a return
\* statement.  The semantic pass does not look for one.
ValueMethodsReturn ==
    Accepted => \A i \in 1..Len(ast) :
        ast[i] = "fn value" =>
            \E k \in 1..Len(ast) : i \in Around(k) /\ ast[k] = "return compatible"
=============================================================================
