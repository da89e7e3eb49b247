------------------------------ MODULE SemWalk -------------------------------
(***************************************************************************)
(* The semantic pass over methods, loops, breaks and returns.              *)
(*                                                                         *)
(* AstWalker (src/src/parser/parser.cpp) dispatches on the token type      *)
(* through a table of pointers to visitors.  MethodVisitor and LoopVisitor *)
(* (src/src/semantics/semantics.cpp) put another visitor in the table      *)
(* while they visit their children and put the former one back after; an   *)
(* error only marks the pass "dirty", and the walk goes on.                *)
(*                                                                         *)
(* A table entry is modelled by the object it points to: 0 is an object of *)
(* checkSemantics itself, alive for the whole walk, and k > 0 an object of *)
(* the visitor activated for stack[k].  LoopVisitor registers a local that *)
(* lives as long as its activation.  MethodVisitor registers a temporary   *)
(* that is destroyed at the end of the statement: its storage may be       *)
(* intact or reused when a RETURN is visited.                              *)
(***************************************************************************)
EXTENDS Naturals, Sequences

CONSTANT MaxDepth  \* bound: nodes on the walker's stack

ASSUME DepthAssumption == MaxDepth \in Nat

VARIABLES
    stack,      \* AstWalker::stack with what each activated visitor saved
    onBreak,    \* visitors[BREAK]: 0 is UnexpectedBreakVisitor, else a noop
    onReturn,   \* visitors[RETURN]: 0 is the default visitor
    dirty,      \* SemanticNodeVisitor::dirty
    broken      \* a destroyed visitor whose storage was reused has been called

semVars == <<stack, onBreak, onReturn, dirty, broken>>

\* An IF node appears as THEN or ELSE, after the child being visited.
Node == {"DEFFN void", "DEFFN value", "WHILE", "THEN", "ELSE"}

SemTypeOK ==
    /\ stack \in Seq([node : Node, saved : Nat])
    /\ onBreak \in 0..Len(stack)
    /\ onReturn \in 0..Len(stack)
    /\ dirty \in BOOLEAN
    /\ broken \in BOOLEAN

SemInit ==
    /\ stack = << >>
    /\ onBreak = 0
    /\ onReturn = 0
    /\ dirty = FALSE
    /\ broken = FALSE

Current == stack[Len(stack)]
Visit(node, saved) == Append(stack, [node |-> node, saved |-> saved])
Leave == SubSeq(stack, 1, Len(stack) - 1)

\* MethodVisitor, the return type being known: addVisitor(RETURN, ReturnVisitor(symbols, *returnType)).
EnterMethod(kind) ==
    /\ stack = << >>
    /\ stack' = Visit(IF kind = "void" THEN "DEFFN void" ELSE "DEFFN value",
                      onReturn)
    /\ onReturn' = Len(stack')
    /\ UNCHANGED <<onBreak, dirty, broken>>

\* MethodVisitor where the return type is unknown: reported, and nothing of the
\* method is visited.
SkipMethod ==
    /\ stack = << >>
    /\ dirty' = TRUE
    /\ UNCHANGED <<stack, onBreak, onReturn, broken>>

LeaveMethod ==
    /\ Len(stack) = 1
    /\ onReturn' = Current.saved
    /\ stack' = Leave
    /\ UNCHANGED <<onBreak, dirty, broken>>

\* LoopVisitor: addVisitor(BREAK, noop).
EnterLoop ==
    /\ Len(stack) \in 1..(MaxDepth - 1)
    /\ stack' = Visit("WHILE", onBreak)
    /\ onBreak' = Len(stack')
    /\ UNCHANGED <<onReturn, dirty, broken>>

LoopLeft(visitor) ==
    /\ stack # << >>
    /\ Current.node = "WHILE"
    /\ onBreak' = visitor
    /\ stack' = Leave
    /\ UNCHANGED <<onReturn, dirty, broken>>

\* Mutants of LeaveLoop: the noop stays registered; the visitor of
\* checkSemantics is put back, not the one that was there before.
LeaveLoopKeepsNoop == LoopLeft(onBreak)
LeaveLoopRestoresDefault == LoopLeft(0)

LeaveLoop == LoopLeft(Current.saved)

\* IF has the default visitor VisitChildren.
EnterIf ==
    /\ Len(stack) \in 1..(MaxDepth - 1)
    /\ stack' = Visit("THEN", 0)
    /\ UNCHANGED <<onBreak, onReturn, dirty, broken>>

EnterElse ==
    /\ stack # << >>
    /\ Current.node = "THEN"
    /\ stack' = [stack EXCEPT ![Len(stack)].node = "ELSE"]
    /\ UNCHANGED <<onBreak, onReturn, dirty, broken>>

LeaveIf ==
    /\ stack # << >>
    /\ Current.node \in {"THEN", "ELSE"}
    /\ stack' = Leave
    /\ UNCHANGED <<onBreak, onReturn, dirty, broken>>

\* Mutant of VisitBreak: the message is printed and nothing marked.
VisitBreakNotDirty == stack # << >> /\ UNCHANGED semVars

\* UnexpectedBreakVisitor, or the noop of a loop.
VisitBreak ==
    /\ stack # << >>
    /\ dirty' = (dirty \/ onBreak = 0)
    /\ UNCHANGED <<stack, onBreak, onReturn, broken>>

\* What ReturnVisitor reports: no expression where the method that registered
\* the visitor has a value, or one that is not compatible with its type.
Mismatch(expr) ==
    IF expr = "none" THEN stack[onReturn].node # "DEFFN void"
    ELSE expr = "incompatible"

\* Mutant of VisitReturn: a return without expression is always right.
VisitReturnUntyped(expr) ==
    /\ stack # << >>
    /\ dirty' = (dirty \/ expr = "incompatible")
    /\ UNCHANGED <<stack, onBreak, onReturn, broken>>

\* ReturnVisitor.  expr is "none", or whether the type of the expression is
\* compatible with the return type of the method that registered the visitor.
\* If the storage of that visitor was reused, the call can do anything.
VisitReturn(expr) ==
    /\ stack # << >>
    /\ \/ /\ dirty' = (dirty \/ Mismatch(expr))
          /\ UNCHANGED broken
       \/ /\ broken' = TRUE
          /\ dirty' \in {dirty, TRUE}
    /\ UNCHANGED <<stack, onBreak, onReturn>>

SemNext ==
    \/ \E kind \in {"void", "value"} : EnterMethod(kind)
    \/ SkipMethod
    \/ LeaveMethod
    \/ EnterLoop
    \/ LeaveLoop
    \/ EnterIf
    \/ EnterElse
    \/ LeaveIf
    \/ VisitBreak
    \/ \E expr \in {"none", "compatible", "incompatible"} : VisitReturn(expr)

SemSpec == SemInit /\ [][SemNext]_semVars

-----------------------------------------------------------------------------
Loops == {i \in 1..Len(stack) : stack[i].node = "WHILE"}

\* The BREAK entry never points into a visitor that has returned, and inside
\* loops it is the noop of the innermost open one.
BreakVisitorAlive ==
    /\ onBreak \in Loops \cup {0}
    /\ \A i \in Loops : i <= onBreak
=============================================================================
