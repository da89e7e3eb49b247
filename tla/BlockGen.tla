------------------------------ MODULE BlockGen ------------------------------
(***************************************************************************)
(* Generation of the basic blocks of one method after another              *)
(* (src/src/codegen/mjmodule.cpp: MethodVisitor, WhileVisitor, IfVisitor,  *)
(* BreakVisitor, RetVisitor).                                              *)
(*                                                                         *)
(* The visitors are recursive C++ functions: a visitor creates blocks,     *)
(* moves the builder's insertion point, visits a child statement, and goes *)
(* on with whatever insertion point the child left.  Here the activation   *)
(* record of a visitor that waits for a child is an element of the stack   *)
(* "frames", and one action is what a visitor does between two visits.     *)
(*                                                                         *)
(* Abstractions.  Expressions never create a block (&& and || are not      *)
(* short-circuited, mjmodule.cpp:279-285), so the instructions that        *)
(* compute a condition are dropped and those of a simple statement are one *)
(* "op".  A BLOCK node has no visitor of its own: its statements are       *)
(* visited in order, so a body is a list of statements, braces or not.     *)
(***************************************************************************)
EXTENDS Naturals, Sequences

CONSTANTS MaxBlock,   \* bound: blocks created for one method
          MaxSimple   \* bound: simple statements, breaks and returns in one method

ASSUME BoundsAssumption == MaxBlock \in Nat \ {0} /\ MaxSimple \in Nat

VARIABLES
    code,         \* BasicBlock -> its instructions
    used,         \* blocks created so far: 1..used
    layout,       \* f->getBasicBlockList()
    at,           \* builder.GetInsertBlock()
    breakPoints,  \* values().breakPoints()
    frames,       \* visitors waiting for a child statement, innermost last
    fn,           \* the method being generated: its kind of return type
    simple        \* counts what MaxSimple bounds

vars == <<code, used, layout, at, breakPoints, frames, fn, simple>>

Block == 1..MaxBlock
Instr == [kind : {"op", "br", "ret", "retslot"}, succ : SUBSET Block]
Frame == [kind : {"while", "then", "else"}, next : Nat, merge : Block]

Op == [kind |-> "op", succ |-> {}]
Ret == [kind |-> "ret", succ |-> {}]
RetSlot == [kind |-> "retslot", succ |-> {}]  \* returns the unwritten result slot
Br(b) == [kind |-> "br", succ |-> {b}]
CondBr(b, c) == [kind |-> "br", succ |-> {b, c}]

IsTerminator(i) == i.kind # "op"

\* BasicBlock::getTerminator() # NULL: only the last instruction is looked at.
Terminated(c, b) == c[b] # << >> /\ IsTerminator(c[b][Len(c[b])])

Emit(c, b, i) == [c EXCEPT ![b] = Append(@, i)]

\* The guarded branch that closes a body: if (!b->getTerminator()) CreateBr(t).
CloseWith(c, b, i) == IF Terminated(c, b) THEN c ELSE Emit(c, b, i)

Top(s) == s[Len(s)]
Pop(s) == SubSeq(s, 1, Len(s) - 1)
Attached == {layout[i] : i \in 1..Len(layout)}

TypeOK ==
    /\ code \in [Block -> Seq(Instr)]
    /\ used \in 0..MaxBlock
    /\ layout \in Seq(1..used)
    /\ at \in 0..used
    /\ breakPoints \in Seq(1..used)
    /\ frames \in Seq(Frame)
    /\ fn \in {"none", "void", "value"}
    /\ simple \in 0..MaxSimple

Init ==
    /\ code = [b \in Block |-> << >>]
    /\ used = 0
    /\ layout = << >>
    /\ at = 0
    /\ breakPoints = << >>
    /\ frames = << >>
    /\ fn = "none"
    /\ simple = 0

\* MethodVisitor up to the visit of the body: a new function with its entry
\* block, the result slot and the allocas of arguments and locals.
BeginMethod(kind) ==
    /\ fn = "none"
    /\ fn' = kind
    /\ code' = [b \in Block |-> << >>]
    /\ used' = 1
    /\ layout' = <<1>>
    /\ at' = 1
    /\ simple' = 0
    /\ UNCHANGED <<breakPoints, frames>>

\* MethodVisitor after the body; leaveFunction.
EndMethod ==
    /\ fn # "none"
    /\ frames = << >>
    /\ code' = CloseWith(code, at, IF fn = "void" THEN Ret ELSE RetSlot)
    /\ fn' = "none"
    /\ UNCHANGED <<used, layout, at, breakPoints, frames, simple>>

OpenWhile(condBlock, loopBlock, mergeBlock, newBreakPoints) ==
    /\ fn # "none"
    /\ mergeBlock <= MaxBlock
    /\ used' = mergeBlock
    /\ code' = Emit(Emit(code, at, Br(condBlock)),
                    condBlock, CondBr(loopBlock, mergeBlock))
    /\ layout' = layout \o <<condBlock, loopBlock>>
    /\ at' = loopBlock
    /\ breakPoints' = newBreakPoints
    /\ frames' = Append(frames, [kind |-> "while", next |-> condBlock,
                                 merge |-> mergeBlock])
    /\ UNCHANGED <<fn, simple>>

\* Mutant of BeginWhile: the break point goes to the front of the list.
BeginWhileFront ==
    OpenWhile(used + 1, used + 2, used + 3, <<used + 3>> \o breakPoints)

\* WhileVisitor up to the visit of the body.
BeginWhile ==
    OpenWhile(used + 1, used + 2, used + 3, Append(breakPoints, used + 3))

CloseWhile(newCode, newBreakPoints) ==
    /\ frames # << >>
    /\ Top(frames).kind = "while"
    /\ code' = newCode
    /\ breakPoints' = newBreakPoints
    /\ layout' = Append(layout, Top(frames).merge)
    /\ at' = Top(frames).merge
    /\ frames' = Pop(frames)
    /\ UNCHANGED <<used, fn, simple>>

\* Mutants of EndWhile: no pop_back; a back edge behind any terminator.
EndWhileNoPop ==
    CloseWhile(CloseWith(code, at, Br(Top(frames).next)), breakPoints)
EndWhileUnguarded ==
    CloseWhile(Emit(code, at, Br(Top(frames).next)), Pop(breakPoints))

\* WhileVisitor after the body: back edge, pop the break point, continue in
\* the merge block.
EndWhile ==
    CloseWhile(CloseWith(code, at, Br(Top(frames).next)), Pop(breakPoints))

OpenIf(thenBlock, elseBlock, mergeBlock, branch) ==
    /\ fn # "none"
    /\ mergeBlock <= MaxBlock
    /\ used' = mergeBlock
    /\ code' = Emit(code, at, branch)
    /\ layout' = Append(layout, thenBlock)
    /\ at' = thenBlock
    /\ frames' = Append(frames, [kind |-> "then", next |-> elseBlock,
                                 merge |-> mergeBlock])
    /\ UNCHANGED <<breakPoints, fn, simple>>

\* Mutant of BeginIf: a false condition skips the else statement.
BeginIfSkipsElse ==
    OpenIf(used + 1, used + 2, used + 3, CondBr(used + 1, used + 3))

\* IfVisitor up to the visit of the then statement.
BeginIf ==
    OpenIf(used + 1, used + 2, used + 3, CondBr(used + 1, used + 2))

\* IfVisitor between the then and the else statement (ni != lastChild).
BeginElse ==
    /\ frames # << >>
    /\ Top(frames).kind = "then"
    /\ code' = CloseWith(code, at, Br(Top(frames).merge))
    /\ layout' = Append(layout, Top(frames).next)
    /\ at' = Top(frames).next
    /\ frames' = [frames EXCEPT ![Len(frames)] =
                    [kind |-> "else", next |-> 0, merge |-> @.merge]]
    /\ UNCHANGED <<used, breakPoints, fn, simple>>

CloseIf(kind, newCode, newLayout) ==
    /\ frames # << >>
    /\ Top(frames).kind = kind
    /\ code' = newCode
    /\ layout' = newLayout
    /\ at' = Top(frames).merge
    /\ frames' = Pop(frames)
    /\ UNCHANGED <<used, breakPoints, fn, simple>>

\* Mutant of EndIfWithoutElse: the else block is left empty.
EndIfOpenElse ==
    CloseIf("then", CloseWith(code, at, Br(Top(frames).merge)),
            layout \o <<Top(frames).next, Top(frames).merge>>)

\* IfVisitor after the then statement when there is no else statement: the
\* else block is made all the same, and only branches on.
EndIfWithoutElse ==
    CloseIf("then",
            CloseWith(CloseWith(code, at, Br(Top(frames).merge)),
                      Top(frames).next, Br(Top(frames).merge)),
            layout \o <<Top(frames).next, Top(frames).merge>>)

\* Mutants of EndElse: the else block attached for the merge block; nothing
\* attached.
EndElseSwapped ==
    CloseIf("else", CloseWith(code, at, Br(Top(frames).merge)),
            Append(layout, Top(frames).next))
EndElseDetached ==
    CloseIf("else", CloseWith(code, at, Br(Top(frames).merge)), layout)

\* IfVisitor after the else statement.
EndElse ==
    CloseIf("else", CloseWith(code, at, Br(Top(frames).merge)),
            Append(layout, Top(frames).merge))

\* One instruction appended at the insertion point, whatever is already there.
Put(i) ==
    /\ fn # "none"
    /\ simple < MaxSimple
    /\ simple' = simple + 1
    /\ code' = Emit(code, at, i)
    /\ UNCHANGED <<used, layout, at, breakPoints, frames, fn>>

\* Assignment, ++, --, call, print and read.
Simple == Put(Op)

\* BreakVisitor.  back() of an empty vector is undefined: the semantic pass
\* has to exclude it (see Pipeline).
Break == breakPoints # << >> /\ Put(Br(Top(breakPoints)))

\* Mutant of Return: the expression is visited and no ret created.
ReturnWithoutRet == Put(Op)

\* RetVisitor.
Return == Put(Ret)

Next ==
    \/ \E kind \in {"void", "value"} : BeginMethod(kind)
    \/ EndMethod
    \/ BeginWhile
    \/ EndWhile
    \/ BeginIf
    \/ BeginElse
    \/ EndIfWithoutElse
    \/ EndElse
    \/ Simple
    \/ Break
    \/ Return

Spec == Init /\ [][Next]_vars

-----------------------------------------------------------------------------
\* Every block that is in the function and is not being written ends in a
\* terminator; once the method is finished no block is excepted
\* (implementation.tex:189: the last instruction of every block is terminal).
BlocksTerminated ==
    \A b \in Attached : Terminated(code, b) \/ (fn # "none" /\ b = at)

\* A visitor that waits for a child knows which of its blocks are not in the
\* function yet.
Pending(f) == IF f.kind = "then" THEN {f.next, f.merge} ELSE {f.merge}

\* A block created detached from the function is owed by exactly one waiting
\* visitor, so it is put in the function once, and a finished method branches
\* only to blocks of its own list.
BlocksAttachedOnce ==
    /\ \A i, j \in 1..Len(layout) : layout[i] = layout[j] => i = j
    /\ \A b \in 1..used : b \in Attached
                          \/ \E i \in 1..Len(frames) : b \in Pending(frames[i])
    /\ \A i \in 1..Len(frames) : Pending(frames[i]) \cap Attached = {}

\* Branches lead to blocks that exist, and none leads to the entry block.
BranchTargets ==
    \A b \in Block : \A k \in 1..Len(code[b]) : code[b][k].succ \subseteq 2..used

\* break leaves the innermost loop that is still open, across any number of
\* ifs, and no break point survives its loop (or its method).
InnermostBreak ==
    /\ (\A i \in 1..Len(frames) : frames[i].kind # "while") => breakPoints = << >>
    /\ \A i \in 1..Len(frames) :
         /\ frames[i].kind = "while"
         /\ \A j \in (i + 1)..Len(frames) : frames[j].kind # "while"
         => breakPoints # << >> /\ Top(breakPoints) = frames[i].merge
=============================================================================
