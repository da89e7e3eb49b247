----------------------------- MODULE BlockFlow ------------------------------
(***************************************************************************)
(* What the control flow of the source says of the generated blocks.       *)
(* BlockGen runs next to a reference that knows nothing of blocks: "live"  *)
(* is whether control can reach the point of the source that is being      *)
(* visited, by the rules of structured control flow (a condition may go    *)
(* either way, break and return do not fall through).                      *)
(***************************************************************************)
EXTENDS BlockGen

VARIABLES
    live,    \* control reaches the current point of the source
    flow,    \* for each open statement: live at its start and after "then"
    dead     \* some statement of this method was visited where live is FALSE

flowVars == <<code, used, layout, at, breakPoints, frames, fn, simple,
              live, flow, dead>>

FlowInit == Init /\ live = FALSE /\ flow = << >> /\ dead = FALSE

FlowBeginMethod(kind) ==
    BeginMethod(kind) /\ live' = TRUE /\ flow' = << >> /\ dead' = FALSE

FlowEndMethod == EndMethod /\ live' = FALSE /\ UNCHANGED <<flow, dead>>

Visited == dead' = (dead \/ ~live)

FlowOpen ==
    /\ BeginWhile \/ BeginIf
    /\ flow' = Append(flow, [start |-> live, then |-> FALSE])
    /\ Visited
    /\ UNCHANGED live

\* The condition can fail the first time, so a loop and an if without else
\* are left alive when they are reached alive.
FlowSkippable ==
    /\ EndWhile \/ EndIfWithoutElse
    /\ live' = Top(flow).start
    /\ flow' = Pop(flow)
    /\ UNCHANGED dead

FlowElse ==
    /\ BeginElse
    /\ live' = Top(flow).start
    /\ flow' = [flow EXCEPT ![Len(flow)].then = live]
    /\ UNCHANGED dead

FlowEndElse ==
    /\ EndElse
    /\ live' = (live \/ Top(flow).then)
    /\ flow' = Pop(flow)
    /\ UNCHANGED dead

FlowSimple == Simple /\ Visited /\ UNCHANGED <<live, flow>>

FlowJump == (Break \/ Return) /\ live' = FALSE /\ Visited /\ UNCHANGED flow

FlowNext ==
    \/ \E kind \in {"void", "value"} : FlowBeginMethod(kind)
    \/ FlowEndMethod
    \/ FlowOpen
    \/ FlowSkippable
    \/ FlowElse
    \/ FlowEndElse
    \/ FlowSimple
    \/ FlowJump

FlowSpec == FlowInit /\ [][FlowNext]_flowVars

-----------------------------------------------------------------------------
Terminators(c, b) == {k \in 1..Len(c[b]) : IsTerminator(c[b][k])}

\* Control leaves a block at its first terminator.
Successors(c, b) ==
    UNION {c[b][k].succ : k \in {k \in Terminators(c, b) :
                                   \A m \in Terminators(c, b) : k <= m}}

WithSuccessors(c, R) == R \cup UNION {Successors(c, b) : b \in R}

\* The blocks that control can enter.  A path needs at most u steps to any of
\* u blocks.
Reachable(c, u) ==
    LET Within[n \in Nat] == IF n = 0 THEN {1} ELSE WithSuccessors(c, Within[n - 1])
    IN  Within[u]

\* An instruction emitted now would be executed exactly when the source says
\* that control gets here.  A loop or an if that forgets an edge, or a merge
\* block that is entered from nowhere, breaks it.
LiveIffReachable ==
    fn # "none" =>
        (live <=> at \in Reachable(code, used) /\ Terminators(code, at) = {})

\* Blocks are well formed (one terminator, at the end) as long as no statement
\* stands where control cannot reach: the code appends dead statements behind
\* the branch of the break or return before them.
OneTerminator ==
    dead \/ \A b \in Attached : Terminators(code, b) \subseteq {Len(code[b])}

\* The unwritten result slot is read at run time only in a method whose source
\* can run off its end.
SlotOnlyOffTheEnd ==
    [][fn = "value" /\ fn' = "none" =>
         (live <=> \E b \in Reachable(code', used') : \E k \in 1..Len(code'[b]) :
                     /\ code'[b][k] = RetSlot
                     /\ \A m \in 1..(k - 1) : ~IsTerminator(code'[b][m]))]_flowVars
=============================================================================
