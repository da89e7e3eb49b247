--------------------------- MODULE Pipeline_proofs ---------------------------
(***************************************************************************)
(* The visitors that the semantic pass exchanges, for methods, loops and   *)
(* ifs nested to any depth and for any number of methods; then the two     *)
(* passes together, for programs of any size: each is what its own module  *)
(* says, and what the first accepts the second can translate.              *)
(***************************************************************************)
EXTENDS Pipeline, BlockGen_proofs, SequenceTheorems, FiniteSetTheorems

-----------------------------------------------------------------------------
(* The semantic walk alone.                                                *)

Method == {"DEFFN void", "DEFFN value"}
OnStack == [node : Node, saved : Nat]

\* A method is at the bottom of the stack and nowhere else, and its return
\* visitor is the one registered; it has saved the default one.
MethodAtBottom ==
    /\ stack = << >> => onReturn = 0
    /\ stack # << >> => /\ stack[1].node \in Method /\ stack[1].saved = 0
                        /\ onReturn = 1
    /\ \A i \in 2..Len(stack) : stack[i].node \notin Method

\* A loop has saved the visitor of the next loop around it, or that of
\* checkSemantics if there is none.
SavedChain ==
    \A i \in Loops :
        /\ stack[i].saved \in Loops \cup {0} /\ stack[i].saved < i
        /\ \A j \in Loops : j < i => j <= stack[i].saved

SemInv == SemTypeOK /\ MethodAtBottom /\ SavedChain /\ BreakVisitorAlive

-----------------------------------------------------------------------------
(* Stacks.                                                                 *)

\* What Visit and Leave do to the nodes below.
LEMMA VisitFacts ==
    ASSUME stack \in Seq(OnStack), NEW node \in Node, NEW saved \in Nat,
           stack' = Append(stack, [node |-> node, saved |-> saved])
    PROVE  /\ stack' \in Seq(OnStack) /\ stack' # << >>
           /\ Len(stack) \in Nat /\ Len(stack') = Len(stack) + 1
           /\ \A i \in 1..Len(stack) : stack'[i] = stack[i]
           /\ stack'[Len(stack) + 1] = [node |-> node, saved |-> saved]
<1>1. [node |-> node, saved |-> saved] \in OnStack
  BY DEF OnStack
<1>2. QED
  BY <1>1

LEMMA LeaveFacts ==
    ASSUME stack \in Seq(OnStack), stack # << >>, stack' = Leave
    PROVE  /\ stack' \in Seq(OnStack)
           /\ Len(stack) \in Nat \ {0} /\ Len(stack') = Len(stack) - 1
           /\ \A i \in 1..Len(stack') : stack'[i] = stack[i]
           /\ Current = stack[Len(stack)] /\ Current \in OnStack
<1> DEFINE n == Len(stack) - 1
           t == SubSeq(stack, 1, n)
<1>1. Len(stack) \in Nat \ {0} /\ stack[Len(stack)] \in OnStack
  OBVIOUS
<1>2. n \in Nat /\ \A i \in 1..n : stack[i] \in OnStack
  BY <1>1
<1> HIDE DEF n
<1>3. /\ t \in Seq(OnStack)
      /\ Len(t) = IF 1 <= n THEN n - 1 + 1 ELSE 0
      /\ \A i \in 1..(n - 1 + 1) : t[i] = stack[1 + i - 1]
  BY <1>2, SubSeqProperties
<1> HIDE DEF t
<1>4. Len(t) = n /\ \A i \in 1..n : t[i] = stack[i]
  BY <1>2, <1>3
<1>5. QED
  BY <1>1, <1>3, <1>4 DEF Leave, Current, n, t

\* On an empty stack there are no loops, and only the empty stack has length 0.
LEMMA EmptyStack ==
    ASSUME stack \in Seq(OnStack)
    PROVE  /\ stack = << >> <=> Len(stack) = 0
           /\ stack = << >> => Loops = {}
<1>1. Len(<< >>) = 0 /\ (stack # << >> => Len(stack) \in Nat \ {0})
  BY EmptySeq
<1>2. stack = << >> <=> Len(stack) = 0
  BY <1>1
<1>3. ASSUME Len(stack) = 0 PROVE Loops = {}
  BY <1>3 DEF Loops
<1>4. QED
  BY <1>2, <1>3

-----------------------------------------------------------------------------
LEMMA SemInvInit == SemInit => SemInv
<1> SUFFICES ASSUME SemInit PROVE SemInv
  OBVIOUS
<1>1. /\ stack = << >> /\ onBreak = 0 /\ onReturn = 0
      /\ dirty = FALSE /\ broken = FALSE
  BY DEF SemInit
<1>2. Loops = {} /\ Len(stack) = 0
  <2>1. stack \in Seq(OnStack)
    BY <1>1, EmptySeq
  <2>2. QED
    BY <1>1, <2>1, EmptyStack
<1>3. SemTypeOK
  <2>1. stack \in Seq([node : Node, saved : Nat])
    BY <1>1, EmptySeq
  <2>2. dirty \in BOOLEAN /\ broken \in BOOLEAN
    BY <1>1
  <2>3. onBreak \in 0..Len(stack) /\ onReturn \in 0..Len(stack)
    <3>1. 0 \in 0..0
      OBVIOUS
    <3>2. QED
      BY <1>1, <1>2, <3>1, Zenon
  <2>4. QED
    BY <2>1, <2>2, <2>3 DEF SemTypeOK
<1>4. MethodAtBottom /\ SavedChain /\ BreakVisitorAlive
  BY <1>1, <1>2 DEF MethodAtBottom, SavedChain, BreakVisitorAlive
<1>5. QED
  BY <1>3, <1>4 DEF SemInv

LEMMA MethodKeeps ==
    ASSUME SemInv, (\E kind \in {"void", "value"} : EnterMethod(kind)) \/ LeaveMethod
    PROVE  SemInv'
<1>1. ASSUME NEW kind \in {"void", "value"}, EnterMethod(kind)
      PROVE  SemInv'
  <2>1. PICK node \in Method :
          stack' = Append(stack, [node |-> node, saved |-> onReturn])
    BY <1>1 DEF EnterMethod, Visit, Method
  <2>2. /\ stack = << >> /\ onReturn = 0 /\ onReturn' = Len(stack')
        /\ UNCHANGED <<onBreak, dirty, broken>> /\ onBreak = 0
        /\ stack \in Seq(OnStack) /\ Len(stack) = 0
    <3>1. stack = << >> /\ stack \in Seq(OnStack)
      BY <1>1 DEF EnterMethod, SemInv, SemTypeOK, OnStack
    <3>2. Loops = {} /\ Len(stack) = 0
      BY <3>1, EmptyStack
    <3>3. QED
      BY <1>1, <3>1, <3>2
         DEF EnterMethod, SemInv, MethodAtBottom, BreakVisitorAlive
  <2>3. /\ stack' \in Seq(OnStack) /\ Len(stack') = 1
        /\ stack'[1] = [node |-> node, saved |-> 0]
    <3>1. node \in Node /\ onReturn \in Nat
      BY <2>2 DEF Method, Node
    <3>2. /\ stack' \in Seq(OnStack) /\ Len(stack') = Len(stack) + 1
          /\ stack'[Len(stack) + 1] = [node |-> node, saved |-> onReturn]
      BY <2>1, <2>2, <3>1, VisitFacts
    <3>3. QED
      BY <2>2, <3>2
  <2>4. Loops' = {}
    <3>1. stack'[1].node = node
      BY <2>3
    <3>2. node # "WHILE"
      BY DEF Method
    <3>3. QED
      BY <2>3, <3>1, <3>2 DEF Loops
  <2>5. SavedChain' /\ BreakVisitorAlive'
    BY <2>2, <2>4 DEF SavedChain, BreakVisitorAlive
  <2>6. SemTypeOK' /\ MethodAtBottom'
    <3>1. stack' # << >>
      <4>1. Len(<< >>) = 0
        BY EmptySeq
      <4>2. Len(stack') # Len(<< >>)
        <5>1. Len(stack') = 1
          BY <2>3
        <5>2. QED
          BY <4>1, <5>1
      <4>3. QED
        BY <4>2
    <3>2. MethodAtBottom'
      <4>1. stack'[1].node = node /\ stack'[1].saved = 0 /\ onReturn' = 1
        BY <2>2, <2>3
      <4>2. \A i \in 2..Len(stack') : FALSE
        BY <2>3
      <4>3. QED
        BY <3>1, <4>1, <4>2 DEF MethodAtBottom
    <3>3. SemTypeOK'
      BY <2>2, <2>3 DEF SemInv, SemTypeOK, OnStack
    <3>4. QED
      BY <3>2, <3>3
  <2>7. QED
    BY <2>5, <2>6 DEF SemInv
<1>2. CASE LeaveMethod
  <2>1. /\ stack \in Seq(OnStack) /\ Len(stack) = 1 /\ stack # << >>
        /\ stack' = Leave /\ onReturn' = Current.saved
        /\ UNCHANGED <<onBreak, dirty, broken>>
    <3>1. stack \in Seq(OnStack) /\ Len(stack) = 1
      BY <1>2 DEF LeaveMethod, SemInv, SemTypeOK, OnStack
    <3>2. QED
      BY <1>2, <3>1, EmptyStack DEF LeaveMethod
  <2>2. /\ stack' \in Seq(OnStack) /\ Len(stack') = 0 /\ Current = stack[1]
    BY <2>1, LeaveFacts
  <2>3. stack' = << >> /\ onReturn' = 0
    BY <2>1, <2>2, EmptySeq DEF SemInv, MethodAtBottom
  <2>4. Loops = {} /\ Loops' = {}
    <3>1. stack[1].node # "WHILE"
      BY <2>1 DEF SemInv, MethodAtBottom, Method
    <3>2. Loops = {}
      BY <2>1, <3>1 DEF Loops
    <3>3. Loops' = {}
      BY <2>2 DEF Loops
    <3>4. QED
      BY <3>2, <3>3
  <2>5. SavedChain' /\ BreakVisitorAlive'
    BY <2>1, <2>4 DEF SemInv, SavedChain, BreakVisitorAlive
  <2>6. SemTypeOK' /\ MethodAtBottom'
    BY <2>1, <2>2, <2>3, <2>4 DEF SemInv, SemTypeOK, MethodAtBottom, OnStack, BreakVisitorAlive
  <2>7. QED
    BY <2>5, <2>6 DEF SemInv
<1>3. QED
  BY <1>1, <1>2

LEMMA EnterLoopKeeps == ASSUME SemInv, EnterLoop PROVE SemInv'
<1> DEFINE n == Len(stack)
<1>1. /\ stack \in Seq(OnStack) /\ onBreak \in 0..n /\ onReturn = 1
      /\ stack' = Append(stack, [node |-> "WHILE", saved |-> onBreak]) /\ onBreak' = Len(stack')
      /\ UNCHANGED <<onReturn, dirty, broken>> /\ stack # << >>
  BY DEF EnterLoop, Visit, SemInv, SemTypeOK, OnStack, MethodAtBottom
<1>2. /\ stack' \in Seq(OnStack) /\ n \in Nat \ {0} /\ Len(stack') = n + 1
      /\ \A i \in 1..n : stack'[i] = stack[i]
      /\ stack'[n + 1] = [node |-> "WHILE", saved |-> onBreak]
  <2>1. "WHILE" \in Node /\ onBreak \in Nat
    BY <1>1 DEF Node
  <2>2. QED
    BY <1>1, <2>1, VisitFacts
<1> HIDE DEF n
<1>3. Loops' = Loops \cup {n + 1} /\ Loops \subseteq 1..n
  BY <1>2 DEF Loops, n
<1>4. SavedChain'
  <2>1. ASSUME NEW i \in Loops'
        PROVE  /\ stack'[i].saved \in Loops' \cup {0} /\ stack'[i].saved < i
               /\ \A j \in Loops' : j < i => j <= stack'[i].saved
    <3>1. CASE i = n + 1
      BY <1>1, <1>2, <1>3, <3>1 DEF SemInv, BreakVisitorAlive, n
    <3>2. CASE i \in Loops
      <4>1. /\ stack[i].saved \in Loops \cup {0} /\ stack[i].saved < i
            /\ \A j \in Loops : j < i => j <= stack[i].saved
        BY <3>2 DEF SemInv, SavedChain
      <4>2. i \in 1..n /\ stack'[i] = stack[i]
        BY <1>2, <1>3, <3>2
      <4>3. ~(n + 1 < i)
        BY <1>2, <4>2
      <4>4. stack'[i].saved \in Loops' \cup {0} /\ stack'[i].saved < i
        BY <1>3, <4>1, <4>2
      <4>5. \A j \in Loops' : j < i => j <= stack'[i].saved
        BY <1>3, <4>1, <4>2, <4>3
      <4>6. QED
        BY <4>4, <4>5
    <3>3. QED
      BY <1>3, <2>1, <3>1, <3>2
  <2>2. QED
    BY <2>1 DEF SavedChain
<1>5. BreakVisitorAlive'
  BY <1>1, <1>2, <1>3 DEF BreakVisitorAlive
<1>6. SemTypeOK'
  BY <1>1, <1>2 DEF SemInv, SemTypeOK, OnStack, n
<1>7. MethodAtBottom'
  <2>1. ASSUME NEW i \in 2..(n + 1) PROVE stack'[i].node \notin Method
    <3>1. CASE i = n + 1
      <4>1. stack'[i] = [node |-> "WHILE", saved |-> onBreak]
        BY <1>2, <3>1
      <4>2. stack'[i].node = "WHILE"
        BY <4>1
      <4>3. QED
        BY <4>2 DEF Method
    <3>2. CASE i # n + 1
      <4>1. i \in 2..Len(stack) /\ stack'[i] = stack[i]
        BY <1>2, <3>2 DEF n
      <4>2. QED
        BY <4>1 DEF SemInv, MethodAtBottom
    <3>3. QED
      BY <3>1, <3>2
  <2>2. QED
    BY <1>1, <1>2, <2>1 DEF SemInv, MethodAtBottom
<1>8. QED
  BY <1>4, <1>5, <1>6, <1>7 DEF SemInv

LEMMA LeaveLoopKeeps == ASSUME SemInv, LeaveLoop PROVE SemInv'
<1> DEFINE n == Len(stack)
<1>1. /\ stack \in Seq(OnStack) /\ stack # << >> /\ onBreak \in 0..n
      /\ Current.node = "WHILE" /\ onBreak' = Current.saved /\ stack' = Leave
      /\ UNCHANGED <<onReturn, dirty, broken>>
  BY DEF LeaveLoop, LoopLeft, SemInv, SemTypeOK, OnStack
<1>2. /\ stack' \in Seq(OnStack) /\ n \in Nat \ {0} /\ Len(stack') = n - 1
      /\ \A i \in 1..(n - 1) : stack'[i] = stack[i]
      /\ Current = stack[n] /\ Current \in OnStack
  BY <1>1, LeaveFacts
<1> HIDE DEF n
<1>3. n # 1 /\ onReturn = 1
  BY <1>1, <1>2 DEF SemInv, MethodAtBottom, Method, n
<1>4. n \in Loops /\ Loops' = Loops \ {n} /\ Loops \subseteq 1..n
  BY <1>1, <1>2 DEF Loops, n
<1>5. /\ onBreak' \in Loops \cup {0} /\ onBreak' < n
      /\ \A j \in Loops : j < n => j <= onBreak'
  BY <1>1, <1>2, <1>4 DEF SemInv, SavedChain
<1>6. BreakVisitorAlive'
  BY <1>2, <1>4, <1>5 DEF BreakVisitorAlive
<1>7. SavedChain'
  <2>1. ASSUME NEW i \in Loops'
        PROVE  /\ stack'[i].saved \in Loops' \cup {0} /\ stack'[i].saved < i
               /\ \A j \in Loops' : j < i => j <= stack'[i].saved
    <3>1. i \in Loops /\ i \in 1..(n - 1) /\ stack'[i] = stack[i]
      BY <1>2, <1>4, <2>1
    <3>2. /\ stack[i].saved \in Loops \cup {0} /\ stack[i].saved < i
          /\ \A j \in Loops : j < i => j <= stack[i].saved
      BY <3>1 DEF SemInv, SavedChain
    <3>3. stack[i].saved # n
      BY <1>2, <3>1, <3>2
    <3>4. QED
      BY <1>4, <3>1, <3>2, <3>3
  <2>2. QED
    BY <2>1 DEF SavedChain
<1>8. SemTypeOK'
  BY <1>1, <1>2, <1>3, <1>4, <1>5 DEF SemInv, SemTypeOK, OnStack
<1>9. MethodAtBottom'
  <2>1. stack'[1] = stack[1]
    BY <1>2, <1>3
  <2>2. QED
    BY <1>1, <1>2, <1>3, <2>1 DEF SemInv, MethodAtBottom, n
<1>10. QED
  BY <1>6, <1>7, <1>8, <1>9 DEF SemInv

\* If the loops stay where they are, the visitors for break stay right.
LEMMA LoopsStay ==
    ASSUME SemInv, Loops' = Loops, onBreak' = onBreak,
           \A i \in Loops : stack'[i].saved = stack[i].saved
    PROVE  SavedChain' /\ BreakVisitorAlive'
  BY DEF SemInv, SavedChain, BreakVisitorAlive

LEMMA EnterIfKeeps == ASSUME SemInv, EnterIf PROVE SemInv'
<1> DEFINE n == Len(stack)
<1>1. /\ stack \in Seq(OnStack) /\ onBreak \in 0..n /\ onReturn = 1
      /\ stack' = Append(stack, [node |-> "THEN", saved |-> 0]) /\ stack # << >>
      /\ UNCHANGED <<onBreak, onReturn, dirty, broken>>
  BY DEF EnterIf, Visit, SemInv, SemTypeOK, OnStack, MethodAtBottom
<1>2. /\ stack' \in Seq(OnStack) /\ n \in Nat \ {0} /\ Len(stack') = n + 1
      /\ \A i \in 1..n : stack'[i] = stack[i]
      /\ stack'[n + 1] = [node |-> "THEN", saved |-> 0]
  <2>1. "THEN" \in Node /\ 0 \in Nat
    BY <1>1 DEF Node
  <2>2. QED
    BY <1>1, <2>1, VisitFacts
<1> HIDE DEF n
<1>3. Loops' = Loops
  BY <1>2 DEF Loops, n
<1>4. SavedChain' /\ BreakVisitorAlive'
  BY <1>1, <1>2, <1>3, LoopsStay DEF Loops, n
<1>5. SemTypeOK'
  BY <1>1, <1>2 DEF SemInv, SemTypeOK, OnStack, n
<1>6. MethodAtBottom'
  <2>1. ASSUME NEW i \in 2..(n + 1) PROVE stack'[i].node \notin Method
    <3>1. CASE i = n + 1
      <4>1. stack'[i] = [node |-> "THEN", saved |-> 0]
        BY <1>2, <3>1
      <4>2. stack'[i].node = "THEN"
        BY <4>1
      <4>3. QED
        BY <4>2 DEF Method
    <3>2. CASE i # n + 1
      <4>1. i \in 2..Len(stack) /\ stack'[i] = stack[i]
        BY <1>2, <3>2 DEF n
      <4>2. QED
        BY <4>1 DEF SemInv, MethodAtBottom
    <3>3. QED
      BY <3>1, <3>2
  <2>2. QED
    BY <1>1, <1>2, <2>1 DEF SemInv, MethodAtBottom
<1>7. QED
  BY <1>4, <1>5, <1>6 DEF SemInv

LEMMA EnterElseKeeps == ASSUME SemInv, EnterElse PROVE SemInv'
<1> DEFINE n == Len(stack)
<1>1. /\ stack \in Seq(OnStack) /\ stack # << >> /\ stack[n].node = "THEN"
      /\ stack' = [stack EXCEPT ![n].node = "ELSE"]
      /\ UNCHANGED <<onBreak, onReturn, dirty, broken>>
  BY DEF EnterElse, Current, SemInv, SemTypeOK, OnStack
<1>2. n \in Nat \ {0} /\ stack[n] \in OnStack
  BY <1>1
<1>3. /\ Len(stack') = n
      /\ \A i \in 1..n : i # n => stack'[i] = stack[i]
      /\ stack'[n] = [stack[n] EXCEPT !.node = "ELSE"]
  BY <1>1, <1>2
<1>4. /\ stack'[n].node = "ELSE" /\ stack'[n].saved = stack[n].saved
      /\ stack'[n] \in OnStack
  BY <1>2, <1>3 DEF OnStack, Node
<1>5. stack' \in Seq(OnStack)
  BY <1>1, <1>2, <1>4
<1> HIDE DEF n
<1>6. Loops' = Loops /\ \A i \in Loops : stack'[i].saved = stack[i].saved
  BY <1>1, <1>3, <1>4 DEF Loops, n
<1>7. SavedChain' /\ BreakVisitorAlive'
  BY <1>1, <1>6, LoopsStay
<1>8. SemTypeOK'
  BY <1>1, <1>3, <1>5 DEF SemInv, SemTypeOK, OnStack, n
<1>9. MethodAtBottom'
  <2>1. n # 1
    BY <1>1, <1>2 DEF SemInv, MethodAtBottom, Method, n
  <2>2. stack'[1] = stack[1] /\ stack' # << >>
    BY <1>2, <1>3, <2>1
  <2>3. ASSUME NEW i \in 2..n PROVE stack'[i].node \notin Method
    <3>1. CASE i = n
      BY <1>4, <3>1 DEF Method
    <3>2. CASE i # n
      <4>1. i \in 2..Len(stack) /\ stack'[i] = stack[i]
        BY <1>2, <1>3, <3>2 DEF n
      <4>2. QED
        BY <4>1 DEF SemInv, MethodAtBottom
    <3>3. QED
      BY <3>1, <3>2
  <2>4. QED
    BY <1>1, <1>3, <2>2, <2>3 DEF SemInv, MethodAtBottom
<1>10. QED
  BY <1>7, <1>8, <1>9 DEF SemInv

LEMMA LeaveIfKeeps == ASSUME SemInv, LeaveIf PROVE SemInv'
<1> DEFINE n == Len(stack)
<1>1. /\ stack \in Seq(OnStack) /\ stack # << >> /\ onBreak \in 0..n
      /\ Current.node \in {"THEN", "ELSE"} /\ stack' = Leave
      /\ UNCHANGED <<onBreak, onReturn, dirty, broken>>
  BY DEF LeaveIf, SemInv, SemTypeOK, OnStack
<1>2. /\ stack' \in Seq(OnStack) /\ n \in Nat \ {0} /\ Len(stack') = n - 1
      /\ \A i \in 1..(n - 1) : stack'[i] = stack[i]
      /\ Current = stack[n]
  BY <1>1, LeaveFacts
<1> HIDE DEF n
<1>3. n # 1 /\ onReturn = 1
  BY <1>1, <1>2 DEF SemInv, MethodAtBottom, Method, n
<1>4. Loops' = Loops /\ Loops \subseteq 1..(n - 1)
  BY <1>1, <1>2 DEF Loops, n
<1>5. SavedChain' /\ BreakVisitorAlive'
  BY <1>1, <1>2, <1>4, LoopsStay
<1>6. SemTypeOK'
  BY <1>1, <1>2, <1>3, <1>4 DEF SemInv, SemTypeOK, OnStack, BreakVisitorAlive
<1>7. MethodAtBottom'
  <2>1. stack'[1] = stack[1]
    BY <1>2, <1>3
  <2>2. QED
    BY <1>1, <1>2, <1>3, <2>1 DEF SemInv, MethodAtBottom, n
<1>8. QED
  BY <1>5, <1>6, <1>7 DEF SemInv

\* Breaks, returns and skipped methods exchange nothing, whatever a destroyed
\* visitor does.
LEMMA StatementKeeps ==
    ASSUME SemInv,
           \/ SkipMethod \/ VisitBreak
           \/ \E expr \in {"none", "compatible", "incompatible"} : VisitReturn(expr)
    PROVE  SemInv'
<1>1. UNCHANGED <<stack, onBreak, onReturn>>
  BY DEF SkipMethod, VisitBreak, VisitReturn
<1>2. dirty' \in BOOLEAN /\ broken' \in BOOLEAN
  <2>1. dirty \in BOOLEAN /\ broken \in BOOLEAN
    BY DEF SemInv, SemTypeOK
  <2>2. CASE SkipMethod \/ VisitBreak
    BY <2>1, <2>2 DEF SkipMethod, VisitBreak
  <2>3. ASSUME NEW expr \in {"none", "compatible", "incompatible"}, VisitReturn(expr)
        PROVE  dirty' \in BOOLEAN /\ broken' \in BOOLEAN
    BY <2>1, <2>3 DEF VisitReturn
  <2>4. QED
    BY <2>2, <2>3
<1>3. SemTypeOK'
  BY <1>1, <1>2 DEF SemInv, SemTypeOK
<1>4. MethodAtBottom' /\ SavedChain' /\ BreakVisitorAlive'
  BY <1>1 DEF SemInv, MethodAtBottom, SavedChain, BreakVisitorAlive, Loops
<1>5. QED
  BY <1>3, <1>4 DEF SemInv

LEMMA SemInvStep == SemInv /\ [SemNext]_semVars => SemInv'
<1> SUFFICES ASSUME SemInv, [SemNext]_semVars PROVE SemInv'
  OBVIOUS
<1>1. CASE UNCHANGED semVars
  BY <1>1 DEF semVars, SemInv, SemTypeOK, MethodAtBottom, SavedChain, BreakVisitorAlive, Loops
<1>2. CASE SemNext
  BY <1>2, MethodKeeps, EnterLoopKeeps, LeaveLoopKeeps, EnterIfKeeps, EnterElseKeeps,
     LeaveIfKeeps, StatementKeeps DEF SemNext
<1>3. QED
  BY <1>1, <1>2

\* What a break finds tells whether it is in a loop.
LEMMA BreakStep ==
    ASSUME SemInv, VisitBreak, ~dirty
    PROVE  dirty' <=> Loops = {}
<1>1. onBreak = 0 <=> Loops = {}
  <2>1. Loops \subseteq Nat \ {0}
    BY DEF Loops
  <2>2. QED
    BY <2>1 DEF SemInv, BreakVisitorAlive
<1>2. QED
  BY <1>1 DEF VisitBreak

-----------------------------------------------------------------------------
(* Theorems.                                                               *)

\* The inductive invariant of the walk.
THEOREM SemInvariant == SemSpec => []SemInv
<1>1. QED
  BY SemInvInit, SemInvStep, PTL DEF SemSpec

\* The visitor that is registered for break is that of the innermost open
\* loop, or of checkSemantics outside of loops: LoopVisitor never leaves a
\* pointer to its own dead local behind.
THEOREM BreakVisitorAliveInvariant == SemSpec => []BreakVisitorAlive
<1>1. SemInv => BreakVisitorAlive
  BY DEF SemInv
<1>2. QED
  BY <1>1, SemInvariant, PTL

-----------------------------------------------------------------------------
(* Each pass runs as it does alone.                                        *)

LEMMA CheckIsSem == \A e \in Event : CheckEvent(e) => [SemNext]_semVars
<1> SUFFICES ASSUME NEW e \in Event, CheckEvent(e) PROVE [SemNext]_semVars
  OBVIOUS
<1>1. CASE e \in {"fn void", "fn value", "while", "if", "else", "end"}
  BY <1>1 DEF CheckEvent, SemNext
<1>2. CASE e \in {"simple", "break", "fn unknown"}
  BY <1>2 DEF CheckEvent, SemNext
<1>3. CASE e \in {"return none", "return compatible", "return incompatible"}
  BY <1>3 DEF CheckEvent, SemNext
<1>4. QED
  BY <1>1, <1>2, <1>3 DEF Event, Opening

LEMMA GenerateIsNext == \A e \in Event : GenerateEvent(e) => Next
<1> SUFFICES ASSUME NEW e \in Event, GenerateEvent(e) PROVE Next
  OBVIOUS
<1>1. CASE e \in {"fn void", "fn value", "while", "if", "else", "end"}
  BY <1>1 DEF GenerateEvent, Next
<1>2. CASE e \in {"simple", "break", "return none", "return compatible",
                  "return incompatible", "fn unknown"}
  BY <1>2 DEF GenerateEvent, Next
<1>3. QED
  BY <1>1, <1>2 DEF Event, Opening

\* The program is one of the grammar, and the positions are in it.
AstOK ==
    /\ ast \in Seq(Event)
    /\ pos \in 1..(Len(ast) + 1)
    /\ phase \in {"check", "generate", "done", "rejected", "undefined"}
    /\ phase = "check" => pos = 1
    /\ phase \in {"generate", "done"} => ~dirty
    /\ phase # "undefined" => ~broken

LEMMA PassSteps ==
    AstOK /\ [PipeNext]_pipeVars => [SemNext]_semVars /\ [Next]_vars
<1> SUFFICES ASSUME AstOK, [PipeNext]_pipeVars
             PROVE  [SemNext]_semVars /\ [Next]_vars
  OBVIOUS
<1>1. CASE Check
  BY <1>1, CheckIsSem DEF Check
<1>2. CASE Generate
  <2>1. ast[pos] \in Event
    BY <1>2 DEF Generate, AstOK
  <2>2. Next
    BY <1>2, <2>1, GenerateIsNext DEF Generate
  <2>3. QED
    BY <1>2, <2>2 DEF Generate
<1>3. CASE EndCheck \/ EndGenerate \/ Stopped \/ UNCHANGED pipeVars
  BY <1>3 DEF EndCheck, EndGenerate, Stopped, pipeVars
<1>4. QED
  BY <1>1, <1>2, <1>3 DEF PipeNext

-----------------------------------------------------------------------------
(* The nesting of the source, which both passes follow.                    *)

Kind == {"void", "value", "while", "then", "else"}

\* What is open after an event, given what was open before it.
Follows(s, e, t) ==
    /\ e = "fn void" => s = << >> /\ t = <<"void">>
    /\ e = "fn value" => s = << >> /\ t = <<"value">>
    /\ e = "fn unknown" => s = << >>
    /\ e \notin {"fn void", "fn value", "fn unknown"} => s # << >>
    /\ e = "while" => t = Append(s, "while")
    /\ e = "if" => t = Append(s, "then")
    /\ e = "else" => s[Len(s)] = "then" /\ t = [s EXCEPT ![Len(s)] = "else"]
    /\ e = "end" => t = Pop(s)
    /\ e \notin Opening \cup {"else", "end"} => t = s

\* nest[k] is what is open before the k-th event.
Nesting(nest) ==
    /\ nest \in [1..(Len(ast) + 1) -> Seq(Kind)]
    /\ nest[1] = << >>
    /\ \A k \in 1..Len(ast) : Follows(nest[k], ast[k], nest[k + 1])

\* Breaks are in loops, or the pass is dirty.
BreaksInLoops(nest) ==
    \A k \in 1..Len(ast) :
        ast[k] = "break" => dirty \/ \E i \in 1..Len(nest[k]) : nest[k][i] = "while"

\* A return without expression is in a method without value, one with an
\* expression has the type of its method, or the pass is dirty or undefined.
ReturnsFit(nest) ==
    \A k \in 1..Len(ast) :
        /\ ast[k] = "return none" => dirty \/ broken \/ nest[k][1] # "value"
        /\ ast[k] = "return incompatible" => dirty \/ broken

KindOf == [node \in Node |-> IF node = "WHILE" THEN "while"
                             ELSE IF node = "THEN" THEN "then"
                             ELSE IF node = "ELSE" THEN "else"
                             ELSE IF node = "DEFFN void" THEN "void" ELSE "value"]

\* The walker's stack is what is open ...
StackShape(s) ==
    Len(s) = Len(stack) /\ \A i \in 1..Len(s) : s[i] = KindOf[stack[i].node]

\* ... and so are the waiting visitors of the generator.
FrameShape(s) ==
    /\ fn = "none" => s = << >> /\ frames = << >>
    /\ fn # "none" => /\ Len(s) = Len(frames) + 1 /\ s[1] = fn
                      /\ \A i \in 1..Len(frames) : s[i + 1] = frames[i].kind


-----------------------------------------------------------------------------
(* Where what is open was opened: Depth and Around, event by event.        *)

EventOf == [kind \in Kind |-> IF kind = "void" THEN "fn void"
                              ELSE IF kind = "value" THEN "fn value"
                              ELSE IF kind = "while" THEN "while" ELSE "if"]

\* The two of any program, to speak of the next one.
DepthOf(a, k) == Cardinality({i \in 1..(k - 1) : a[i] \in Opening})
                 - Cardinality({i \in 1..(k - 1) : a[i] = "end"})
AroundOf(a, k) == {i \in 1..(k - 1) : a[i] \in Opening
                     /\ \A j \in (i + 1)..k : DepthOf(a, j) > DepthOf(a, i)}

\* o lists the events that opened what is open before the k-th, outermost first.
OpenedAt(a, o, k, s) ==
    /\ o \in Seq(1..(k - 1)) /\ Len(o) = Len(s)
    /\ DepthOf(a, k) = Len(s)
    /\ AroundOf(a, k) = {o[m] : m \in 1..Len(s)}
    /\ \A m \in 1..Len(s) : DepthOf(a, o[m]) = m - 1 /\ a[o[m]] = EventOf[s[m]]

Located(a, k, s) == \E o : OpenedAt(a, o, k, s)

LEMMA CountsFinite ==
    ASSUME NEW a, NEW k \in Nat, NEW S
    PROVE  LET A == {i \in 1..(k - 1) : a[i] \in S}
           IN  IsFiniteSet(A) /\ Cardinality(A) \in Nat
<1>1. {i \in 1..(k - 1) : a[i] \in S} \in SUBSET (1..(k - 1))
  OBVIOUS
<1>2. IsFiniteSet(1..(k - 1))
  BY FS_Interval
<1>3. QED
  BY <1>1, <1>2, FS_Subset, FS_CardinalityType

\* One event changes the depth by one at most.
LEMMA DepthStep ==
    ASSUME NEW a, NEW k \in Nat \ {0}
    PROVE  /\ DepthOf(a, k) \in Int
           /\ DepthOf(a, k + 1) = DepthOf(a, k) + (IF a[k] \in Opening THEN 1
                                        ELSE IF a[k] = "end" THEN -1 ELSE 0)
<1> DEFINE A(j) == {i \in 1..(j - 1) : a[i] \in Opening}
           E(j) == {i \in 1..(j - 1) : a[i] = "end"}
<1>1. /\ IsFiniteSet(A(k)) /\ Cardinality(A(k)) \in Nat
      /\ IsFiniteSet(E(k)) /\ Cardinality(E(k)) \in Nat
  <2>1. E(k) = {i \in 1..(k - 1) : a[i] \in {"end"}}
    OBVIOUS
  <2>2. IsFiniteSet(A(k)) /\ Cardinality(A(k)) \in Nat
    BY CountsFinite
  <2>3. LET B == {i \in 1..(k - 1) : a[i] \in {"end"}}
        IN  IsFiniteSet(B) /\ Cardinality(B) \in Nat
    BY CountsFinite
  <2>4. QED
    BY <2>1, <2>2, <2>3
<1>2. /\ A(k + 1) = IF a[k] \in Opening THEN A(k) \cup {k} ELSE A(k)
      /\ E(k + 1) = IF a[k] = "end" THEN E(k) \cup {k} ELSE E(k)
  <2>1. 1..(k + 1 - 1) = 1..(k - 1) \cup {k}
    OBVIOUS
  <2>2. QED
    BY <2>1
<1>3. k \notin A(k) /\ k \notin E(k)
  OBVIOUS
<1>4. /\ DepthOf(a, k) = Cardinality(A(k)) - Cardinality(E(k))
      /\ DepthOf(a, k + 1) = Cardinality(A(k + 1)) - Cardinality(E(k + 1))
  BY DEF DepthOf
<1> HIDE DEF A, E
<1>5. /\ Cardinality(A(k) \cup {k}) = Cardinality(A(k)) + 1
      /\ Cardinality(E(k) \cup {k}) = Cardinality(E(k)) + 1
  BY <1>1, <1>3, FS_AddElement
<1>6. "end" \notin Opening
  BY DEF Opening
<1>7. DepthOf(a, k) \in Int
  BY <1>1, <1>4
<1>8. CASE a[k] \in Opening
  <2>1. A(k + 1) = A(k) \cup {k} /\ E(k + 1) = E(k)
    BY <1>2, <1>6, <1>8
  <2>2. /\ Cardinality(A(k + 1)) = Cardinality(A(k)) + 1
        /\ Cardinality(E(k + 1)) = Cardinality(E(k))
    BY <1>5, <2>1, Zenon
  <2>3. DepthOf(a, k + 1) = DepthOf(a, k) + 1
    BY <1>1, <1>4, <2>2
  <2>4. QED
    BY <1>7, <1>8, <2>3
<1>9. CASE a[k] = "end"
  <2>1. A(k + 1) = A(k) /\ E(k + 1) = E(k) \cup {k}
    BY <1>2, <1>6, <1>9
  <2>2. /\ Cardinality(A(k + 1)) = Cardinality(A(k))
        /\ Cardinality(E(k + 1)) = Cardinality(E(k)) + 1
    BY <1>5, <2>1, Zenon
  <2>3. DepthOf(a, k + 1) = DepthOf(a, k) - 1
    BY <1>1, <1>4, <2>2
  <2>4. QED
    BY <1>6, <1>7, <1>9, <2>3
<1>10. CASE a[k] \notin Opening /\ a[k] # "end"
  <2>1. A(k + 1) = A(k) /\ E(k + 1) = E(k)
    BY <1>2, <1>10
  <2>2. QED
    BY <1>1, <1>4, <1>7, <1>10, <2>1
<1>11. QED
  BY <1>8, <1>9, <1>10

LEMMA DepthOfFirst == \A a : DepthOf(a, 1) = 0 /\ AroundOf(a, 1) = {}
<1>1. 1..(1 - 1) = {}
  OBVIOUS
<1>2. QED
  BY <1>1, FS_EmptySet DEF DepthOf, AroundOf

\* What is around the next event.
LEMMA AroundStep ==
    ASSUME NEW a, NEW k \in Nat \ {0}
    PROVE  \A i : i \in AroundOf(a, k + 1) <=>
                \/ i \in AroundOf(a, k) /\ DepthOf(a, k + 1) > DepthOf(a, i)
                \/ i = k /\ a[k] \in Opening /\ DepthOf(a, k + 1) > DepthOf(a, k)
<1> SUFFICES ASSUME NEW i
             PROVE  i \in AroundOf(a, k + 1) <=>
                      \/ i \in AroundOf(a, k) /\ DepthOf(a, k + 1) > DepthOf(a, i)
                      \/ i = k /\ a[k] \in Opening /\ DepthOf(a, k + 1) > DepthOf(a, k)
  OBVIOUS
<1>1. i \in AroundOf(a, k + 1) <=> /\ i \in 1..k /\ a[i] \in Opening
                              /\ \A j \in (i + 1)..(k + 1) : DepthOf(a, j) > DepthOf(a, i)
  BY DEF AroundOf
<1>2. i \in AroundOf(a, k) <=> /\ i \in 1..(k - 1) /\ a[i] \in Opening
                          /\ \A j \in (i + 1)..k : DepthOf(a, j) > DepthOf(a, i)
  BY DEF AroundOf
<1>3. CASE i = k
  <2>1. (i + 1)..(k + 1) = {k + 1}
    BY <1>3
  <2>2. QED
    BY <1>1, <1>2, <1>3, <2>1
<1>4. CASE i \in 1..(k - 1)
  <2>1. (i + 1)..(k + 1) = ((i + 1)..k) \cup {k + 1}
    BY <1>4
  <2>2. QED
    BY <1>1, <1>2, <1>4, <2>1
<1>5. CASE i \notin 1..k
  BY <1>1, <1>2, <1>5
<1>6. QED
  BY <1>3, <1>4, <1>5

\* What is open before an event and after it, by what the event is.
LEMMA FollowsOpening ==
    ASSUME NEW e \in Opening, NEW s \in Seq(Kind), NEW t \in Seq(Kind), Follows(s, e, t)
    PROVE  /\ Len(t) = Len(s) + 1 /\ EventOf[t[Len(s) + 1]] = e
           /\ \A m \in 1..Len(s) : t[m] = s[m]
<1>1. CASE e \in {"fn void", "fn value"}
  <2>1. PICK kind \in Kind : s = << >> /\ t = <<kind>> /\ EventOf[kind] = e
    <3>1. CASE e = "fn void"
      BY <3>1 DEF Follows, EventOf, Kind
    <3>2. CASE e = "fn value"
      BY <3>2 DEF Follows, EventOf, Kind
    <3>3. QED
      BY <1>1, <3>1, <3>2
  <2>2. Len(s) = 0 /\ Len(t) = 1 /\ t[1] = kind
    BY <2>1
  <2>3. QED
    BY <2>1, <2>2
<1>2. CASE e \in {"while", "if"}
  <2>1. PICK kind \in Kind : t = Append(s, kind) /\ EventOf[kind] = e
    BY <1>2 DEF Follows, EventOf, Kind
  <2>2. QED
    BY <2>1
<1>3. QED
  BY <1>1, <1>2 DEF Opening

\* What is open after an event was opened where it is open, by the event or before.
LEMMA LocatedStep ==
    ASSUME NEW a \in Seq(Event), NEW k \in 1..Len(a),
           NEW s \in Seq(Kind), NEW t \in Seq(Kind), Follows(s, a[k], t), Located(a, k, s)
    PROVE  Located(a, k + 1, t)
<1> DEFINE n == Len(s)
<1>1. PICK o : OpenedAt(a, o, k, s)
  BY DEF Located
<1>2. /\ k \in Nat \ {0} /\ n \in Nat /\ a[k] \in Event
      /\ o \in Seq(1..(k - 1)) /\ Len(o) = n /\ DepthOf(a, k) = n
      /\ \A i : i \in AroundOf(a, k) <=> \E m \in 1..n : i = o[m]
      /\ \A m \in 1..n : DepthOf(a, o[m]) = m - 1 /\ a[o[m]] = EventOf[s[m]]
  BY <1>1 DEF OpenedAt
<1>3. /\ DepthOf(a, k + 1) = n + (IF a[k] \in Opening THEN 1
                             ELSE IF a[k] = "end" THEN -1 ELSE 0)
      /\ \A i : i \in AroundOf(a, k + 1) <=>
                \/ i \in AroundOf(a, k) /\ DepthOf(a, k + 1) > DepthOf(a, i)
                \/ i = k /\ a[k] \in Opening /\ DepthOf(a, k + 1) > DepthOf(a, k)
  <2>1. DepthOf(a, k + 1) = DepthOf(a, k) + (IF a[k] \in Opening THEN 1
                                             ELSE IF a[k] = "end" THEN -1 ELSE 0)
    BY <1>2, DepthStep
  <2>2. QED
    BY <1>2, <2>1, AroundStep
<1> HIDE DEF n
<1>4. CASE a[k] \in Opening
  <2> DEFINE p == Append(o, k)
  <2>1. /\ p \in Seq(1..k) /\ Len(p) = n + 1 /\ p[n + 1] = k
        /\ \A m \in 1..n : p[m] = o[m]
    <3>1. o \in Seq(1..k)
      BY <1>2
    <3>2. QED
      BY <1>2, <3>1
  <2> HIDE DEF p
  <2>2. /\ Len(t) = n + 1 /\ EventOf[t[n + 1]] = a[k]
        /\ \A m \in 1..n : t[m] = s[m]
    BY <1>4, FollowsOpening DEF n
  <2>3. DepthOf(a, k + 1) = n + 1
    BY <1>3, <1>4
  <2>4. AroundOf(a, k + 1) = {p[m] : m \in 1..(n + 1)}
    <3>1. \A i \in AroundOf(a, k) : DepthOf(a, k + 1) > DepthOf(a, i)
      BY <1>2, <2>3
    <3>2. DepthOf(a, k + 1) > DepthOf(a, k)
      BY <1>2, <2>3
    <3>3. \A i : i \in AroundOf(a, k + 1) <=> i \in AroundOf(a, k) \/ i = k
      BY <1>3, <1>4, <3>1, <3>2
    <3>4. \A i : i \in AroundOf(a, k) <=> \E m \in 1..n : i = p[m]
      BY <1>2, <2>1
    <3>5. \A i : i \in AroundOf(a, k + 1) <=> (\E m \in 1..n : i = p[m]) \/ i = p[n + 1]
      BY <2>1, <3>3, <3>4
    <3>6. 1..(n + 1) = 1..n \cup {n + 1}
      BY <1>2
    <3>7. \A i : i \in AroundOf(a, k + 1) <=> \E m \in 1..(n + 1) : i = p[m]
      BY <3>5, <3>6
    <3>8. QED
      BY <3>7
  <2>5. ASSUME NEW m \in 1..(n + 1)
        PROVE  DepthOf(a, p[m]) = m - 1 /\ a[p[m]] = EventOf[t[m]]
    <3>1. CASE m = n + 1
      BY <1>2, <2>1, <2>2, <3>1
    <3>2. CASE m # n + 1
      <4>1. m \in 1..n
        BY <1>2, <3>2
      <4>2. QED
        BY <1>2, <2>1, <2>2, <4>1
    <3>3. QED
      BY <3>1, <3>2
  <2>6. OpenedAt(a, p, k + 1, t)
    <3>1. k + 1 - 1 = k
      BY <1>2
    <3>2. QED
      BY <2>1, <2>2, <2>3, <2>4, <2>5, <3>1 DEF OpenedAt
  <2>7. QED
    BY <2>6 DEF Located
<1>5. CASE a[k] = "end"
  <2>1. t = Pop(s) /\ s # << >>
    BY <1>5 DEF Follows, Opening
  <2>2. n \in Nat \ {0} /\ Len(t) = n - 1 /\ \A m \in 1..(n - 1) : t[m] = s[m]
    BY <2>1, PopFacts DEF n
  <2> DEFINE p == Pop(o)
  <2>3. p \in Seq(1..k) /\ Len(p) = n - 1 /\ \A m \in 1..(n - 1) : p[m] = o[m]
    <3>1. o # << >>
      BY <1>2, <2>2, EmptySeq
    <3>2. o \in Seq(1..k)
      BY <1>2
    <3>3. QED
      BY <1>2, <3>1, <3>2, PopFacts
  <2> HIDE DEF p
  <2>4. DepthOf(a, k + 1) = n - 1
    <3>1. a[k] \notin Opening
      BY <1>5 DEF Opening
    <3>2. QED
      BY <1>2, <1>3, <1>5, <3>1
  <2>5. AroundOf(a, k + 1) = {p[m] : m \in 1..(n - 1)}
    <3>1. \A i : i \in AroundOf(a, k + 1) <=> i \in AroundOf(a, k) /\ DepthOf(a, k + 1) > DepthOf(a, i)
      BY <1>3, <1>5 DEF Opening
    <3>2. \A m \in 1..n : DepthOf(a, k + 1) > DepthOf(a, o[m]) <=> m \in 1..(n - 1)
      BY <1>2, <2>2, <2>4
    <3>3. \A i : i \in AroundOf(a, k + 1) <=> \E m \in 1..n : i = o[m] /\ DepthOf(a, k + 1) > DepthOf(a, o[m])
      BY <1>2, <3>1
    <3>4. 1..(n - 1) \subseteq 1..n
      BY <2>2
    <3>5. \A i : i \in AroundOf(a, k + 1) <=> \E m \in 1..(n - 1) : i = o[m]
      BY <3>2, <3>3, <3>4
    <3>6. \A i : i \in AroundOf(a, k + 1) <=> \E m \in 1..(n - 1) : i = p[m]
      BY <2>3, <3>5
    <3>7. QED
      BY <3>6
  <2>6. ASSUME NEW m \in 1..(n - 1)
        PROVE  DepthOf(a, p[m]) = m - 1 /\ a[p[m]] = EventOf[t[m]]
    <3>1. m \in 1..n /\ p[m] = o[m] /\ t[m] = s[m]
      BY <2>2, <2>3
    <3>2. QED
      BY <1>2, <3>1
  <2>7. OpenedAt(a, p, k + 1, t)
    <3>1. k + 1 - 1 = k
      BY <1>2
    <3>2. QED
      BY <2>2, <2>3, <2>4, <2>5, <2>6, <3>1 DEF OpenedAt
  <2>8. QED
    BY <2>7 DEF Located
<1>6. CASE a[k] \notin Opening \cup {"end"}
  <2>1. Len(t) = n /\ \A m \in 1..n : EventOf[t[m]] = EventOf[s[m]]
    <3>1. CASE a[k] = "else"
      <4>1. s # << >> /\ s[n] = "then" /\ t = [s EXCEPT ![n] = "else"]
        BY <3>1 DEF Follows, n
      <4>2. EventOf["then"] = EventOf["else"]
        BY DEF EventOf, Kind
      <4>3. QED
        BY <1>2, <4>1, <4>2 DEF n
    <3>2. CASE a[k] # "else"
      <4>1. t = s
        BY <1>6, <3>2 DEF Follows
      <4>2. QED
        BY <4>1 DEF n
    <3>3. QED
      BY <3>1, <3>2
  <2>2. DepthOf(a, k + 1) = n
    BY <1>2, <1>3, <1>6
  <2>3. AroundOf(a, k + 1) = AroundOf(a, k)
    <3>1. \A i \in AroundOf(a, k) : DepthOf(a, k + 1) > DepthOf(a, i)
      BY <1>2, <2>2
    <3>2. QED
      BY <1>3, <1>6, <3>1
  <2>4. o \in Seq(1..k)
    BY <1>2
  <2>5. OpenedAt(a, o, k + 1, t)
    <3>1. k + 1 - 1 = k
      BY <1>2
    <3>2. AroundOf(a, k + 1) = {o[m] : m \in 1..n}
      BY <1>2, <2>3
    <3>3. QED
      BY <1>2, <2>1, <2>2, <2>4, <3>1, <3>2 DEF OpenedAt
  <2>6. QED
    BY <2>5 DEF Located
<1>7. QED
  BY <1>4, <1>5, <1>6

LEMMA DepthIsOf ==
    /\ \A k : Depth(k) = DepthOf(ast, k)
    /\ \A k : Around(k) = AroundOf(ast, k)
  BY DEF Depth, DepthOf, Around, AroundOf

\* Reading one more event changes nothing about those before.
LEMMA LocatedStays ==
    ASSUME NEW a \in Seq(Event), NEW e, NEW k \in 1..(Len(a) + 1), NEW s, Located(a, k, s)
    PROVE  Located(Append(a, e), k, s)
<1> DEFINE b == Append(a, e)
<1>1. \A i \in 1..(k - 1) : b[i] = a[i]
  OBVIOUS
<1> HIDE DEF b
<1>2. ASSUME NEW j \in 1..k PROVE DepthOf(b, j) = DepthOf(a, j)
  <2>1. \A i \in 1..(j - 1) : b[i] = a[i]
    BY <1>1
  <2>2. /\ {i \in 1..(j - 1) : b[i] \in Opening} = {i \in 1..(j - 1) : a[i] \in Opening}
        /\ {i \in 1..(j - 1) : b[i] = "end"} = {i \in 1..(j - 1) : a[i] = "end"}
    BY <2>1
  <2>3. QED
    BY <2>2 DEF DepthOf
<1>3. AroundOf(b, k) = AroundOf(a, k)
  <2>1. \A j \in 1..k : DepthOf(b, j) = DepthOf(a, j)
    BY <1>2
  <2>2. \A i \in 1..(k - 1) : (i + 1)..k \subseteq 1..k /\ i \in 1..k
    OBVIOUS
  <2>3. \A i \in 1..(k - 1) :
          (\A j \in (i + 1)..k : DepthOf(b, j) > DepthOf(b, i))
            <=> (\A j \in (i + 1)..k : DepthOf(a, j) > DepthOf(a, i))
    BY <2>1, <2>2, Zenon
  <2>4. QED
    BY <1>1, <2>3, Zenon DEF AroundOf
<1>4. PICK o : OpenedAt(a, o, k, s)
  BY DEF Located
<1>5. \A m \in 1..Len(s) : o[m] \in 1..(k - 1) /\ o[m] \in 1..k
  BY <1>4 DEF OpenedAt
<1>6. k \in 1..k
  OBVIOUS
<1>7. \A m \in 1..Len(s) : b[o[m]] = a[o[m]] /\ DepthOf(b, o[m]) = DepthOf(a, o[m])
  BY <1>1, <1>2, <1>5
<1>8. DepthOf(b, k) = DepthOf(a, k)
  BY <1>2, <1>6
<1>9. OpenedAt(b, o, k, s)
  BY <1>3, <1>4, <1>7, <1>8 DEF OpenedAt
<1>10. QED
  BY <1>9 DEF Located, b

BothFollow ==
    \E nest : /\ Nesting(nest) /\ BreaksInLoops(nest) /\ ReturnsFit(nest)
              /\ \A k \in 1..(Len(ast) + 1) : Located(ast, k, nest[k])
              /\ StackShape(nest[Len(ast) + 1]) /\ FrameShape(nest[pos])

PipeInv == SemInv /\ Inv /\ AstOK /\ BothFollow

-----------------------------------------------------------------------------
(* The first pass.                                                         *)

LEMMA ShapeOfEmpty ==
    ASSUME NEW S, NEW s \in Seq(S)
    PROVE  s = << >> <=> Len(s) = 0
  BY EmptySeq

LEMMA KindFacts ==
    /\ \A node \in Node : KindOf[node] \in Kind
    /\ \A node \in Node : KindOf[node] = "while" <=> node = "WHILE"
    /\ KindOf["DEFFN void"] = "void" /\ KindOf["DEFFN value"] = "value"
    /\ KindOf["WHILE"] = "while" /\ KindOf["THEN"] = "then" /\ KindOf["ELSE"] = "else"
  BY DEF KindOf, Node, Kind

\* A node that is opened.
LEMMA ShapeOfVisit ==
    ASSUME stack \in Seq(OnStack), NEW s \in Seq(Kind), StackShape(s),
           NEW node \in Node, NEW saved \in Nat,
           stack' = Append(stack, [node |-> node, saved |-> saved])
    PROVE  /\ Append(s, KindOf[node]) \in Seq(Kind)
           /\ StackShape(Append(s, KindOf[node]))'
<1> DEFINE t == Append(s, KindOf[node])
<1>1. /\ Len(stack) \in Nat /\ Len(stack') = Len(stack) + 1
      /\ \A i \in 1..Len(stack) : stack'[i] = stack[i]
      /\ stack'[Len(stack) + 1] = [node |-> node, saved |-> saved]
  BY VisitFacts
<1>2. KindOf[node] \in Kind
  BY KindFacts
<1>3. /\ t \in Seq(Kind) /\ Len(t) = Len(s) + 1 /\ t[Len(s) + 1] = KindOf[node]
      /\ \A i \in 1..Len(s) : t[i] = s[i]
  BY <1>2
<1> HIDE DEF t
<1>4. Len(s) = Len(stack) /\ \A i \in 1..Len(s) : s[i] = KindOf[stack[i].node]
  BY DEF StackShape
<1>5. ASSUME NEW i \in 1..Len(t) PROVE t[i] = KindOf[stack'[i].node]
  <2>1. CASE i = Len(s) + 1
    <3>1. stack'[i].node = node
      BY <1>1, <1>4, <2>1
    <3>2. QED
      BY <1>3, <2>1, <3>1
  <2>2. CASE i # Len(s) + 1
    <3>1. i \in 1..Len(s)
      BY <1>1, <1>3, <1>4, <2>2
    <3>2. QED
      BY <1>1, <1>3, <1>4, <3>1
  <2>3. QED
    BY <2>1, <2>2
<1>6. StackShape(t)'
  BY <1>1, <1>3, <1>4, <1>5 DEF StackShape
<1>7. QED
  BY <1>3, <1>6 DEF t

\* A node that is left.
LEMMA ShapeOfLeave ==
    ASSUME stack \in Seq(OnStack), stack # << >>, NEW s \in Seq(Kind), StackShape(s),
           stack' = Leave
    PROVE  s # << >> /\ Pop(s) \in Seq(Kind) /\ StackShape(Pop(s))'
<1>1. /\ Len(stack) \in Nat \ {0} /\ Len(stack') = Len(stack) - 1
      /\ \A i \in 1..Len(stack') : stack'[i] = stack[i]
  BY LeaveFacts
<1>2. Len(s) = Len(stack) /\ \A i \in 1..Len(s) : s[i] = KindOf[stack[i].node]
  BY DEF StackShape
<1>3. s # << >>
  BY <1>1, <1>2, ShapeOfEmpty
<1>4. /\ Pop(s) \in Seq(Kind) /\ Len(Pop(s)) = Len(s) - 1
      /\ \A i \in 1..(Len(s) - 1) : Pop(s)[i] = s[i]
  BY <1>3, PopFacts
<1>5. StackShape(Pop(s))'
  BY <1>1, <1>2, <1>4 DEF StackShape
<1>6. QED
  BY <1>3, <1>4, <1>5

\* Whatever the first pass does with an event, its stack follows the source.
LEMMA CheckFollows ==
    ASSUME SemInv, NEW e \in Event, CheckEvent(e), NEW s \in Seq(Kind), StackShape(s)
    PROVE  \E t \in Seq(Kind) : Follows(s, e, t) /\ StackShape(t)'
<1>1. /\ stack \in Seq(OnStack) /\ onBreak \in Nat /\ onReturn \in Nat
      /\ Len(s) = Len(stack)
  <2>1. stack \in Seq(OnStack) /\ onBreak \in 0..Len(stack) /\ onReturn \in 0..Len(stack)
    BY DEF SemInv, SemTypeOK, OnStack
  <2>2. Len(stack) \in Nat
    BY <2>1
  <2>3. QED
    BY <2>1, <2>2 DEF StackShape
<1>2. s = << >> <=> stack = << >>
  BY <1>1, ShapeOfEmpty
<1>3. CASE e \in {"fn void", "fn value"}
  <2>1. PICK node \in Method :
          /\ stack = << >> /\ stack' = Append(stack, [node |-> node, saved |-> onReturn])
          /\ e = "fn void" <=> node = "DEFFN void"
    BY <1>3 DEF CheckEvent, EnterMethod, Visit, Method
  <2>2. node \in Node
    BY DEF Method, Node
  <2>3. StackShape(Append(s, KindOf[node]))' /\ Append(s, KindOf[node]) \in Seq(Kind)
    BY <1>1, <2>1, <2>2, ShapeOfVisit
  <2>4. s = << >> /\ (e = "fn void" => KindOf[node] = "void")
        /\ (e = "fn value" => KindOf[node] = "value")
    BY <1>2, <2>1, KindFacts DEF Method
  <2>5. Append(s, KindOf[node]) = <<KindOf[node]>>
    <3>1. \A kind : Append(<< >>, kind) = <<kind>>
      OBVIOUS
    <3>2. QED
      BY <2>4, <3>1
  <2>6. Follows(s, e, <<KindOf[node]>>)
    BY <1>3, <2>4 DEF Follows, Opening
  <2>7. QED
    BY <2>3, <2>5, <2>6
<1>4. CASE e = "while"
  <2>1. /\ stack # << >>
        /\ stack' = Append(stack, [node |-> "WHILE", saved |-> onBreak])
    <3>1. EnterLoop
      BY <1>4 DEF CheckEvent
    <3>2. stack # << >>
      BY <1>1, <3>1, EmptyStack DEF EnterLoop
    <3>3. QED
      BY <3>1, <3>2 DEF EnterLoop, Visit
  <2>2. "WHILE" \in Node /\ KindOf["WHILE"] = "while"
    BY KindFacts DEF Node
  <2>3. StackShape(Append(s, "while"))' /\ Append(s, "while") \in Seq(Kind)
    BY <1>1, <2>1, <2>2, ShapeOfVisit
  <2>4. Follows(s, e, Append(s, "while"))
    BY <1>2, <1>4, <2>1 DEF Follows, Opening
  <2>5. QED
    BY <2>3, <2>4
<1>5. CASE e = "if"
  <2>1. stack # << >> /\ stack' = Append(stack, [node |-> "THEN", saved |-> 0])
    <3>1. EnterIf
      BY <1>5 DEF CheckEvent
    <3>2. stack # << >>
      BY <1>1, <3>1, EmptyStack DEF EnterIf
    <3>3. QED
      BY <3>1, <3>2 DEF EnterIf, Visit
  <2>2. "THEN" \in Node /\ KindOf["THEN"] = "then" /\ 0 \in Nat
    BY KindFacts DEF Node
  <2>3. StackShape(Append(s, "then"))' /\ Append(s, "then") \in Seq(Kind)
    BY <1>1, <2>1, <2>2, ShapeOfVisit
  <2>4. Follows(s, e, Append(s, "then"))
    BY <1>2, <1>5, <2>1 DEF Follows, Opening
  <2>5. QED
    BY <2>3, <2>4
<1>6. CASE e = "else"
  <2> DEFINE n == Len(stack)
             t == [s EXCEPT ![Len(s)] = "else"]
  <2>1. /\ stack # << >> /\ stack' = [stack EXCEPT ![n].node = "ELSE"]
        /\ stack[n].node = "THEN"
    BY <1>6 DEF CheckEvent, EnterElse, Current
  <2>2. n \in Nat \ {0} /\ Len(s) = n
    BY <1>1, <2>1
  <2>3. /\ t \in Seq(Kind) /\ Len(t) = n /\ t[n] = "else"
        /\ \A i \in 1..n : i # n => t[i] = s[i]
    BY <2>2 DEF Kind
  <2>4. stack[n] \in OnStack
    BY <1>1, <2>2
  <2>5. /\ Len(stack') = n /\ stack'[n].node = "ELSE"
        /\ \A i \in 1..n : i # n => stack'[i] = stack[i]
    BY <1>1, <2>1, <2>2, <2>4 DEF OnStack
  <2> HIDE DEF n, t
  <2>6. KindOf["ELSE"] = "else"
    BY KindFacts
  <2>7. StackShape(t)'
    BY <2>2, <2>3, <2>5, <2>6 DEF StackShape
  <2>8. Follows(s, e, t)
    <3>1. s[n] = KindOf[stack[n].node]
      BY <2>2 DEF StackShape
    <3>2. s[Len(s)] = "then"
      BY <2>1, <2>2, <3>1, KindFacts
    <3>3. QED
      BY <1>2, <1>6, <2>1, <3>2 DEF Follows, Opening, t
  <2>9. QED
    BY <2>3, <2>7, <2>8
<1>7. CASE e = "end"
  <2>1. stack # << >> /\ stack' = Leave
    <3>1. CASE LeaveMethod
      BY <1>1, <3>1, EmptyStack DEF LeaveMethod
    <3>2. CASE LeaveLoop \/ LeaveIf
      BY <3>2 DEF LeaveLoop, LoopLeft, LeaveIf
    <3>3. QED
      BY <1>7, <3>1, <3>2 DEF CheckEvent
  <2>2. s # << >> /\ Pop(s) \in Seq(Kind) /\ StackShape(Pop(s))'
    BY <1>1, <2>1, ShapeOfLeave
  <2>3. Follows(s, e, Pop(s))
    BY <1>7, <2>2 DEF Follows, Opening
  <2>4. QED
    BY <2>2, <2>3
<1>8. CASE e \notin Opening \cup {"else", "end"}
  <2>1. stack' = stack /\ (e = "fn unknown" <=> stack = << >>)
    <3>1. CASE e \in {"simple", "break"}
      BY <1>8, <3>1 DEF CheckEvent, semVars, VisitBreak
    <3>2. CASE e \in {"return none", "return compatible", "return incompatible"}
      BY <1>8, <3>2 DEF CheckEvent, VisitReturn
    <3>3. CASE e = "fn unknown"
      BY <3>3 DEF CheckEvent, SkipMethod
    <3>4. QED
      BY <1>8, <3>1, <3>2, <3>3 DEF Event
  <2>2. StackShape(s)'
    BY <2>1 DEF StackShape
  <2>3. Follows(s, e, s)
    BY <1>2, <1>8, <2>1 DEF Follows, Opening
  <2>4. QED
    BY <2>2, <2>3
<1>9. QED
  BY <1>3, <1>4, <1>5, <1>6, <1>7, <1>8 DEF Event, Opening

-----------------------------------------------------------------------------
(* The second pass.                                                        *)

LEMMA GenerateFollows ==
    ASSUME Inv, NEW e \in Event, GenerateEvent(e),
           NEW s \in Seq(Kind), NEW t \in Seq(Kind), Follows(s, e, t), FrameShape(s)
    PROVE  FrameShape(t)'
<1> DEFINE n == Len(frames)
<1>1. /\ frames \in Seq(Frame) /\ n \in Nat
      /\ fn = "none" => frames = << >> /\ s = << >>
      /\ fn \in {"none", "void", "value"}
  BY DEF Inv, TypeOK, FrameShape
<1>2. CASE e \in {"fn void", "fn value"}
  <2>1. /\ fn = "none" /\ fn' \in {"void", "value"} /\ frames' = frames
        /\ t = <<fn'>>
    BY <1>2 DEF GenerateEvent, BeginMethod, Follows
  <2>2. frames' = << >> /\ Len(frames') = 0 /\ Len(t) = 1 /\ t[1] = fn'
    BY <1>1, <2>1
  <2>3. QED
    BY <2>1, <2>2 DEF FrameShape
<1>3. CASE e \in {"while", "if"}
  <2>1. PICK f : /\ fn # "none" /\ fn' = fn /\ frames' = Append(frames, f)
                 /\ t = Append(s, f.kind)
    <3>1. CASE e = "while"
      <4>1. /\ fn # "none" /\ fn' = fn
            /\ frames' = Append(frames, [kind |-> "while", next |-> used + 1,
                                         merge |-> used + 3])
        BY <3>1 DEF GenerateEvent, BeginWhile, OpenWhile
      <4>2. t = Append(s, "while")
        BY <3>1 DEF Follows
      <4>3. QED
        BY <4>1, <4>2
    <3>2. CASE e = "if"
      <4>1. /\ fn # "none" /\ fn' = fn
            /\ frames' = Append(frames, [kind |-> "then", next |-> used + 2,
                                         merge |-> used + 3])
        BY <3>2 DEF GenerateEvent, BeginIf, OpenIf
      <4>2. t = Append(s, "then")
        BY <3>2 DEF Follows
      <4>3. QED
        BY <4>1, <4>2
    <3>3. QED
      BY <1>3, <3>1, <3>2
  <2>2. /\ Len(s) = n + 1 /\ \A i \in 1..n : s[i + 1] = frames[i].kind
        /\ s[1] = fn
    BY <2>1 DEF FrameShape
  <2>3. /\ Len(frames') = n + 1 /\ frames'[n + 1] = f
        /\ \A i \in 1..n : frames'[i] = frames[i]
    BY <1>1, <2>1
  <2>4. /\ Len(t) = n + 2 /\ t[n + 2] = f.kind
        /\ \A i \in 1..(n + 1) : t[i] = s[i]
    BY <1>1, <2>1, <2>2
  <2> HIDE DEF n
  <2>5. ASSUME NEW i \in 1..(n + 1) PROVE t[i + 1] = frames'[i].kind
    <3>1. CASE i = n + 1
      <4>1. i + 1 = n + 2
        BY <1>1, <3>1
      <4>2. QED
        BY <2>3, <2>4, <3>1, <4>1
    <3>2. CASE i # n + 1
      <4>1. i \in 1..n /\ i + 1 \in 1..(n + 1)
        BY <1>1, <3>2
      <4>2. QED
        BY <2>2, <2>3, <2>4, <4>1
    <3>3. QED
      BY <3>1, <3>2
  <2>6. t[1] = fn
    BY <1>1, <2>2, <2>4
  <2>7. QED
    BY <1>1, <2>1, <2>3, <2>4, <2>5, <2>6 DEF FrameShape
<1>4. CASE e = "else"
  <2>1. /\ frames # << >> /\ fn' = fn
        /\ frames' = [frames EXCEPT ![n] =
                        [kind |-> "else", next |-> 0, merge |-> frames[n].merge]]
        /\ t = [s EXCEPT ![Len(s)] = "else"]
    BY <1>4 DEF GenerateEvent, BeginElse, Follows
  <2>2. /\ Len(s) = n + 1 /\ \A i \in 1..n : s[i + 1] = frames[i].kind
        /\ n \in Nat \ {0} /\ fn # "none" /\ s[1] = fn
    BY <1>1, <2>1 DEF FrameShape
  <2>3. /\ Len(frames') = n /\ frames'[n].kind = "else"
        /\ \A i \in 1..n : i # n => frames'[i] = frames[i]
    BY <1>1, <2>1, <2>2
  <2>4. /\ Len(t) = n + 1 /\ t[n + 1] = "else"
        /\ \A i \in 1..n : t[i] = s[i]
    BY <2>1, <2>2
  <2> HIDE DEF n
  <2>5. ASSUME NEW i \in 1..n PROVE t[i + 1] = frames'[i].kind
    <3>1. CASE i = n
      BY <2>3, <2>4, <3>1
    <3>2. CASE i # n
      <4>1. i + 1 \in 1..n
        BY <2>2, <3>2
      <4>2. QED
        BY <2>2, <2>3, <2>4, <3>2, <4>1
    <3>3. QED
      BY <3>1, <3>2
  <2>6. t[1] = fn
    BY <2>2, <2>4
  <2>7. QED
    BY <2>1, <2>2, <2>3, <2>4, <2>5, <2>6 DEF FrameShape
<1>5. CASE e = "end"
  <2>1. t = Pop(s) /\ s # << >>
    BY <1>5 DEF Follows, Opening
  <2>2. /\ Len(t) = Len(s) - 1 /\ Len(s) \in Nat \ {0}
        /\ \A i \in 1..(Len(s) - 1) : t[i] = s[i]
    BY <2>1, PopFacts
  <2>3. fn # "none"
    BY <1>1, <2>1
  <2>4. /\ Len(s) = n + 1 /\ \A i \in 1..n : s[i + 1] = frames[i].kind
        /\ s[1] = fn
    BY <2>3 DEF FrameShape
  <2>5. CASE EndMethod
    <3>1. fn' = "none" /\ frames' = frames /\ frames = << >>
      BY <2>5 DEF EndMethod
    <3>2. Len(t) = 0
      BY <2>2, <2>4, <3>1
    <3>3. t = << >>
      BY <3>2, ShapeOfEmpty
    <3>4. QED
      BY <3>1, <3>3 DEF FrameShape
  <2>6. CASE EndWhile \/ EndIfWithoutElse \/ EndElse
    <3>1. frames # << >> /\ frames' = Pop(frames) /\ fn' = fn
      BY <2>6 DEF EndWhile, CloseWhile, EndIfWithoutElse, EndElse, CloseIf
    <3>2. /\ n \in Nat \ {0} /\ Len(frames') = n - 1
          /\ \A i \in 1..(n - 1) : frames'[i] = frames[i]
      BY <1>1, <3>1, PopFacts
    <3> HIDE DEF n
    <3>3. ASSUME NEW i \in 1..(n - 1) PROVE t[i + 1] = frames'[i].kind
      <4>1. i \in 1..n /\ i + 1 \in 1..(Len(s) - 1)
        BY <2>4, <3>2
      <4>2. QED
        BY <2>2, <2>4, <3>2, <4>1
    <3>4. t[1] = fn
      BY <2>2, <2>4, <3>2
    <3>5. QED
      BY <2>2, <2>3, <2>4, <3>1, <3>2, <3>3, <3>4 DEF FrameShape
  <2>7. QED
    BY <1>5, <2>5, <2>6 DEF GenerateEvent
<1>6. CASE e \notin Opening \cup {"else", "end"}
  <2>1. UNCHANGED <<fn, frames>>
    <3>1. CASE e \in {"simple", "break"}
      BY <1>6, <3>1 DEF GenerateEvent, Simple, Break, Put
    <3>2. CASE e \in {"return none", "return compatible", "return incompatible"}
      BY <1>6, <3>2 DEF GenerateEvent, Return, Put
    <3>3. CASE e = "fn unknown"
      BY <3>3 DEF GenerateEvent
    <3>4. QED
      BY <1>6, <3>1, <3>2, <3>3 DEF Event
  <2>2. t = s
    BY <1>6 DEF Follows
  <2>3. QED
    BY <2>1, <2>2 DEF FrameShape
<1>7. QED
  BY <1>2, <1>3, <1>4, <1>5, <1>6 DEF Event, Opening

-----------------------------------------------------------------------------
(* The inductive invariant.                                                *)

LEMMA PipeInvInit == PipeInit => PipeInv
<1> SUFFICES ASSUME PipeInit PROVE PipeInv
  OBVIOUS
<1>1. SemInv /\ Inv
  BY SemInvInit, InitInv DEF PipeInit
<1>2. ast = << >> /\ pos = 1 /\ phase = "check" /\ Len(ast) = 0
  BY DEF PipeInit
<1>3. AstOK
  <2>1. ast \in Seq(Event)
    BY <1>2, EmptySeq
  <2>2. ~broken
    BY DEF PipeInit, SemInit
  <2>3. QED
    BY <1>2, <2>1, <2>2 DEF AstOK
<1>4. BothFollow
  <2> DEFINE nest == [k \in 1..1 |-> << >>]
  <2>1. Nesting(nest)
    <3>1. << >> \in Seq(Kind)
      BY EmptySeq
    <3>2. nest \in [1..(Len(ast) + 1) -> Seq(Kind)] /\ nest[1] = << >>
      BY <1>2, <3>1
    <3> HIDE DEF nest
    <3>3. QED
      BY <1>2, <3>2 DEF Nesting
  <2>2. nest[1] = << >> /\ Len(nest[1]) = 0
    OBVIOUS
  <2> HIDE DEF nest
  <2>3. BreaksInLoops(nest)
    BY <1>2 DEF BreaksInLoops
  <2>31. ReturnsFit(nest)
    <3>1. 1..Len(ast) = {}
      BY <1>2
    <3>2. QED
      BY <3>1 DEF ReturnsFit
  <2>32. ASSUME NEW k \in 1..(Len(ast) + 1) PROVE Located(ast, k, nest[k])
    <3>1. k = 1 /\ << >> \in Seq(1..(1 - 1)) /\ 1..0 = {}
      BY <1>2, EmptySeq
    <3>2. OpenedAt(ast, << >>, 1, nest[1])
      BY <2>2, <3>1, DepthOfFirst DEF OpenedAt
    <3>3. QED
      BY <3>1, <3>2 DEF Located
  <2>4. StackShape(nest[Len(ast) + 1])
    <3>1. stack = << >>
      BY DEF PipeInit, SemInit
    <3>2. Len(ast) + 1 = 1
      BY <1>2
    <3>3. QED
      BY <2>2, <3>1, <3>2 DEF StackShape
  <2>5. FrameShape(nest[pos])
    BY <1>2, <2>2 DEF FrameShape, PipeInit, Init
  <2>6. QED
    BY <2>1, <2>3, <2>31, <2>32, <2>4, <2>5 DEF BothFollow
<1>5. QED
  BY <1>1, <1>3, <1>4 DEF PipeInv

LEMMA ReturnFlags ==
    ASSUME NEW expr, VisitReturn(expr), dirty \in BOOLEAN
    PROVE  /\ dirty => dirty'
           /\ broken => broken'
           /\ Mismatch(expr) => dirty' \/ broken'
<1>1. \/ dirty' = (dirty \/ Mismatch(expr)) /\ broken' = broken
      \/ broken' = TRUE /\ dirty' \in {dirty, TRUE}
  BY DEF VisitReturn
<1>2. CASE dirty' = (dirty \/ Mismatch(expr)) /\ broken' = broken
  BY <1>2
<1>3. CASE broken' = TRUE /\ dirty' \in {dirty, TRUE}
  BY <1>3
<1>4. QED
  BY <1>1, <1>2, <1>3

\* Nothing makes the pass clean again.
LEMMA FlagsStay ==
    ASSUME SemInv, NEW e \in Event, CheckEvent(e)
    PROVE  (dirty => dirty') /\ (broken => broken')
<1>1. dirty \in BOOLEAN /\ broken \in BOOLEAN
  BY DEF SemInv, SemTypeOK
<1>2. CASE e \in Opening \cup {"else", "end", "simple", "fn unknown"}
  BY <1>2 DEF CheckEvent, EnterMethod, SkipMethod, EnterLoop, EnterIf, EnterElse,
     LeaveMethod, LeaveLoop, LoopLeft, LeaveIf, semVars, Opening
<1>3. CASE e = "break"
  BY <1>3 DEF CheckEvent, VisitBreak
<1>4. CASE e \in {"return none", "return compatible", "return incompatible"}
  <2>1. PICK expr : VisitReturn(expr)
    BY <1>4 DEF CheckEvent
  <2>2. QED
    BY <1>1, <2>1, ReturnFlags
<1>5. QED
  BY <1>2, <1>3, <1>4 DEF Event, Opening

\* A return is compared with the method at the bottom of the stack.
LEMMA ReturnStep ==
    ASSUME SemInv
    PROVE  /\ VisitReturn("incompatible") => dirty' \/ broken'
           /\ VisitReturn("none") =>
                \/ dirty' \/ broken'
                \/ stack[1].node = "DEFFN void" /\ 1 \in 1..Len(stack)
<1>1. /\ dirty \in BOOLEAN /\ stack \in Seq(OnStack)
      /\ stack # << >> => onReturn = 1
  BY DEF SemInv, SemTypeOK, MethodAtBottom, OnStack
<1>2. Mismatch("incompatible")
  BY DEF Mismatch
<1>3. ASSUME VisitReturn("none"), ~Mismatch("none")
      PROVE  stack[1].node = "DEFFN void" /\ 1 \in 1..Len(stack)
  <2>1. stack # << >>
    BY <1>3 DEF VisitReturn
  <2>2. Len(stack) \in Nat \ {0}
    BY <1>1, <2>1, EmptyStack
  <2>3. stack[onReturn].node = "DEFFN void"
    BY <1>3 DEF Mismatch
  <2>4. onReturn = 1
    BY <1>1, <2>1
  <2>5. stack[1].node = "DEFFN void"
    BY <2>3, <2>4, Zenon
  <2>6. 1 \in 1..Len(stack)
    BY <2>2
  <2>7. QED
    BY <2>5, <2>6, Zenon
<1>4. VisitReturn("incompatible") => dirty' \/ broken'
  BY <1>1, <1>2, ReturnFlags
<1>5. VisitReturn("none") /\ Mismatch("none") => dirty' \/ broken'
  BY <1>1, ReturnFlags
<1>6. ASSUME VisitReturn("none"), ~(dirty' \/ broken')
      PROVE  stack[1].node = "DEFFN void" /\ 1 \in 1..Len(stack)
  <2>1. ~Mismatch("none")
    BY <1>5, <1>6
  <2>2. QED
    BY <1>3, <1>6, <2>1
<1>7. QED
  BY <1>4, <1>6

\* The first pass reads an event: what is open is remembered as well.
LEMMA CheckKeepsFollowing ==
    ASSUME PipeInv, Check
    PROVE  BothFollow'
<1> DEFINE n == Len(ast)
<1>1. PICK e \in Event : CheckEvent(e) /\ ast' = Append(ast, e)
  BY DEF Check
<1>2. UNCHANGED <<vars, pos>> /\ phase = "check" /\ pos = 1
  BY DEF Check, PipeInv, AstOK
<1>3. PICK nest : /\ Nesting(nest) /\ BreaksInLoops(nest) /\ ReturnsFit(nest)
                  /\ \A k \in 1..(n + 1) : Located(ast, k, nest[k])
                  /\ StackShape(nest[n + 1]) /\ FrameShape(nest[pos])
  BY DEF PipeInv, BothFollow
<1>4. ast \in Seq(Event) /\ n \in Nat
  BY DEF PipeInv, AstOK
<1>5. nest \in [1..(n + 1) -> Seq(Kind)] /\ nest[n + 1] \in Seq(Kind)
  BY <1>3, <1>4 DEF Nesting
<1>6. PICK t \in Seq(Kind) : Follows(nest[n + 1], e, t) /\ StackShape(t)'
  BY <1>1, <1>3, <1>5, CheckFollows DEF PipeInv
<1>7. /\ Len(ast') = n + 1 /\ ast'[n + 1] = e
      /\ \A k \in 1..n : ast'[k] = ast[k]
  BY <1>1, <1>4
<1>8. PICK more : /\ more \in [1..(n + 2) -> Seq(Kind)] /\ more[n + 2] = t
                  /\ \A k \in 1..(n + 1) : more[k] = nest[k]
  <2> DEFINE m == [k \in 1..(n + 2) |-> IF k = n + 2 THEN t ELSE nest[k]]
  <2>1. /\ m \in [1..(n + 2) -> Seq(Kind)] /\ m[n + 2] = t
        /\ \A k \in 1..(n + 1) : m[k] = nest[k]
    BY <1>4, <1>5
  <2> HIDE DEF m
  <2>2. QED
    BY <2>1
<1> HIDE DEF n
<1>81. (dirty => dirty') /\ (broken => broken')
  BY <1>1, FlagsStay DEF PipeInv
<1>9. Nesting(more)'
  <2>1. more[1] = << >>
    BY <1>3, <1>4, <1>8 DEF Nesting
  <2>2. ASSUME NEW k \in 1..(n + 1) PROVE Follows(more[k], ast'[k], more[k + 1])
    <3>1. CASE k = n + 1
      <4>1. more[k] = nest[n + 1] /\ more[k + 1] = t /\ ast'[k] = e
        BY <1>4, <1>7, <1>8, <3>1
      <4>2. QED
        BY <1>6, <4>1
    <3>2. CASE k # n + 1
      <4>1. k \in 1..n /\ k + 1 \in 1..(n + 1)
        BY <1>4, <3>2
      <4>2. more[k] = nest[k] /\ more[k + 1] = nest[k + 1] /\ ast'[k] = ast[k]
        BY <1>4, <1>7, <1>8, <4>1
      <4>3. Follows(nest[k], ast[k], nest[k + 1])
        BY <1>3, <4>1 DEF Nesting, n
      <4>4. QED
        BY <4>2, <4>3
    <3>3. QED
      BY <3>1, <3>2
  <2>3. Len(ast') + 1 = n + 2
    BY <1>4, <1>7
  <2>4. QED
    BY <1>7, <1>8, <2>1, <2>2, <2>3 DEF Nesting
<1>10. BreaksInLoops(more)'
  <2>1. ASSUME NEW k \in 1..(n + 1), ast'[k] = "break"
        PROVE  dirty' \/ \E i \in 1..Len(more[k]) : more[k][i] = "while"
    <3>1. CASE k = n + 1
      <4>1. VisitBreak /\ more[k] = nest[n + 1]
        BY <1>1, <1>4, <1>7, <1>8, <2>1, <3>1 DEF CheckEvent
      <4>2. dirty' \/ Loops # {}
        BY <4>1, BreakStep DEF PipeInv, VisitBreak
      <4>3. ASSUME Loops # {}
            PROVE  \E i \in 1..Len(nest[n + 1]) : nest[n + 1][i] = "while"
        <5>1. PICK i \in 1..Len(stack) : stack[i].node = "WHILE"
          BY <4>3 DEF Loops
        <5>2. /\ i \in 1..Len(nest[n + 1])
              /\ nest[n + 1][i] = KindOf[stack[i].node]
          BY <1>3, <5>1 DEF StackShape
        <5>3. QED
          BY <5>1, <5>2, KindFacts
      <4>4. QED
        BY <4>1, <4>2, <4>3
    <3>2. CASE k # n + 1
      <4>1. k \in 1..n
        BY <1>4, <3>2
      <4>2. more[k] = nest[k] /\ ast[k] = "break"
        BY <1>4, <1>7, <1>8, <2>1, <4>1
      <4>3. QED
        BY <1>3, <1>81, <4>1, <4>2 DEF BreaksInLoops, n
    <3>3. QED
      BY <3>1, <3>2
  <2>2. QED
    BY <1>7, <2>1 DEF BreaksInLoops
<1>101. ReturnsFit(more)'
  <2>1. ASSUME NEW k \in 1..(n + 1)
        PROVE  /\ ast'[k] = "return none" => dirty' \/ broken' \/ more[k][1] # "value"
               /\ ast'[k] = "return incompatible" => dirty' \/ broken'
    <3>1. CASE k = n + 1
      <4>1. ast'[k] = e /\ more[k] = nest[n + 1]
        BY <1>4, <1>7, <1>8, <3>1
      <4>2. CASE e = "return incompatible"
        BY <1>1, <4>1, <4>2, ReturnStep DEF CheckEvent, PipeInv
      <4>3. CASE e = "return none"
        <5>1. dirty' \/ broken' \/ (stack[1].node = "DEFFN void" /\ 1 \in 1..Len(stack))
          BY <1>1, <4>3, ReturnStep DEF CheckEvent, PipeInv
        <5>2. ASSUME stack[1].node = "DEFFN void", 1 \in 1..Len(stack)
              PROVE  nest[n + 1][1] # "value"
          BY <1>3, <5>2, KindFacts DEF StackShape
        <5>3. QED
          BY <4>1, <4>3, <5>1, <5>2
      <4>4. QED
        BY <4>1, <4>2, <4>3
    <3>2. CASE k # n + 1
      <4>1. k \in 1..n
        BY <1>4, <3>2
      <4>2. more[k] = nest[k] /\ ast'[k] = ast[k]
        BY <1>4, <1>7, <1>8, <4>1
      <4>3. QED
        BY <1>3, <1>81, <4>1, <4>2 DEF ReturnsFit, n
    <3>3. QED
      BY <3>1, <3>2
  <2>2. QED
    BY <1>7, <2>1 DEF ReturnsFit
<1>102. ASSUME NEW k \in 1..(n + 2) PROVE Located(ast', k, more[k])
  <2>1. ASSUME NEW j \in 1..(n + 1) PROVE Located(ast', j, more[j])
    <3>1. more[j] = nest[j]
      BY <1>8
    <3>2. QED
      BY <1>1, <1>3, <1>4, <3>1, LocatedStays DEF n
  <2>2. Located(ast', n + 2, t)
    <3>1. /\ ast' \in Seq(Event) /\ n + 1 \in 1..Len(ast') /\ n + 1 \in 1..(n + 1)
          /\ ast'[n + 1] = e /\ more[n + 1] = nest[n + 1] /\ n + 1 + 1 = n + 2
      BY <1>1, <1>4, <1>7, <1>8
    <3>2. Located(ast', n + 1, nest[n + 1])
      BY <2>1, <3>1
    <3>3. Follows(nest[n + 1], ast'[n + 1], t)
      BY <1>6, <3>1
    <3>4. Located(ast', n + 1 + 1, t)
      BY <1>5, <1>6, <3>1, <3>2, <3>3, LocatedStep
    <3>5. QED
      BY <3>1, <3>4
  <2>3. QED
    <3>1. k \in 1..(n + 1) \/ k = n + 2
      BY <1>4
    <3>2. QED
      BY <1>8, <2>1, <2>2, <3>1
<1>11. StackShape(more[Len(ast) + 1])'
  <2>1. more[Len(ast') + 1] = t
    BY <1>4, <1>7, <1>8
  <2>2. QED
    BY <1>6, <2>1 DEF StackShape
<1>12. FrameShape(more[pos])'
  <2>1. more[pos'] = nest[pos] /\ fn' = fn /\ frames' = frames
    BY <1>2, <1>4, <1>8 DEF vars
  <2>2. QED
    BY <1>3, <2>1 DEF FrameShape
<1>13. QED
  <2>1. Len(ast') + 1 = n + 2
    BY <1>4, <1>7
  <2>2. QED
    BY <1>9, <1>10, <1>101, <1>102, <1>11, <1>12, <2>1 DEF BothFollow

\* The second pass replays an event.
LEMMA GenerateKeepsFollowing ==
    ASSUME PipeInv, Generate
    PROVE  BothFollow'
<1>1. /\ pos \in 1..Len(ast) /\ GenerateEvent(ast[pos]) /\ pos' = pos + 1
      /\ UNCHANGED <<semVars, ast>> /\ ast[pos] \in Event
  BY DEF Generate, PipeInv, AstOK
<1>2. PICK nest : /\ Nesting(nest) /\ BreaksInLoops(nest) /\ ReturnsFit(nest)
                  /\ \A k \in 1..(Len(ast) + 1) : Located(ast, k, nest[k])
                  /\ StackShape(nest[Len(ast) + 1]) /\ FrameShape(nest[pos])
  BY DEF PipeInv, BothFollow
<1>3. /\ Follows(nest[pos], ast[pos], nest[pos + 1])
      /\ nest[pos] \in Seq(Kind) /\ nest[pos + 1] \in Seq(Kind)
  <2>1. pos \in 1..(Len(ast) + 1) /\ pos + 1 \in 1..(Len(ast) + 1)
    <3>1. Len(ast) \in Nat
      BY DEF PipeInv, AstOK
    <3>2. QED
      BY <1>1, <3>1
  <2>2. QED
    BY <1>1, <1>2, <2>1 DEF Nesting
<1>4. PICK t \in Seq(Kind) : t = nest[pos + 1] /\ FrameShape(t)'
  <2>1. ASSUME NEW t \in Seq(Kind), t = nest[pos + 1] PROVE FrameShape(t)'
    BY <1>1, <1>2, <1>3, <2>1, GenerateFollows DEF PipeInv
  <2>2. QED
    BY <1>3, <2>1
<1>5. /\ Nesting(nest)' /\ BreaksInLoops(nest)' /\ ReturnsFit(nest)'
      /\ StackShape(nest[Len(ast) + 1])'
  <2>1. ast' = ast /\ dirty' = dirty /\ broken' = broken /\ stack' = stack
    BY <1>1 DEF semVars
  <2>2. QED
    BY <1>2, <2>1 DEF Nesting, BreaksInLoops, ReturnsFit, StackShape
<1>6. FrameShape(nest[pos])'
  BY <1>1, <1>4 DEF FrameShape
<1>7. ast' = ast
  BY <1>1
<1>8. \E n : /\ Nesting(n)' /\ BreaksInLoops(n)' /\ ReturnsFit(n)'
             /\ \A k \in 1..(Len(ast') + 1) : Located(ast', k, n[k])
             /\ StackShape(n[Len(ast) + 1])' /\ FrameShape(n[pos])'
  BY <1>2, <1>5, <1>6, <1>7
<1>9. QED
  BY <1>8 DEF BothFollow

LEMMA PipeInvStep == PipeInv /\ [PipeNext]_pipeVars => PipeInv'
<1> SUFFICES ASSUME PipeInv, [PipeNext]_pipeVars PROVE PipeInv'
  OBVIOUS
<1>1. SemInv' /\ Inv'
  BY PassSteps, SemInvStep, TypeStep, LoopsStep DEF PipeInv, Inv
<1>2. AstOK'
  <2>1. CASE Check
    <3>1. PICK e \in Event : ast' = Append(ast, e)
      BY <2>1 DEF Check
    <3>2. /\ phase' \in {"check", "undefined"} /\ pos' = 1 /\ ast \in Seq(Event)
      BY <2>1 DEF Check, PipeInv, AstOK
    <3>3. ast' \in Seq(Event) /\ 1 \in 1..(Len(ast') + 1)
      BY <3>1, <3>2
    <3>4. phase' # "undefined" => ~broken'
      BY <2>1 DEF Check
    <3>5. QED
      BY <3>2, <3>3, <3>4 DEF AstOK
  <2>2. CASE Generate
    BY <2>2 DEF Generate, PipeInv, AstOK, semVars
  <2>3. CASE EndCheck \/ EndGenerate \/ Stopped \/ UNCHANGED pipeVars
    BY <2>3 DEF EndCheck, EndGenerate, Stopped, pipeVars, semVars, PipeInv, AstOK
  <2>4. QED
    BY <2>1, <2>2, <2>3 DEF PipeNext
<1>3. BothFollow'
  <2>1. CASE EndCheck \/ EndGenerate \/ Stopped \/ UNCHANGED pipeVars
    <3>1. UNCHANGED <<vars, semVars, ast, pos>>
      BY <2>1 DEF EndCheck, EndGenerate, Stopped, pipeVars
    <3>2. UNCHANGED <<fn, frames, stack, dirty, broken, ast, pos>>
      BY <3>1 DEF vars, semVars
    <3>3. PICK nest : /\ Nesting(nest) /\ BreaksInLoops(nest) /\ ReturnsFit(nest)
                      /\ \A k \in 1..(Len(ast) + 1) : Located(ast, k, nest[k])
                      /\ StackShape(nest[Len(ast) + 1]) /\ FrameShape(nest[pos])
      BY DEF PipeInv, BothFollow
    <3>4. /\ Nesting(nest)' /\ BreaksInLoops(nest)' /\ ReturnsFit(nest)'
          /\ \A k \in 1..(Len(ast') + 1) : Located(ast', k, nest[k])
          /\ StackShape(nest[Len(ast) + 1])' /\ FrameShape(nest[pos])'
      BY <3>2, <3>3 DEF Nesting, BreaksInLoops, ReturnsFit, StackShape, FrameShape
    <3>5. QED
      BY <3>4 DEF BothFollow
  <2>2. QED
    BY <2>1, CheckKeepsFollowing, GenerateKeepsFollowing DEF PipeNext
<1>4. QED
  BY <1>1, <1>2, <1>3 DEF PipeInv

\* Where the source is in a loop, the generator has a break point.
LEMMA TargetExists == PipeInv => BreakHasTarget
<1> SUFFICES ASSUME PipeInv, phase = "generate", pos <= Len(ast), ast[pos] = "break"
             PROVE  breakPoints # << >>
  BY DEF BreakHasTarget
<1>1. PICK nest : Nesting(nest) /\ BreaksInLoops(nest) /\ FrameShape(nest[pos])
  BY DEF PipeInv, BothFollow
<1>2. pos \in 1..Len(ast) /\ ~dirty
  BY DEF PipeInv, AstOK
<1>3. PICK s \in Seq(Kind) : s = nest[pos]
  BY <1>1, <1>2 DEF Nesting, PipeInv, AstOK
<1>4. PICK i \in 1..Len(s) : s[i] = "while"
  BY <1>1, <1>2, <1>3 DEF BreaksInLoops
<1>5. PICK j \in 1..Len(frames) : frames[j].kind = "while"
  <2>1. s # << >>
    BY <1>4, ShapeOfEmpty
  <2>2. /\ Len(s) = Len(frames) + 1 /\ s[1] = fn
        /\ \A k \in 1..Len(frames) : s[k + 1] = frames[k].kind
    BY <1>1, <1>3, <2>1 DEF FrameShape
  <2>3. i # 1
    BY <1>4, <2>2 DEF PipeInv, Inv, TypeOK
  <2>4. i - 1 \in 1..Len(frames) /\ s[i - 1 + 1] = frames[i - 1].kind
    BY <2>2, <2>3
  <2>5. QED
    BY <1>4, <2>4
<1>6. PICK h : LoopMap(h, breakPoints, frames)
  BY DEF PipeInv, Inv, LoopsMatch
<1>7. PICK k \in 1..Len(breakPoints) : h[k] = j
  BY <1>5, <1>6 DEF LoopMap
<1>8. QED
  BY <1>7, EmptySeq

\* What is around an event, by what the nesting function says of it.
LEMMA AroundFacts ==
    ASSUME PipeInv
    PROVE  \E nest, o :
             /\ Nesting(nest) /\ BreaksInLoops(nest) /\ ReturnsFit(nest)
             /\ FrameShape(nest[pos])
             /\ \A k \in 1..(Len(ast) + 1) : OpenedAt(ast, o[k], k, nest[k])
<1>1. PICK nest : /\ Nesting(nest) /\ BreaksInLoops(nest) /\ ReturnsFit(nest)
                  /\ \A k \in 1..(Len(ast) + 1) : Located(ast, k, nest[k])
                  /\ FrameShape(nest[pos])
  BY DEF PipeInv, BothFollow
<1> DEFINE o == [k \in 1..(Len(ast) + 1) |-> CHOOSE q : OpenedAt(ast, q, k, nest[k])]
<1>2. ASSUME NEW k \in 1..(Len(ast) + 1) PROVE OpenedAt(ast, o[k], k, nest[k])
  <2>1. \E q : OpenedAt(ast, q, k, nest[k])
    BY <1>1 DEF Located
  <2>2. QED
    BY <2>1
<1> HIDE DEF o
<1>3. QED
  BY <1>1, <1>2

\* A break that is accepted stands in a loop.
LEMMA BreaksStandInLoops == PipeInv => AcceptedBreaks
<1> SUFFICES ASSUME PipeInv, Accepted, NEW k \in 1..Len(ast), ast[k] = "break"
             PROVE  \E i \in Around(k) : ast[i] = "while"
  BY DEF AcceptedBreaks
<1>1. PICK nest, o : /\ Nesting(nest) /\ BreaksInLoops(nest)
                     /\ \A j \in 1..(Len(ast) + 1) : OpenedAt(ast, o[j], j, nest[j])
  BY AroundFacts
<1>2. ~dirty /\ k \in 1..(Len(ast) + 1)
  BY DEF PipeInv, AstOK, Accepted
<1>3. PICK m \in 1..Len(nest[k]) : nest[k][m] = "while"
  BY <1>1, <1>2 DEF BreaksInLoops
<1>4. OpenedAt(ast, o[k], k, nest[k])
  BY <1>1, <1>2
<1>5. o[k][m] \in Around(k) /\ ast[o[k][m]] = EventOf["while"]
  BY <1>3, <1>4, DepthIsOf DEF OpenedAt
<1>6. EventOf["while"] = "while"
  BY DEF EventOf, Kind
<1>7. QED
  BY <1>5, <1>6

\* The loops on the walker's stack are those of the source around the event it
\* visits, so a break is reported exactly if there is none.
LEMMA BreakReportedStep ==
    ASSUME PipeInv, Check, ast' = Append(ast, "break"), ~dirty
    PROVE  dirty' <=> \A i \in Around(Len(ast) + 1) : ast[i] # "while"
<1> DEFINE k == Len(ast) + 1
<1>1. VisitBreak
  <2>1. PICK e \in Event : CheckEvent(e) /\ ast' = Append(ast, e)
    BY DEF Check
  <2>2. e = "break"
    <3>1. ast \in Seq(Event) /\ "break" \in Event
      BY DEF PipeInv, AstOK, Event
    <3>2. Append(ast, e)[Len(ast) + 1] = e /\ Append(ast, "break")[Len(ast) + 1] = "break"
      BY <2>1, <3>1
    <3>3. QED
      BY <2>1, <3>2
  <2>3. QED
    BY <2>1, <2>2 DEF CheckEvent
<1>2. dirty' <=> Loops = {}
  BY <1>1, BreakStep DEF PipeInv
<1>3. PICK nest : /\ Nesting(nest) /\ StackShape(nest[k]) /\ Located(ast, k, nest[k])
  <2>1. k \in 1..k
    BY DEF PipeInv, AstOK
  <2>2. QED
    BY <2>1 DEF PipeInv, BothFollow
<1>4. nest[k] \in Seq(Kind)
  BY <1>3 DEF Nesting, PipeInv, AstOK
<1>5. PICK o : OpenedAt(ast, o, k, nest[k])
  BY <1>3 DEF Located
<1> HIDE DEF k
<1>6. /\ Around(k) = {o[m] : m \in 1..Len(nest[k])}
      /\ \A m \in 1..Len(nest[k]) : ast[o[m]] = EventOf[nest[k][m]]
  BY <1>5, DepthIsOf DEF OpenedAt
<1>7. \A kind \in Kind : EventOf[kind] = "while" <=> kind = "while"
  BY DEF EventOf, Kind
<1>8. \A m \in 1..Len(nest[k]) : nest[k][m] \in Kind
  BY <1>4
<1>9. (\E i \in Around(k) : ast[i] = "while")
        <=> \E m \in 1..Len(nest[k]) : nest[k][m] = "while"
  <2>1. \A m \in 1..Len(nest[k]) : ast[o[m]] = "while" <=> nest[k][m] = "while"
    BY <1>6, <1>7, <1>8
  <2>2. QED
    BY <1>6, <2>1, Zenon
<1>10. (\E m \in 1..Len(nest[k]) : nest[k][m] = "while") <=> Loops # {}
  <2>1. /\ Len(nest[k]) = Len(stack)
        /\ \A i \in 1..Len(nest[k]) : nest[k][i] = KindOf[stack[i].node]
    BY <1>3 DEF StackShape
  <2>2. \A i \in 1..Len(stack) : stack[i].node \in Node
    <3>1. stack \in Seq(OnStack)
      BY DEF PipeInv, SemInv, SemTypeOK, OnStack
    <3>2. \A i \in 1..Len(stack) : stack[i] \in OnStack
      BY <3>1
    <3>3. QED
      BY <3>2 DEF OnStack
  <2>3. \A i \in 1..Len(stack) : nest[k][i] = "while" <=> stack[i].node = "WHILE"
    BY <2>1, <2>2, KindFacts
  <2>4. QED
    BY <2>1, <2>3 DEF Loops
<1>11. QED
  BY <1>2, <1>9, <1>10 DEF k

\* A return that is accepted fits the method.
LEMMA ReturnsFitMethods == PipeInv => AcceptedReturns
<1> SUFFICES ASSUME PipeInv, Accepted, NEW k \in 1..Len(ast), NEW i \in Around(k)
             PROVE  /\ ast[k] = "return none" => ast[i] # "fn value"
                    /\ ast[k] # "return incompatible"
  BY DEF AcceptedReturns
<1>1. PICK nest, o : /\ Nesting(nest) /\ ReturnsFit(nest)
                     /\ \A j \in 1..(Len(ast) + 1) : OpenedAt(ast, o[j], j, nest[j])
  BY AroundFacts
<1>2. ~dirty /\ ~broken /\ k \in 1..(Len(ast) + 1) /\ ast \in Seq(Event)
  BY DEF PipeInv, AstOK, Accepted
<1>3. ast[k] # "return incompatible" /\ (ast[k] = "return none" => nest[k][1] # "value")
  BY <1>1, <1>2 DEF ReturnsFit
<1>4. OpenedAt(ast, o[k], k, nest[k]) /\ nest[k] \in Seq(Kind)
  BY <1>1, <1>2 DEF Nesting
<1>5. PICK m \in 1..Len(nest[k]) : i = o[k][m]
  BY <1>4, DepthIsOf DEF OpenedAt
<1>6. ast[i] = EventOf[nest[k][m]] /\ nest[k][m] \in Kind
  BY <1>4, <1>5 DEF OpenedAt
<1>7. ASSUME ast[i] = "fn value" PROVE m = 1 /\ nest[k][1] = "value"
  <2>1. i \in 1..(k - 1) /\ DepthOf(ast, i) = m - 1
    BY <1>4, <1>5 DEF OpenedAt
  <2>2. i \in 1..Len(ast) /\ i \in 1..(Len(ast) + 1)
    BY <1>2, <2>1
  <2>3. nest[i] = << >>
    BY <1>1, <1>7, <2>2 DEF Nesting, Follows
  <2>4. DepthOf(ast, i) = 0
    BY <1>1, <2>2, <2>3 DEF OpenedAt
  <2>5. m = 1
    BY <2>1, <2>4
  <2>6. nest[k][1] = "value"
    BY <1>6, <1>7, <2>5 DEF EventOf, Kind
  <2>7. QED
    BY <2>5, <2>6
<1>8. QED
  BY <1>3, <1>7

\* A set that is enumerated without repetition.
LEMMA Enumerated ==
    ASSUME NEW n \in Nat, NEW T, NEW f \in [1..n -> T],
           \A k, l \in 1..n : f[k] = f[l] => k = l,
           \A x \in T : \E k \in 1..n : f[k] = x
    PROVE  Cardinality(T) = n
<1>1. f \in Bijection(1..n, T)
  BY DEF Bijection, Injection, IsInjective, Surjection
<1>2. ExistsBijection(1..n, T)
  BY <1>1 DEF ExistsBijection
<1>3. IsFiniteSet(1..n) /\ Cardinality(1..n) = n
  BY FS_Interval
<1>4. QED
  BY <1>2, <1>3, FS_Bijection

\* The generator is as deep in visitors, and in loops, as the source.
LEMMA GeneratorIsInside == PipeInv => GeneratorFollowsSource
<1> SUFFICES ASSUME PipeInv, phase = "generate"
             PROVE  /\ Cardinality(Around(pos)) = Len(frames) + (IF fn = "none" THEN 0 ELSE 1)
                    /\ Cardinality({i \in Around(pos) : ast[i] = "while"}) = Len(breakPoints)
  BY DEF GeneratorFollowsSource
<1>1. PICK nest, o : /\ Nesting(nest) /\ FrameShape(nest[pos])
                     /\ \A j \in 1..(Len(ast) + 1) : OpenedAt(ast, o[j], j, nest[j])
  BY AroundFacts
<1>2. pos \in 1..(Len(ast) + 1) /\ frames \in Seq(Frame) /\ Len(frames) \in Nat
      /\ breakPoints \in Seq(1..used) /\ Len(breakPoints) \in Nat
      /\ fn \in {"none", "void", "value"}
  BY DEF PipeInv, AstOK, Inv, TypeOK
<1>3. PICK s, q : s = nest[pos] /\ q = o[pos] /\ s \in Seq(Kind)
  BY <1>1, <1>2 DEF Nesting
<1>4. /\ q \in Seq(1..(pos - 1)) /\ Len(q) = Len(s) /\ Len(s) \in Nat
      /\ \A i : i \in Around(pos) <=> \E m \in 1..Len(s) : i = q[m]
      /\ \A m \in 1..Len(s) : DepthOf(ast, q[m]) = m - 1 /\ ast[q[m]] = EventOf[s[m]]
  <2>1. OpenedAt(ast, q, pos, s)
    BY <1>1, <1>2, <1>3
  <2>2. Around(pos) = AroundOf(ast, pos) /\ Len(s) \in Nat
    BY <1>3, DepthIsOf
  <2>3. \A i : i \in Around(pos) <=> \E m \in 1..Len(s) : i = q[m]
    BY <2>1, <2>2 DEF OpenedAt
  <2>4. QED
    BY <2>1, <2>2, <2>3 DEF OpenedAt
<1>5. \A k, l \in 1..Len(s) : q[k] = q[l] => k = l
  <2> SUFFICES ASSUME NEW k \in 1..Len(s), NEW l \in 1..Len(s), q[k] = q[l] PROVE k = l
    OBVIOUS
  <2>1. k - 1 = l - 1
    BY <1>4
  <2>2. QED
    BY <1>4, <2>1
<1>6. Cardinality(Around(pos)) = Len(s)
  <2>1. q \in [1..Len(s) -> Around(pos)] /\ \A x \in Around(pos) : \E k \in 1..Len(s) : q[k] = x
    BY <1>4
  <2>2. QED
    BY <1>4, <1>5, <2>1, Enumerated, SMTT(30)
<1>7. Len(s) = Len(frames) + (IF fn = "none" THEN 0 ELSE 1)
  BY <1>1, <1>2, <1>3, EmptySeq DEF FrameShape
<1>8. PICK h : LoopMap(h, breakPoints, frames)
  BY DEF PipeInv, Inv, LoopsMatch
<1> DEFINE n == Len(breakPoints)
           W == {i \in Around(pos) : ast[i] = "while"}
           f == [k \in 1..n |-> q[h[k] + 1]]
<1>9. ASSUME NEW i \in 1..Len(frames)
      PROVE  /\ i + 1 \in 1..Len(s) /\ q[i + 1] \in Around(pos)
             /\ ast[q[i + 1]] = "while" <=> frames[i].kind = "while"
  <2>1. fn # "none"
    BY <1>1, <1>2, <1>3, EmptySeq DEF FrameShape
  <2>2. i + 1 \in 1..Len(s) /\ s[i + 1] = frames[i].kind
    <3>1. Len(s) = Len(frames) + 1 /\ \A j \in 1..Len(frames) : s[j + 1] = frames[j].kind
      BY <1>1, <1>3, <2>1 DEF FrameShape
    <3>2. QED
      BY <1>2, <3>1
  <2>3. frames[i].kind \in {"while", "then", "else"}
    <3>1. frames[i] \in Frame
      BY <1>2
    <3>2. QED
      BY <3>1 DEF Frame
  <2>4. ast[q[i + 1]] = "while" <=> frames[i].kind = "while"
    BY <1>4, <2>2, <2>3 DEF EventOf, Kind
  <2>5. QED
    BY <1>4, <2>2, <2>4
<1>10. f \in [1..n -> W]
  <2>1. ASSUME NEW k \in 1..n PROVE f[k] \in W
    <3>1. h[k] \in 1..Len(frames) /\ frames[h[k]].kind = "while"
      BY <1>8 DEF LoopMap
    <3>2. QED
      BY <1>9, <3>1
  <2>2. QED
    BY <2>1
<1>11. ASSUME NEW k \in 1..n, NEW l \in 1..n, f[k] = f[l] PROVE k = l
  <2>1. h[k] \in 1..Len(frames) /\ h[l] \in 1..Len(frames)
    BY <1>8 DEF LoopMap
  <2>2. h[k] + 1 = h[l] + 1
    BY <1>5, <1>9, <1>11, <2>1
  <2>3. h[k] = h[l]
    BY <1>2, <2>1, <2>2
  <2>4. (k < l => h[k] < h[l]) /\ (l < k => h[l] < h[k])
    BY <1>8 DEF LoopMap
  <2>5. QED
    BY <1>2, <2>1, <2>3, <2>4
<1>12. ASSUME NEW x \in W PROVE \E k \in 1..n : f[k] = x
  <2>1. PICK m \in 1..Len(s) : x = q[m] /\ ast[q[m]] = "while"
    BY <1>4
  <2>2. s[m] \in Kind /\ EventOf[s[m]] = "while"
    BY <1>3, <1>4, <2>1
  <2>3. s[m] = "while"
    BY <2>2 DEF EventOf, Kind
  <2>4. fn # "none" /\ s[1] = fn
    BY <1>1, <1>2, <1>3, <1>4, EmptySeq DEF FrameShape
  <2>5. m # 1
    BY <1>2, <2>3, <2>4
  <2>6. PICK i \in 1..Len(frames) : m = i + 1
    BY <1>2, <1>7, <2>4, <2>5
  <2>7. frames[i].kind = "while"
    BY <1>9, <2>1, <2>6
  <2>8. PICK k \in 1..n : h[k] = i
    BY <1>8, <2>7 DEF LoopMap
  <2>9. QED
    BY <2>1, <2>6, <2>8
<1>13. Cardinality(W) = n
  <2> HIDE DEF W, f, n
  <2>1. n \in Nat
    BY <1>2 DEF n
  <2>2. QED
    BY <1>10, <1>11, <1>12, <2>1, Enumerated
<1>14. QED
  BY <1>6, <1>7, <1>13

-----------------------------------------------------------------------------
(* Theorems.                                                               *)

\* What is true of all behaviours of the two passes.
THEOREM PipeInvariant == PipeSpec => []PipeInv
<1>1. QED
  BY PipeInvInit, PipeInvStep, PTL DEF PipeSpec

\* In the pipeline the semantic pass and the generator behave as they do in
\* their own modules, whose theorems so hold of executeCodegen.
THEOREM PassesAreThemselves == PipeSpec => SemSpec /\ Spec
<1>1. PipeInit => SemInit /\ Init
  BY DEF PipeInit
<1>2. PipeInv => AstOK
  BY DEF PipeInv
<1>3. QED
  BY <1>1, <1>2, PassSteps, PipeInvariant, PTL DEF PipeSpec, SemSpec, Spec

\* The type invariant of the two passes.
THEOREM PipeTypeCorrect == PipeSpec => []PipeTypeOK
<1>1. PipeInv => PipeTypeOK
  BY DEF PipeInv, Inv, SemInv, AstOK, PipeTypeOK
<1>2. QED
  BY <1>1, PipeInvariant, PTL

\* A break is reported if and only if no loop of the source is open around it, in
\* nests of any depth: the step that reads one marks the pass exactly then.
THEOREM BreaksReported == PipeSpec => BreakReported
<1>1. ASSUME PipeInv, [PipeNext]_pipeVars
      PROVE  [ast' = Append(ast, "break") /\ ~dirty
                => (dirty' <=> \A i \in Around(Len(ast) + 1) : ast[i] # "while")]_pipeVars
  <2>1. CASE Check
    BY <1>1, <2>1, BreakReportedStep
  <2>2. CASE EndCheck \/ Generate \/ EndGenerate \/ Stopped
    <3>1. ast' = ast /\ ast \in Seq(Event)
      BY <1>1, <2>2 DEF EndCheck, Generate, EndGenerate, Stopped, pipeVars, PipeInv, AstOK
    <3>2. ast' # Append(ast, "break")
      BY <3>1
    <3>3. QED
      BY <3>2
  <2>3. QED
    BY <1>1, <2>1, <2>2 DEF PipeNext
<1>2. QED
  BY <1>1, PipeInvariant, PTL DEF PipeSpec, BreakReported

\* A program is only translated if each of its breaks stands in a loop of its
\* own method, however deep the ifs between them.
THEOREM AcceptedBreaksInvariant == PipeSpec => []AcceptedBreaks
<1>1. QED
  BY BreaksStandInLoops, PipeInvariant, PTL

\* ... and each of its returns fits the method it is in, though the visitor that
\* compares them was registered by a statement that has long been left: if its
\* storage was reused the pass is undefined, and nothing is translated.
THEOREM AcceptedReturnsInvariant == PipeSpec => []AcceptedReturns
<1>1. QED
  BY ReturnsFitMethods, PipeInvariant, PTL

\* The visitors that wait in the generator are the nodes around the event it is
\* at, and its break points the loops among them.
THEOREM GeneratorFollowsInvariant == PipeSpec => []GeneratorFollowsSource
<1>1. QED
  BY GeneratorIsInside, PipeInvariant, PTL

\* BreakVisitor takes the last of the break points without a test.  There is
\* always one: what the semantic pass has accepted puts the generator inside
\* a loop, in programs of any size.
THEOREM BreakHasTargetInvariant == PipeSpec => []BreakHasTarget
<1>1. QED
  BY TargetExists, PipeInvariant, PTL
=============================================================================
