-------------------------- MODULE BlockGen_proofs ---------------------------
(***************************************************************************)
(* Proofs of the invariants of BlockGen, for all values of the bounds.     *)
(***************************************************************************)
EXTENDS BlockGen, SequenceTheorems, TLAPS

\* A visitor that waits when u blocks have been created: its blocks are among
\* them, and none is the entry block.
FrameUpTo(u) == {f \in Frame : /\ f.merge \in 2..u
                               /\ f.kind # "else" => f.next \in 2..u}

\* What the waiting visitors hold, and that only a method that is being
\* generated has visitors that wait.
FramesOK ==
    /\ fn = "none" => frames = << >>
    /\ fn # "none" => at \in 1..used
    /\ breakPoints \in Seq(2..used)
    /\ frames \in Seq(FrameUpTo(used))

\* h takes the break points bs, in the order in which they were pushed, to
\* the loops among the waiting visitors fs, and to all of them.
LoopMap(h, bs, fs) ==
    /\ h \in [1..Len(bs) -> 1..Len(fs)]
    /\ \A k \in 1..Len(bs) : fs[h[k]].kind = "while" /\ bs[k] = fs[h[k]].merge
    /\ \A k, l \in 1..Len(bs) : k < l => h[k] < h[l]
    /\ \A i \in 1..Len(fs) :
         fs[i].kind = "while" => \E k \in 1..Len(bs) : h[k] = i

\* The break points are the merge blocks of the loops that are open.
LoopsMatch == \E h : LoopMap(h, breakPoints, frames)

Inv == TypeOK /\ FramesOK /\ LoopsMatch

-----------------------------------------------------------------------------
(* Lemmas on the operators of the model.                                   *)

\* The instructions are instructions, and the last three are terminators.
LEMMA Instructions ==
    /\ Op \in Instr /\ Ret \in Instr /\ RetSlot \in Instr
    /\ Op.succ = {} /\ Ret.succ = {} /\ RetSlot.succ = {}
    /\ IsTerminator(Ret) /\ IsTerminator(RetSlot)
    /\ \A b, c \in Block : /\ Br(b) \in Instr /\ CondBr(b, c) \in Instr
                          /\ Br(b).succ = {b} /\ CondBr(b, c).succ = {b, c}
                          /\ IsTerminator(Br(b)) /\ IsTerminator(CondBr(b, c))
BY DEF Op, Ret, RetSlot, Br, CondBr, Instr, IsTerminator

\* Emitting an instruction touches one block, which then ends in it.
LEMMA EmitFacts ==
    ASSUME NEW c \in [Block -> Seq(Instr)], NEW b \in Block, NEW i \in Instr
    PROVE  /\ Emit(c, b, i) \in [Block -> Seq(Instr)]
           /\ \A d \in Block : d # b => Emit(c, b, i)[d] = c[d]
           /\ Emit(c, b, i)[b] = Append(c[b], i)
BY DEF Emit

\* A block that is emitted to is terminated exactly if the instruction is a
\* terminator, whatever the block held before.
LEMMA EmitTerminates ==
    ASSUME NEW c \in [Block -> Seq(Instr)], NEW b \in Block, NEW i \in Instr
    PROVE  /\ Terminated(Emit(c, b, i), b) <=> IsTerminator(i)
           /\ \A d \in Block :
                d # b => (Terminated(Emit(c, b, i), d) <=> Terminated(c, d))
<1>1. Append(c[b], i) # << >> /\ Append(c[b], i)[Len(Append(c[b], i))] = i
  OBVIOUS
<1>2. QED
  BY <1>1, EmitFacts DEF Terminated

\* Closing a block with a terminator leaves it terminated, and leaves alone
\* the others.
LEMMA CloseFacts ==
    ASSUME NEW c \in [Block -> Seq(Instr)], NEW b \in Block, NEW i \in Instr,
           IsTerminator(i)
    PROVE  /\ CloseWith(c, b, i) \in [Block -> Seq(Instr)]
           /\ Terminated(CloseWith(c, b, i), b)
           /\ \A d \in Block : d # b =>
                /\ CloseWith(c, b, i)[d] = c[d]
                /\ Terminated(CloseWith(c, b, i), d) <=> Terminated(c, d)
<1>1. CASE Terminated(c, b)
  BY <1>1 DEF CloseWith
<1>2. CASE ~Terminated(c, b)
  <2>1. CloseWith(c, b, i) = Emit(c, b, i)
    BY <1>2 DEF CloseWith
  <2>2. CloseWith(c, b, i) \in [Block -> Seq(Instr)]
    BY <2>1, EmitFacts
  <2>3. Terminated(Emit(c, b, i), b)
    BY EmitTerminates
  <2>4. ASSUME NEW d \in Block, d # b
        PROVE  /\ Emit(c, b, i)[d] = c[d]
               /\ Terminated(Emit(c, b, i), d) <=> Terminated(c, d)
    BY <2>4, EmitFacts, EmitTerminates
  <2>5. QED
    BY <2>1, <2>2, <2>3, <2>4
<1>3. QED
  BY <1>1, <1>2

\* Top and Pop take a non-empty stack apart.
LEMMA PopFacts ==
    ASSUME NEW S, NEW s \in Seq(S), s # << >>
    PROVE  /\ Len(s) \in Nat \ {0}
           /\ Top(s) \in S /\ Top(s) = s[Len(s)]
           /\ Pop(s) \in Seq(S)
           /\ Len(Pop(s)) = Len(s) - 1
           /\ \A i \in 1..(Len(s) - 1) : Pop(s)[i] = s[i]
<1> DEFINE n == Len(s) - 1
           t == SubSeq(s, 1, n)
<1>1. Len(s) \in Nat \ {0} /\ s[Len(s)] \in S
  OBVIOUS
<1>2. n \in Nat /\ \A i \in 1..n : s[i] \in S
  BY <1>1
<1> HIDE DEF n
<1>3. /\ t \in Seq(S)
      /\ Len(t) = IF 1 <= n THEN n - 1 + 1 ELSE 0
      /\ \A i \in 1..(n - 1 + 1) : t[i] = s[1 + i - 1]
  BY <1>2, SubSeqProperties
<1> HIDE DEF t
<1>4. Len(t) = n
  BY <1>2, <1>3
<1>5. ASSUME NEW i \in 1..n
      PROVE  t[i] = s[i]
  BY <1>2, <1>3
<1>6. QED
  BY <1>1, <1>3, <1>4, <1>5 DEF Top, Pop, n, t

\* Taking the top from an empty stack leaves an empty stack.
LEMMA PopEmpty == Pop(<< >>) = << >>
<1>1. SubSeq(<< >>, 1, Len(<< >>) - 1) = << >>
  BY SubSeqEmpty
<1>2. QED
  BY <1>1 DEF Pop

\* More blocks: what was a list of blocks, or a stack of visitors, still is.
LEMMA Grows ==
    ASSUME NEW u \in Nat, NEW v \in Nat, u <= v
    PROVE  /\ Seq(1..u) \subseteq Seq(1..v)
           /\ Seq(2..u) \subseteq Seq(2..v)
           /\ Seq(2..u) \subseteq Seq(1..u)
           /\ Seq(FrameUpTo(u)) \subseteq Seq(FrameUpTo(v))
<1>1. 1..u \subseteq 1..v /\ 2..u \subseteq 2..v /\ 2..u \subseteq 1..u
  OBVIOUS
<1>2. FrameUpTo(u) \subseteq FrameUpTo(v)
  BY DEF FrameUpTo
<1>3. QED
  BY ONLY <1>1, <1>2, SeqMonotonic

-----------------------------------------------------------------------------
(* The inductive invariant.                                                *)

\* The last break point belongs to the innermost visitor, if that is a loop.
LEMMA LastLoop ==
    ASSUME NEW h, NEW bs \in Seq(Nat), NEW fs \in Seq(Frame), LoopMap(h, bs, fs),
           fs # << >>, Top(fs).kind = "while"
    PROVE  Len(bs) \in Nat \ {0} /\ h[Len(bs)] = Len(fs)
<1>1. Len(bs) \in Nat /\ Len(fs) \in Nat \ {0} /\ Len(fs) \in 1..Len(fs)
  OBVIOUS
<1>2. PICK k \in 1..Len(bs) : h[k] = Len(fs)
  BY <1>1 DEF Top, LoopMap
<1>3. Len(bs) \in 1..Len(bs)
  BY <1>1, <1>2
<1>4. k < Len(bs) => h[k] < h[Len(bs)]
  BY <1>3 DEF LoopMap
<1>5. h[Len(bs)] \in 1..Len(fs)
  BY <1>3 DEF LoopMap
<1>6. k = Len(bs)
  BY <1>1, <1>2, <1>4, <1>5
<1>7. QED
  BY <1>1, <1>2, <1>3, <1>6

\* No loop is open if nobody waits, and the innermost visitor, if it is a
\* loop, owns the last break point.
LEMMA LoopFacts ==
    ASSUME Inv
    PROVE  /\ frames = << >> => breakPoints = << >>
           /\ frames # << >> /\ Top(frames).kind = "while" =>
                breakPoints # << >> /\ Top(breakPoints) = Top(frames).merge
<1>1. /\ breakPoints \in Seq(Nat) /\ frames \in Seq(Frame)
      /\ Len(breakPoints) \in Nat
  <2>1. 2..used \subseteq Nat
    BY DEF Inv, TypeOK
  <2>2. breakPoints \in Seq(2..used) /\ frames \in Seq(Frame)
    BY DEF Inv, TypeOK, FramesOK
  <2>3. breakPoints \in Seq(Nat)
    BY ONLY <2>1, <2>2, SeqMonotonic
  <2>4. QED
    BY <2>2, <2>3
<1>2. PICK h : LoopMap(h, breakPoints, frames)
  BY DEF Inv, LoopsMatch
<1>3. ASSUME frames = << >>
      PROVE  breakPoints = << >>
  <2>1. h \in [1..Len(breakPoints) -> 1..0]
    BY <1>2, <1>3 DEF LoopMap
  <2>2. ~(1 \in 1..Len(breakPoints))
    BY <2>1
  <2>3. Len(breakPoints) = 0
    BY <1>1, <2>2
  <2>4. QED
    BY <1>1, <2>3
<1>4. ASSUME frames # << >>, Top(frames).kind = "while"
      PROVE  breakPoints # << >> /\ Top(breakPoints) = Top(frames).merge
  <2>1. Len(breakPoints) \in Nat \ {0} /\ h[Len(breakPoints)] = Len(frames)
    BY <1>1, <1>2, <1>4, LastLoop
  <2>2. QED
    BY <1>2, <2>1 DEF Top, LoopMap
<1>5. QED
  BY <1>3, <1>4

\* The empty map serves when nobody waits.
LEMMA NoLoops == LoopMap([k \in {} |-> k], << >>, << >>)
<1>1. 1..Len(<< >>) = {}
  OBVIOUS
<1>2. QED
  BY <1>1 DEF LoopMap

\* Initially nothing has been created and nobody waits.
LEMMA InitInv == Init => Inv
<1> SUFFICES ASSUME Init PROVE Inv
  OBVIOUS
<1> USE BoundsAssumption DEF Init
<1>1. TypeOK
  BY DEF TypeOK, Block
<1>2. FramesOK
  BY DEF FramesOK
<1>3. LoopsMatch
  BY NoLoops DEF LoopsMatch
<1>4. QED
  BY <1>1, <1>2, <1>3 DEF Inv

\* A finished method leaves no break point and no waiting visitor behind.
LEMMA NothingPending ==
    ASSUME Inv, fn = "none"
    PROVE  frames = << >> /\ breakPoints = << >>
BY LoopFacts DEF Inv, FramesOK

\* What is left of a type once a step has been seen to keep these parts.
LEMMA KeepsTypes ==
    ASSUME used' \in 0..MaxBlock,
           code' \in [Block -> Seq(Instr)],
           layout' \in Seq(1..used'),
           breakPoints' \in Seq(2..used'),
           frames' \in Seq(FrameUpTo(used')),
           at' \in 0..used',
           fn' = "none" => frames' = << >>,
           fn' # "none" => at' \in 1..used',
           fn' \in {"none", "void", "value"},
           simple' \in 0..MaxSimple
    PROVE  TypeOK' /\ FramesOK'
<1>1. used' \in Nat /\ used' <= used'
  BY BoundsAssumption
<1>2. breakPoints' \in Seq(1..used')
  BY <1>1, Grows
<1>3. frames' \in Seq(Frame)
  <2>1. FrameUpTo(used') \subseteq Frame
    BY DEF FrameUpTo
  <2>2. QED
    BY ONLY <2>1, SeqMonotonic, frames' \in Seq(FrameUpTo(used'))
<1>4. QED
  BY <1>2, <1>3 DEF TypeOK, FramesOK

\* Every step keeps the types and what the waiting visitors hold.
LEMMA TypeStep == Inv /\ [Next]_vars => TypeOK' /\ FramesOK'
<1> SUFFICES ASSUME Inv, [Next]_vars PROVE TypeOK' /\ FramesOK'
  OBVIOUS
<1> USE BoundsAssumption
<1>0. /\ TypeOK /\ FramesOK
      /\ used \in Nat /\ used <= MaxBlock /\ MaxBlock \in Nat
      /\ Len(frames) \in Nat
  BY DEF Inv, TypeOK
<1>1. ASSUME NEW kind \in {"void", "value"}, BeginMethod(kind)
      PROVE  TypeOK' /\ FramesOK'
  <2>1. frames' = << >> /\ breakPoints' = << >>
    BY <1>1, NothingPending DEF BeginMethod
  <2>2. layout' \in Seq(1..used') /\ at' \in 1..used' /\ used' \in 1..MaxBlock
    BY <1>1 DEF BeginMethod
  <2>3. code' \in [Block -> Seq(Instr)] /\ simple' \in 0..MaxSimple
    BY <1>1 DEF BeginMethod
  <2>4. fn' \in {"void", "value"}
    BY <1>1 DEF BeginMethod
  <2>5. QED
    BY <2>1, <2>2, <2>3, <2>4 DEF TypeOK, FramesOK
<1>2. CASE EndMethod
  <2>1. at \in Block
    BY <1>0, <1>2 DEF EndMethod, FramesOK, Block
  <2>2. code' \in [Block -> Seq(Instr)]
    BY <1>0, <1>2, <2>1, Instructions, CloseFacts DEF EndMethod, TypeOK
  <2>3. QED
    BY <1>0, <1>2, <2>2 DEF EndMethod, TypeOK, FramesOK
<1>3. CASE BeginWhile
  <2> DEFINE cond == used + 1
             merge == used + 3
             f == [kind |-> "while", next |-> cond, merge |-> merge]
  <2>1. /\ used' = used + 3 /\ used' \in Nat /\ used <= used' /\ used' <= MaxBlock
        /\ at \in Block /\ at \in 1..used /\ at' = used + 2 /\ fn # "none"
        /\ cond \in Block /\ used + 2 \in Block /\ merge \in Block
    BY <1>0, <1>3 DEF BeginWhile, OpenWhile, FramesOK, Block
  <2>2. code' \in [Block -> Seq(Instr)]
    <3>1. Emit(code, at, Br(cond)) \in [Block -> Seq(Instr)]
      BY <1>0, <2>1, Instructions, EmitFacts DEF TypeOK
    <3>2. QED
      BY <1>3, <2>1, <3>1, Instructions, EmitFacts DEF BeginWhile, OpenWhile
  <2>3. layout' \in Seq(1..used')
    <3>1. layout \in Seq(1..used')
      BY <1>0, <2>1, Grows DEF TypeOK
    <3>2. <<used + 1, used + 2>> \in Seq(1..used')
      BY <1>0, <2>1
    <3>3. QED
      BY <1>3, <3>1, <3>2 DEF BeginWhile, OpenWhile
  <2>4. breakPoints' \in Seq(2..used')
    <3>1. breakPoints \in Seq(2..used') /\ merge \in 2..used'
      BY <1>0, <2>1, Grows DEF FramesOK
    <3>2. QED
      BY <1>3, <3>1 DEF BeginWhile, OpenWhile
  <2>5. frames' \in Seq(FrameUpTo(used'))
    <3>1. frames \in Seq(FrameUpTo(used'))
      BY <1>0, <2>1, Grows DEF FramesOK
    <3>2. f \in FrameUpTo(used')
      BY <1>0, <2>1 DEF FrameUpTo, Frame
    <3>3. QED
      BY <1>3, <3>1, <3>2 DEF BeginWhile, OpenWhile
  <2>6. /\ fn' # "none" /\ fn' \in {"void", "value"} /\ simple' \in 0..MaxSimple
        /\ at' \in 1..used' /\ at' \in 0..used' /\ used' \in 0..MaxBlock
    BY <1>0, <1>3, <2>1 DEF BeginWhile, OpenWhile, TypeOK
  <2>7. QED
    BY <2>2, <2>3, <2>4, <2>5, <2>6, KeepsTypes
<1>4. CASE EndWhile
  <2>1. /\ used' = used /\ fn' = fn /\ simple' = simple /\ frames # << >>
        /\ at \in Block /\ fn # "none"
    BY <1>0, <1>4 DEF EndWhile, CloseWhile, FramesOK, Block
  <2>2. /\ Top(frames) \in FrameUpTo(used) /\ Pop(frames) \in Seq(FrameUpTo(used))
        /\ Top(frames).next \in Block /\ Top(frames).merge \in 2..used
    <3>1. Top(frames) \in FrameUpTo(used) /\ Pop(frames) \in Seq(FrameUpTo(used))
      BY <1>0, <2>1, PopFacts DEF FramesOK
    <3>2. QED
      BY <1>0, <1>4, <3>1 DEF EndWhile, CloseWhile, FrameUpTo, Block
  <2>3. code' \in [Block -> Seq(Instr)]
    BY <1>0, <1>4, <2>1, <2>2, Instructions, CloseFacts DEF EndWhile, CloseWhile, TypeOK
  <2>4. layout' \in Seq(1..used')
    BY <1>0, <1>4, <2>1, <2>2 DEF EndWhile, CloseWhile, TypeOK
  <2>5. breakPoints' \in Seq(2..used')
    BY <1>0, <1>4, <2>1, PopFacts, PopEmpty DEF EndWhile, CloseWhile, FramesOK
  <2>6. frames' \in Seq(FrameUpTo(used')) /\ at' \in 1..used'
    BY <1>0, <1>4, <2>1, <2>2 DEF EndWhile, CloseWhile
  <2>7. /\ fn' \in {"none", "void", "value"} /\ fn' # "none"
        /\ simple' \in 0..MaxSimple /\ at' \in 0..used' /\ used' \in 0..MaxBlock
    BY <1>0, <2>1, <2>6 DEF TypeOK
  <2>8. QED
    BY <2>3, <2>4, <2>5, <2>6, <2>7, KeepsTypes
<1>5. CASE BeginIf
  <2> DEFINE then == used + 1
             else == used + 2
             merge == used + 3
             f == [kind |-> "then", next |-> else, merge |-> merge]
  <2>1. /\ used' = used + 3 /\ used' \in Nat /\ used <= used' /\ used' <= MaxBlock
        /\ at \in Block /\ at \in 1..used /\ at' = used + 1 /\ fn # "none"
        /\ then \in Block /\ else \in Block /\ merge \in Block
    BY <1>0, <1>5 DEF BeginIf, OpenIf, FramesOK, Block
  <2>2. code' \in [Block -> Seq(Instr)]
    BY <1>0, <1>5, <2>1, Instructions, EmitFacts DEF BeginIf, OpenIf, TypeOK
  <2>3. layout' \in Seq(1..used')
    <3>1. layout \in Seq(1..used') /\ then \in 1..used'
      BY <1>0, <2>1, Grows DEF TypeOK
    <3>2. QED
      BY <1>5, <3>1 DEF BeginIf, OpenIf
  <2>4. breakPoints' \in Seq(2..used')
    BY <1>0, <1>5, <2>1, Grows DEF BeginIf, OpenIf, FramesOK
  <2>5. frames' \in Seq(FrameUpTo(used'))
    <3>1. frames \in Seq(FrameUpTo(used'))
      BY <1>0, <2>1, Grows DEF FramesOK
    <3>2. f \in FrameUpTo(used')
      BY <1>0, <2>1 DEF FrameUpTo, Frame
    <3>3. QED
      BY <1>5, <3>1, <3>2 DEF BeginIf, OpenIf
  <2>6. /\ fn' # "none" /\ fn' \in {"void", "value"} /\ simple' \in 0..MaxSimple
        /\ at' \in 1..used' /\ at' \in 0..used' /\ used' \in 0..MaxBlock
    BY <1>0, <1>5, <2>1 DEF BeginIf, OpenIf, TypeOK
  <2>7. QED
    BY <2>2, <2>3, <2>4, <2>5, <2>6, KeepsTypes
<1>6. CASE BeginElse
  <2> DEFINE f == [kind |-> "else", next |-> 0, merge |-> Top(frames).merge]
  <2>1. /\ used' = used /\ fn' = fn /\ simple' = simple /\ frames # << >>
        /\ at \in Block /\ fn # "none" /\ breakPoints' = breakPoints
    BY <1>0, <1>6 DEF BeginElse, FramesOK, Block
  <2>2. /\ Top(frames) \in FrameUpTo(used) /\ Len(frames) \in 1..Len(frames)
        /\ Top(frames) = frames[Len(frames)]
    BY <1>0, <2>1, PopFacts DEF FramesOK
  <2>3. Top(frames).next \in 2..used /\ Top(frames).merge \in 2..used
        /\ Top(frames).merge \in Block /\ f \in FrameUpTo(used)
    BY <1>0, <1>6, <2>2 DEF BeginElse, FrameUpTo, Frame, Block
  <2>4. code' \in [Block -> Seq(Instr)]
    BY <1>0, <1>6, <2>1, <2>3, Instructions, CloseFacts DEF BeginElse, TypeOK
  <2>5. layout' \in Seq(1..used')
    BY <1>0, <1>6, <2>1, <2>3 DEF BeginElse, TypeOK
  <2>6. frames' \in Seq(FrameUpTo(used'))
    <3>1. frames' = [frames EXCEPT ![Len(frames)] = f]
      BY <1>6, <2>2 DEF BeginElse
    <3>2. frames \in Seq(FrameUpTo(used)) /\ f \in FrameUpTo(used)
      BY <1>0, <2>3 DEF FramesOK
    <3> HIDE DEF f
    <3>3. [frames EXCEPT ![Len(frames)] = f] \in Seq(FrameUpTo(used))
      BY ONLY <2>2, <3>2, ExceptSeq
    <3>4. QED
      BY <2>1, <3>1, <3>3
  <2>7. /\ fn' \in {"none", "void", "value"} /\ fn' # "none" /\ at' \in 1..used'
        /\ simple' \in 0..MaxSimple /\ at' \in 0..used' /\ used' \in 0..MaxBlock
    <3>1. at' \in 1..used' /\ at' \in 0..used'
      BY <1>0, <1>6, <2>1, <2>3 DEF BeginElse
    <3>2. /\ fn \in {"none", "void", "value"} /\ simple \in 0..MaxSimple
          /\ used \in 0..MaxBlock
      BY <1>0 DEF TypeOK
    <3>3. QED
      BY <2>1, <3>1, <3>2
  <2>8. breakPoints' \in Seq(2..used')
    BY <1>0, <2>1 DEF FramesOK
  <2>9. QED
    BY <2>4, <2>5, <2>6, <2>7, <2>8, KeepsTypes
<1>7. CASE EndIfWithoutElse
  <2>1. /\ used' = used /\ fn' = fn /\ simple' = simple /\ frames # << >>
        /\ at \in Block /\ fn # "none" /\ breakPoints' = breakPoints
    BY <1>0, <1>7 DEF EndIfWithoutElse, CloseIf, FramesOK, Block
  <2>2. Top(frames) \in FrameUpTo(used) /\ Pop(frames) \in Seq(FrameUpTo(used))
    BY <1>0, <2>1, PopFacts DEF FramesOK
  <2>3. /\ Top(frames).next \in 2..used /\ Top(frames).merge \in 2..used
        /\ Top(frames).next \in Block /\ Top(frames).merge \in Block
    BY <1>0, <1>7, <2>2 DEF EndIfWithoutElse, CloseIf, FrameUpTo, Block
  <2>4. code' \in [Block -> Seq(Instr)]
    <3> DEFINE c == CloseWith(code, at, Br(Top(frames).merge))
    <3>1. c \in [Block -> Seq(Instr)]
      BY <1>0, <2>1, <2>3, Instructions, CloseFacts DEF TypeOK
    <3>2. code' = CloseWith(c, Top(frames).next, Br(Top(frames).merge))
      BY <1>7 DEF EndIfWithoutElse, CloseIf
    <3> HIDE DEF c
    <3>3. QED
      BY <2>3, <3>1, <3>2, Instructions, CloseFacts
  <2>5. layout' \in Seq(1..used')
    <3>1. <<Top(frames).next, Top(frames).merge>> \in Seq(1..used)
      BY <1>0, <2>3
    <3>2. QED
      BY <1>0, <1>7, <2>1, <3>1 DEF EndIfWithoutElse, CloseIf, TypeOK
  <2>6. frames' \in Seq(FrameUpTo(used')) /\ at' \in 1..used'
    BY <1>0, <1>7, <2>1, <2>2, <2>3 DEF EndIfWithoutElse, CloseIf
  <2>7. /\ fn' \in {"none", "void", "value"} /\ fn' # "none"
        /\ simple' \in 0..MaxSimple /\ at' \in 0..used' /\ used' \in 0..MaxBlock
    BY <1>0, <2>1, <2>6 DEF TypeOK
  <2>8. breakPoints' \in Seq(2..used')
    BY <1>0, <2>1 DEF FramesOK
  <2>9. QED
    BY <2>4, <2>5, <2>6, <2>7, <2>8, KeepsTypes
<1>8. CASE EndElse
  <2>1. /\ used' = used /\ fn' = fn /\ simple' = simple /\ frames # << >>
        /\ at \in Block /\ fn # "none" /\ breakPoints' = breakPoints
    BY <1>0, <1>8 DEF EndElse, CloseIf, FramesOK, Block
  <2>2. /\ Top(frames) \in FrameUpTo(used) /\ Pop(frames) \in Seq(FrameUpTo(used))
        /\ Top(frames).merge \in 2..used /\ Top(frames).merge \in Block
    <3>1. Top(frames) \in FrameUpTo(used) /\ Pop(frames) \in Seq(FrameUpTo(used))
      BY <1>0, <2>1, PopFacts DEF FramesOK
    <3>2. QED
      BY <1>0, <3>1 DEF FrameUpTo, Block
  <2>3. code' \in [Block -> Seq(Instr)]
    BY <1>0, <1>8, <2>1, <2>2, Instructions, CloseFacts DEF EndElse, CloseIf, TypeOK
  <2>4. layout' \in Seq(1..used')
    BY <1>0, <1>8, <2>1, <2>2 DEF EndElse, CloseIf, TypeOK
  <2>5. frames' \in Seq(FrameUpTo(used')) /\ at' \in 1..used'
    BY <1>0, <1>8, <2>1, <2>2 DEF EndElse, CloseIf
  <2>6. /\ fn' \in {"none", "void", "value"} /\ fn' # "none"
        /\ simple' \in 0..MaxSimple /\ at' \in 0..used' /\ used' \in 0..MaxBlock
    BY <1>0, <2>1, <2>5 DEF TypeOK
  <2>7. breakPoints' \in Seq(2..used')
    BY <1>0, <2>1 DEF FramesOK
  <2>8. QED
    BY <2>3, <2>4, <2>5, <2>6, <2>7, KeepsTypes
<1>9. ASSUME NEW i \in Instr, Put(i)
      PROVE  TypeOK' /\ FramesOK'
  <2>1. at \in Block
    BY <1>0, <1>9 DEF Put, FramesOK, Block
  <2>2. code' \in [Block -> Seq(Instr)]
    BY <1>0, <1>9, <2>1, EmitFacts DEF Put, TypeOK
  <2>3. simple' \in 0..MaxSimple
    BY <1>0, <1>9 DEF Put, TypeOK
  <2>4. QED
    BY <1>0, <1>9, <2>2, <2>3 DEF Put, TypeOK, FramesOK
<1>10. CASE Simple \/ Return
  BY <1>9, <1>10, Instructions DEF Simple, Return
<1>11. CASE Break
  <2>1. Top(breakPoints) \in Block
    <3>1. Top(breakPoints) \in 2..used
      BY <1>0, <1>11, PopFacts DEF Break, FramesOK
    <3>2. QED
      BY <1>0, <3>1 DEF Block
  <2>2. QED
    BY <1>9, <1>11, <2>1, Instructions DEF Break
<1>12. CASE UNCHANGED vars
  BY <1>0, <1>12 DEF vars, TypeOK, FramesOK
<1>13. QED
  BY <1>1, <1>2, <1>3, <1>4, <1>5, <1>6, <1>7, <1>8, <1>10, <1>11, <1>12 DEF Next

\* The map when a loop is opened, ...
LEMMA PushLoop ==
    ASSUME NEW h, NEW bs \in Seq(Nat), NEW fs \in Seq(Frame), LoopMap(h, bs, fs),
           NEW f \in Frame, f.kind = "while"
    PROVE  \E g : LoopMap(g, Append(bs, f.merge), Append(fs, f))
<1> DEFINE m == Len(bs)
           n == Len(fs)
           g == [k \in 1..(m + 1) |-> IF k <= m THEN h[k] ELSE n + 1]
           bs2 == Append(bs, f.merge)
           fs2 == Append(fs, f)
<1>1. /\ m \in Nat /\ n \in Nat
      /\ Len(bs2) = m + 1 /\ Len(fs2) = n + 1
      /\ \A k \in 1..m : bs2[k] = bs[k]
      /\ \A i \in 1..n : fs2[i] = fs[i]
      /\ bs2[m + 1] = f.merge /\ fs2[n + 1] = f
  BY DEF Frame
<1>2. /\ h \in [1..m -> 1..n]
      /\ \A k \in 1..m : fs[h[k]].kind = "while" /\ bs[k] = fs[h[k]].merge
      /\ \A k, l \in 1..m : k < l => h[k] < h[l]
      /\ \A i \in 1..n : fs[i].kind = "while" => \E k \in 1..m : h[k] = i
  BY DEF LoopMap
<1> HIDE DEF m, n, bs2, fs2
<1>3. g \in [1..(m + 1) -> 1..(n + 1)]
  BY <1>1, <1>2
<1>4. \A k \in 1..m : g[k] = h[k] /\ g[k] \in 1..n
  BY <1>1, <1>2
<1>5. g[m + 1] = n + 1
  BY <1>1
<1> HIDE DEF g
<1>6. \A k \in 1..(m + 1) : k \in 1..m \/ k = m + 1
  BY <1>1
<1>7. ASSUME NEW k \in 1..(m + 1)
      PROVE  fs2[g[k]].kind = "while" /\ bs2[k] = fs2[g[k]].merge
  <2>1. CASE k \in 1..m
    <3>1. g[k] = h[k] /\ fs2[g[k]] = fs[h[k]] /\ bs2[k] = bs[k]
      BY <1>1, <1>4, <2>1
    <3>2. QED
      BY <1>2, <2>1, <3>1
  <2>2. CASE k = m + 1
    BY <1>1, <1>5, <2>2
  <2>3. QED
    BY <1>6, <2>1, <2>2
<1>8. ASSUME NEW k \in 1..(m + 1), NEW l \in 1..(m + 1), k < l
      PROVE  g[k] < g[l]
  <2>1. k \in 1..m /\ g[k] = h[k] /\ g[k] \in 1..n
    BY <1>1, <1>4, <1>8
  <2>2. CASE l \in 1..m
    <3>1. g[l] = h[l] /\ h[k] < h[l]
      BY <1>2, <1>4, <1>8, <2>1, <2>2
    <3>2. QED
      BY <2>1, <3>1
  <2>3. CASE l = m + 1
    BY <1>1, <1>5, <2>1, <2>3
  <2>4. QED
    BY <1>6, <2>2, <2>3
<1>9. ASSUME NEW i \in 1..(n + 1), fs2[i].kind = "while"
      PROVE  \E k \in 1..(m + 1) : g[k] = i
  <2>1. CASE i \in 1..n
    <3>1. PICK k \in 1..m : h[k] = i
      BY <1>1, <1>2, <1>9, <2>1
    <3>2. k \in 1..(m + 1) /\ g[k] = i
      BY <1>1, <1>4, <3>1
    <3>3. QED
      BY <3>2
  <2>2. CASE i = n + 1
    <3>1. m + 1 \in 1..(m + 1)
      BY <1>1
    <3>2. QED
      BY <1>5, <2>2, <3>1
  <2>3. QED
    BY <1>1, <2>1, <2>2
<1>10. LoopMap(g, bs2, fs2)
  BY <1>1, <1>3, <1>7, <1>8, <1>9 DEF LoopMap
<1>11. QED
  BY <1>10 DEF bs2, fs2

\* ... when it is closed, ...
LEMMA PopLoop ==
    ASSUME NEW h, NEW bs \in Seq(Nat), NEW fs \in Seq(Frame), LoopMap(h, bs, fs),
           fs # << >>, Top(fs).kind = "while"
    PROVE  \E g : LoopMap(g, Pop(bs), Pop(fs))
<1> DEFINE m == Len(bs)
           n == Len(fs)
           g == [k \in 1..(m - 1) |-> h[k]]
<1>1. m \in Nat \ {0} /\ n \in Nat \ {0} /\ h[m] = n
  BY LastLoop
<1>2. /\ Len(Pop(bs)) = m - 1 /\ Len(Pop(fs)) = n - 1
      /\ \A k \in 1..(m - 1) : Pop(bs)[k] = bs[k]
      /\ \A i \in 1..(n - 1) : Pop(fs)[i] = fs[i]
  <2>1. bs # << >>
    BY <1>1
  <2>2. QED
    BY <2>1, PopFacts
<1>3. /\ h \in [1..m -> 1..n]
      /\ \A k \in 1..m : fs[h[k]].kind = "while" /\ bs[k] = fs[h[k]].merge
      /\ \A k, l \in 1..m : k < l => h[k] < h[l]
      /\ \A i \in 1..n : fs[i].kind = "while" => \E k \in 1..m : h[k] = i
  BY DEF LoopMap
<1> HIDE DEF m, n
<1>4. \A k \in 1..(m - 1) : h[k] \in 1..(n - 1)
  <2>1. \A k \in 1..(m - 1) : k \in 1..m /\ m \in 1..m /\ k < m
    BY <1>1
  <2>2. \A k \in 1..(m - 1) : h[k] < n /\ h[k] \in 1..n
    BY <1>1, <1>3, <2>1
  <2>3. QED
    BY <1>1, <2>2
<1>5. g \in [1..(m - 1) -> 1..(n - 1)] /\ \A k \in 1..(m - 1) : g[k] = h[k]
  BY <1>4
<1> HIDE DEF g
<1>6. ASSUME NEW k \in 1..(m - 1)
      PROVE  Pop(fs)[g[k]].kind = "while" /\ Pop(bs)[k] = Pop(fs)[g[k]].merge
  <2>1. g[k] = h[k] /\ h[k] \in 1..(n - 1) /\ k \in 1..m
    BY <1>1, <1>4, <1>5
  <2>2. Pop(fs)[g[k]] = fs[h[k]] /\ Pop(bs)[k] = bs[k]
    BY <1>2, <2>1
  <2>3. QED
    BY <1>3, <2>1, <2>2
<1>7. \A k, l \in 1..(m - 1) : k < l => g[k] < g[l]
  BY <1>1, <1>3, <1>5
<1>8. ASSUME NEW i \in 1..(n - 1), Pop(fs)[i].kind = "while"
      PROVE  \E k \in 1..(m - 1) : g[k] = i
  <2>1. i \in 1..n /\ fs[i].kind = "while" /\ i < n
    BY <1>1, <1>2, <1>8
  <2>2. PICK k \in 1..m : h[k] = i
    BY <1>3, <2>1
  <2>3. k \in 1..(m - 1)
    BY <1>1, <2>1, <2>2
  <2>4. QED
    BY <1>5, <2>2, <2>3
<1>9. LoopMap(g, Pop(bs), Pop(fs))
  BY <1>2, <1>5, <1>6, <1>7, <1>8 DEF LoopMap
<1>10. QED
  BY <1>9

\* ... when an if is opened, ...
LEMMA PushIf ==
    ASSUME NEW h, NEW bs \in Seq(Nat), NEW fs \in Seq(Frame), LoopMap(h, bs, fs),
           NEW f \in Frame, f.kind # "while"
    PROVE  LoopMap(h, bs, Append(fs, f))
<1> DEFINE m == Len(bs)
           n == Len(fs)
           fs2 == Append(fs, f)
<1>1. /\ m \in Nat /\ n \in Nat /\ Len(fs2) = n + 1
      /\ \A i \in 1..n : fs2[i] = fs[i]
      /\ fs2[n + 1] = f
  OBVIOUS
<1>2. /\ h \in [1..m -> 1..n]
      /\ \A k \in 1..m : fs[h[k]].kind = "while" /\ bs[k] = fs[h[k]].merge
      /\ \A k, l \in 1..m : k < l => h[k] < h[l]
      /\ \A i \in 1..n : fs[i].kind = "while" => \E k \in 1..m : h[k] = i
  BY DEF LoopMap
<1> HIDE DEF n, fs2
<1>3. h \in [1..m -> 1..(n + 1)]
  BY <1>1, <1>2
<1>4. \A k \in 1..m : fs2[h[k]].kind = "while" /\ bs[k] = fs2[h[k]].merge
  BY <1>1, <1>2
<1>5. \A i \in 1..(n + 1) : fs2[i].kind = "while" => \E k \in 1..m : h[k] = i
  BY <1>1, <1>2
<1>6. QED
  BY <1>1, <1>2, <1>3, <1>4, <1>5 DEF LoopMap, fs2

\* ... when it goes on to its else statement, ...
LEMMA ReplaceIf ==
    ASSUME NEW h, NEW bs \in Seq(Nat), NEW fs \in Seq(Frame), LoopMap(h, bs, fs),
           fs # << >>, Top(fs).kind # "while", NEW f \in Frame, f.kind # "while"
    PROVE  LoopMap(h, bs, [fs EXCEPT ![Len(fs)] = f])
<1> DEFINE n == Len(fs)
           fs2 == [fs EXCEPT ![n] = f]
<1>1. /\ n \in 1..n /\ Len(fs2) = n
      /\ \A i \in 1..n : fs2[i] = IF i = n THEN f ELSE fs[i]
  <2>1. n \in 1..n
    OBVIOUS
  <2>2. QED
    BY <2>1, ExceptSeq
<1>2. fs[n].kind # "while"
  BY DEF Top
<1> HIDE DEF fs2
<1>3. \A k \in 1..Len(bs) : h[k] \in 1..n /\ h[k] # n
  BY <1>2 DEF LoopMap
<1>4. /\ h \in [1..Len(bs) -> 1..Len(fs2)]
      /\ \A k, l \in 1..Len(bs) : k < l => h[k] < h[l]
  BY <1>1 DEF LoopMap
<1>5. \A k \in 1..Len(bs) : fs2[h[k]].kind = "while" /\ bs[k] = fs2[h[k]].merge
  BY <1>1, <1>3 DEF LoopMap
<1>6. ASSUME NEW i \in 1..Len(fs2), fs2[i].kind = "while"
      PROVE  \E k \in 1..Len(bs) : h[k] = i
  <2>1. i \in 1..n /\ fs[i].kind = "while"
    BY <1>1, <1>6
  <2>2. QED
    BY <2>1 DEF LoopMap
<1>7. LoopMap(h, bs, fs2)
  BY <1>4, <1>5, <1>6 DEF LoopMap
<1>8. QED
  BY <1>7 DEF fs2

\* ... and when it is closed.
LEMMA PopIf ==
    ASSUME NEW h, NEW bs \in Seq(Nat), NEW fs \in Seq(Frame), LoopMap(h, bs, fs),
           fs # << >>, Top(fs).kind # "while"
    PROVE  LoopMap(h, bs, Pop(fs))
<1> DEFINE n == Len(fs)
<1>1. /\ n \in Nat \ {0} /\ Len(Pop(fs)) = n - 1 /\ fs[n].kind # "while"
      /\ \A i \in 1..(n - 1) : Pop(fs)[i] = fs[i]
  BY PopFacts DEF Top
<1>2. \A k \in 1..Len(bs) : h[k] \in 1..n /\ h[k] # n
  BY <1>1 DEF LoopMap
<1> HIDE DEF n
<1>3. \A k \in 1..Len(bs) : h[k] \in 1..(n - 1)
  BY <1>1, <1>2
<1>4. h \in [1..Len(bs) -> 1..Len(Pop(fs))]
  BY <1>1, <1>3 DEF LoopMap
<1>5. \A k \in 1..Len(bs) : /\ Pop(fs)[h[k]].kind = "while"
                            /\ bs[k] = Pop(fs)[h[k]].merge
  BY <1>1, <1>3 DEF LoopMap
<1>6. ASSUME NEW i \in 1..Len(Pop(fs)), Pop(fs)[i].kind = "while"
      PROVE  \E k \in 1..Len(bs) : h[k] = i
  <2>1. i \in 1..n /\ fs[i].kind = "while"
    BY <1>1, <1>6
  <2>2. QED
    BY <2>1 DEF LoopMap, n
<1>7. QED
  BY <1>4, <1>5, <1>6 DEF LoopMap

\* Every step keeps the break points those of the open loops.
LEMMA LoopsStep == Inv /\ [Next]_vars => LoopsMatch'
<1> SUFFICES ASSUME Inv, [Next]_vars PROVE LoopsMatch'
  OBVIOUS
<1> USE BoundsAssumption
<1>1. PICK h : LoopMap(h, breakPoints, frames)
  BY DEF Inv, LoopsMatch
<1>2. /\ used \in Nat /\ used <= MaxBlock /\ MaxBlock \in Nat
      /\ breakPoints \in Seq(Nat) /\ frames \in Seq(Frame)
  <2>1. breakPoints \in Seq(2..used) /\ frames \in Seq(Frame) /\ used \in 0..MaxBlock
    BY DEF Inv, TypeOK, FramesOK
  <2>2. 2..used \subseteq Nat
    BY <2>1
  <2>3. breakPoints \in Seq(Nat)
    BY ONLY <2>1, <2>2, SeqMonotonic
  <2>4. QED
    BY <2>1, <2>3
<1>3. ASSUME frames # << >>
      PROVE  Top(frames) \in Frame
  BY <1>2, <1>3, PopFacts
<1>4. ASSUME NEW kind \in {"void", "value"}, BeginMethod(kind)
      PROVE  LoopsMatch'
  BY <1>4, NothingPending, NoLoops DEF BeginMethod, LoopsMatch
<1>5. ASSUME UNCHANGED <<breakPoints, frames>>
      PROVE  LoopsMatch'
  BY <1>1, <1>5 DEF LoopsMatch
<1>6. CASE BeginWhile
  <2> DEFINE f == [kind |-> "while", next |-> used + 1, merge |-> used + 3]
  <2>1. f \in Frame /\ f.kind = "while" /\ f.merge = used + 3
    BY <1>2, <1>6 DEF BeginWhile, OpenWhile, Frame, Block
  <2>2. breakPoints' = Append(breakPoints, f.merge) /\ frames' = Append(frames, f)
    BY <1>6 DEF BeginWhile, OpenWhile
  <2> HIDE DEF f
  <2>3. \E g : LoopMap(g, Append(breakPoints, f.merge), Append(frames, f))
    BY <1>1, <1>2, <2>1, PushLoop
  <2>4. QED
    BY <2>2, <2>3 DEF LoopsMatch
<1>7. CASE EndWhile
  <2>1. \E g : LoopMap(g, Pop(breakPoints), Pop(frames))
    BY <1>1, <1>2, <1>7, PopLoop DEF EndWhile, CloseWhile
  <2>2. QED
    BY <1>7, <2>1 DEF EndWhile, CloseWhile, LoopsMatch
<1>8. CASE BeginIf
  <2> DEFINE f == [kind |-> "then", next |-> used + 2, merge |-> used + 3]
  <2>1. f \in Frame /\ f.kind # "while"
    BY <1>2, <1>8 DEF BeginIf, OpenIf, Frame, Block
  <2>2. breakPoints' = breakPoints /\ frames' = Append(frames, f)
    BY <1>8 DEF BeginIf, OpenIf
  <2> HIDE DEF f
  <2>3. LoopMap(h, breakPoints, Append(frames, f))
    BY <1>1, <1>2, <2>1, PushIf
  <2>4. QED
    BY <2>2, <2>3 DEF LoopsMatch
<1>9. CASE BeginElse
  <2> DEFINE f == [kind |-> "else", next |-> 0, merge |-> Top(frames).merge]
  <2>1. f \in Frame /\ f.kind # "while" /\ frames # << >> /\ Top(frames).kind # "while"
    BY <1>2, <1>3, <1>9 DEF BeginElse, Frame, Block
  <2>2. breakPoints' = breakPoints /\ frames' = [frames EXCEPT ![Len(frames)] = f]
    BY <1>9 DEF BeginElse, Top
  <2> HIDE DEF f
  <2>3. LoopMap(h, breakPoints, [frames EXCEPT ![Len(frames)] = f])
    BY <1>1, <1>2, <2>1, ReplaceIf
  <2>4. QED
    BY <2>2, <2>3 DEF LoopsMatch
<1>10. CASE EndIfWithoutElse \/ EndElse
  <2>1. /\ frames # << >> /\ Top(frames).kind # "while"
        /\ breakPoints' = breakPoints /\ frames' = Pop(frames)
    BY <1>10 DEF EndIfWithoutElse, CloseIf, EndElse
  <2>2. LoopMap(h, breakPoints, Pop(frames))
    BY <1>1, <1>2, <2>1, PopIf
  <2>3. QED
    BY <2>1, <2>2 DEF LoopsMatch
<1>11. CASE EndMethod \/ Simple \/ Break \/ Return \/ UNCHANGED vars
  BY <1>5, <1>11 DEF EndMethod, Simple, Break, Return, Put, vars
<1>12. QED
  BY <1>4, <1>6, <1>7, <1>8, <1>9, <1>10, <1>11 DEF Next

\* The inductive invariant holds in every reachable state.
THEOREM InvInvariant == Spec => []Inv
<1>1. Inv /\ [Next]_vars => Inv'
  BY TypeStep, LoopsStep DEF Inv
<1>2. QED
  BY InitInv, <1>1, PTL DEF Spec

\* Type correctness of the block generator: the insertion point, the block
\* list and the branches never name a block that has not been created.
THEOREM TypeCorrect == Spec => []TypeOK
<1>1. Inv => TypeOK
  BY DEF Inv
<1>2. QED
  BY InvInvariant, <1>1, PTL

\* break leaves the innermost open loop, for methods of any length and
\* nesting of any depth.
THEOREM InnermostBreakInvariant == Spec => []InnermostBreak
<1>1. ASSUME Inv PROVE InnermostBreak
  <2>1. PICK h : LoopMap(h, breakPoints, frames)
    BY <1>1 DEF Inv, LoopsMatch
  <2>2. Len(breakPoints) \in Nat /\ Len(frames) \in Nat
    BY <1>1 DEF Inv, TypeOK
  <2>3. ASSUME \A i \in 1..Len(frames) : frames[i].kind # "while"
        PROVE  breakPoints = << >>
    <3>1. ~(1 \in 1..Len(breakPoints))
      BY <2>1, <2>3 DEF LoopMap
    <3>2. Len(breakPoints) = 0
      BY <2>2, <3>1
    <3>3. QED
      BY <1>1, <3>2 DEF Inv, TypeOK
  <2>4. ASSUME NEW i \in 1..Len(frames), frames[i].kind = "while",
               \A j \in (i + 1)..Len(frames) : frames[j].kind # "while"
        PROVE  breakPoints # << >> /\ Top(breakPoints) = frames[i].merge
    <3> DEFINE m == Len(breakPoints)
    <3>1. PICK k \in 1..m : h[k] = i
      BY <2>1, <2>4 DEF LoopMap
    <3>2. m \in 1..m
      BY <2>2, <3>1
    <3>3. h[m] \in 1..Len(frames) /\ frames[h[m]].kind = "while"
      BY <2>1, <3>2 DEF LoopMap
    <3>4. ~(h[m] \in (i + 1)..Len(frames))
      BY <2>4, <3>3
    <3>5. k < m => i < h[m]
      BY <2>1, <3>1, <3>2 DEF LoopMap
    <3>6. k = m
      BY <2>2, <3>1, <3>2, <3>3, <3>4, <3>5
    <3>7. breakPoints[m] = frames[i].merge
      BY <2>1, <3>1, <3>2, <3>6 DEF LoopMap
    <3>8. QED
      BY <3>2, <3>7 DEF Top
  <2>5. QED
    BY <2>3, <2>4 DEF InnermostBreak
<1>2. QED
  BY InvInvariant, <1>1, PTL

-----------------------------------------------------------------------------
(* Terminators.                                                            *)

\* Blocks that were terminated before an emission are so after it, if what
\* is emitted is a terminator.
LEMMA StaysTerminated ==
    ASSUME NEW c \in [Block -> Seq(Instr)], NEW b \in Block, NEW i \in Instr,
           IsTerminator(i), NEW d \in Block, Terminated(c, d) \/ d = b
    PROVE  Terminated(Emit(c, b, i), d) /\ Terminated(CloseWith(c, b, i), d)
BY EmitTerminates, CloseFacts

\* What blocks are in the list when one is, or two are, added to it.
LEMMA AttachOne ==
    ASSUME layout \in Seq(Nat), NEW b \in Nat, layout' = Append(layout, b)
    PROVE  Attached' = Attached \cup {b}
<1> DEFINE n == Len(layout)
<1>1. /\ n \in Nat /\ Len(layout') = n + 1 /\ layout'[n + 1] = b
      /\ \A i \in 1..n : layout'[i] = layout[i]
  OBVIOUS
<1>2. 1..(n + 1) = 1..n \cup {n + 1}
  BY <1>1
<1> HIDE DEF n
<1>3. {layout'[i] : i \in 1..(n + 1)} = {layout[i] : i \in 1..n} \cup {b}
  BY <1>1, <1>2
<1>4. QED
  BY <1>1, <1>3 DEF Attached, n

LEMMA AttachTwo ==
    ASSUME layout \in Seq(Nat), NEW a \in Nat, NEW b \in Nat,
           layout' = layout \o <<a, b>>
    PROVE  Attached' = Attached \cup {a, b}
<1> DEFINE n == Len(layout)
<1>1. /\ n \in Nat /\ Len(layout') = n + 2
      /\ layout'[n + 1] = a /\ layout'[n + 2] = b
      /\ \A i \in 1..n : layout'[i] = layout[i]
  OBVIOUS
<1>2. 1..(n + 2) = 1..n \cup {n + 1, n + 2}
  BY <1>1
<1> HIDE DEF n
<1>3. {layout'[i] : i \in 1..(n + 2)} = {layout[i] : i \in 1..n} \cup {a, b}
  <2>1. \A i \in 1..(n + 2) : layout'[i] \in {layout[j] : j \in 1..n} \cup {a, b}
    BY <1>1, <1>2
  <2>2. \A i \in 1..n : layout[i] \in {layout'[j] : j \in 1..(n + 2)}
    BY <1>1, <1>2
  <2>3. {a, b} \subseteq {layout'[j] : j \in 1..(n + 2)}
    BY <1>1, <1>2
  <2>4. QED
    BY <2>1, <2>2, <2>3
<1>4. QED
  BY <1>1, <1>3 DEF Attached, n

\* The blocks of the waiting visitor on top of the stack.
LEMMA TopFrame ==
    ASSUME Inv, frames # << >>
    PROVE  /\ Top(frames).merge \in 2..used /\ Top(frames).merge \in Block
           /\ Top(frames).kind # "else" =>
                Top(frames).next \in 2..used /\ Top(frames).next \in Block
           /\ fn # "none" /\ at \in 1..used /\ at \in Block
           /\ Len(frames) \in 1..Len(frames) /\ Top(frames) = frames[Len(frames)]
<1>1. frames \in Seq(FrameUpTo(used)) /\ used \in 0..MaxBlock
  BY DEF Inv, TypeOK, FramesOK
<1>2. Top(frames) \in FrameUpTo(used) /\ Len(frames) \in Nat \ {0}
  BY <1>1, PopFacts
<1>3. fn # "none" /\ at \in 1..used
  BY DEF Inv, FramesOK
<1>4. QED
  BY <1>1, <1>2, <1>3, BoundsAssumption DEF FrameUpTo, Block, Top

\* Every step keeps the attached blocks terminated.
LEMMA TerminatedStep ==
    Inv /\ BlocksTerminated /\ [Next]_vars => BlocksTerminated'
<1> SUFFICES ASSUME Inv, BlocksTerminated, [Next]_vars PROVE BlocksTerminated'
  OBVIOUS
<1> USE BoundsAssumption
<1>0. /\ TypeOK /\ FramesOK /\ used \in Nat /\ used <= MaxBlock /\ MaxBlock \in Nat
      /\ code \in [Block -> Seq(Instr)] /\ layout \in Seq(1..used)
      /\ 1..used \subseteq Block /\ Attached \subseteq Block
  <2>1. /\ TypeOK /\ FramesOK /\ used \in Nat /\ used <= MaxBlock /\ MaxBlock \in Nat
        /\ code \in [Block -> Seq(Instr)] /\ layout \in Seq(1..used)
    BY DEF Inv, TypeOK
  <2>2. 1..used \subseteq Block
    BY <2>1 DEF Block
  <2>3. Attached \subseteq 1..used
    BY <2>1 DEF Attached
  <2>4. QED
    BY <2>1, <2>2, <2>3
<1>1. ASSUME NEW kind \in {"void", "value"}, BeginMethod(kind)
      PROVE  BlocksTerminated'
  <2>1. Attached' = {1} /\ fn' # "none" /\ at' = 1
    BY <1>1 DEF BeginMethod, Attached
  <2>2. QED
    BY <2>1 DEF BlocksTerminated
<1>2. ASSUME NEW i \in Instr, IsTerminator(i), fn # "none"
      PROVE  \A d \in Attached : /\ Terminated(Emit(code, at, i), d)
                                 /\ Terminated(CloseWith(code, at, i), d)
  <2>1. at \in Block
    BY <1>0, <1>2 DEF FramesOK
  <2>2. \A d \in Attached : Terminated(code, d) \/ d = at
    BY DEF BlocksTerminated
  <2>3. QED
    BY <1>0, <1>2, <2>1, <2>2, StaysTerminated
<1>3. layout \in Seq(Nat)
  <2>1. 1..used \subseteq Nat
    BY <1>0
  <2>2. QED
    BY ONLY <1>0, <2>1, SeqMonotonic
<1>4. CASE EndMethod
  <2>1. Attached' = Attached /\ fn # "none"
    BY <1>4 DEF EndMethod, Attached
  <2>2. PICK i \in {Ret, RetSlot} : code' = CloseWith(code, at, i)
    BY <1>4 DEF EndMethod
  <2>3. QED
    BY <1>2, <2>1, <2>2, Instructions DEF BlocksTerminated
<1>5. CASE BeginWhile
  <2> DEFINE cond == used + 1
             loop == used + 2
             c == Emit(code, at, Br(cond))
             i == CondBr(loop, used + 3)
  <2>1. /\ fn # "none" /\ at \in Block /\ at' = loop
        /\ cond \in Nat /\ loop \in Nat
        /\ cond \in Block /\ loop \in Block /\ used + 3 \in Block
    BY <1>0, <1>5 DEF BeginWhile, OpenWhile, FramesOK, Block
  <2>2. Attached' = Attached \cup {cond, loop}
    <3>1. layout' = layout \o <<cond, loop>>
      BY <1>5 DEF BeginWhile, OpenWhile
    <3>2. QED
      BY <1>3, <2>1, <3>1, AttachTwo
  <2>3. c \in [Block -> Seq(Instr)] /\ \A d \in Attached : Terminated(c, d)
    BY <1>0, <1>2, <2>1, Instructions, EmitFacts
  <2>4. code' = Emit(c, cond, i) /\ i \in Instr /\ IsTerminator(i)
    BY <1>5, <2>1, Instructions DEF BeginWhile, OpenWhile
  <2> HIDE DEF c, i
  <2>5. ASSUME NEW d \in Attached \cup {cond}
        PROVE  Terminated(code', d)
    <3>1. d \in Block /\ (Terminated(c, d) \/ d = cond)
      BY <1>0, <2>1, <2>3, <2>5
    <3>2. QED
      BY ONLY <2>1, <2>3, <2>4, <3>1, StaysTerminated
  <2>6. QED
    BY <2>1, <2>2, <2>5, <1>5 DEF BlocksTerminated, BeginWhile, OpenWhile
<1>6. CASE EndWhile
  <2>1. /\ fn # "none" /\ fn' = fn /\ Top(frames).next \in Block
        /\ at' \in Nat /\ layout' = Append(layout, at')
    BY <1>6, TopFrame DEF EndWhile, CloseWhile
  <2>2. Attached' = Attached \cup {at'}
    BY <1>3, <2>1, AttachOne
  <2>3. code' = CloseWith(code, at, Br(Top(frames).next))
    BY <1>6 DEF EndWhile, CloseWhile
  <2>4. \A d \in Attached : Terminated(code', d)
    BY <1>2, <2>1, <2>3, Instructions
  <2>5. QED
    BY <2>1, <2>2, <2>4 DEF BlocksTerminated
<1>7. CASE BeginIf
  <2>1. /\ fn # "none" /\ fn' = fn /\ at' \in Nat
        /\ used + 1 \in Block /\ used + 2 \in Block
    BY <1>0, <1>7 DEF BeginIf, OpenIf, Block
  <2>2. Attached' = Attached \cup {at'}
    <3>1. layout' = Append(layout, at')
      BY <1>7 DEF BeginIf, OpenIf
    <3>2. QED
      BY <1>3, <2>1, <3>1, AttachOne
  <2>3. code' = Emit(code, at, CondBr(used + 1, used + 2))
    BY <1>7 DEF BeginIf, OpenIf
  <2>4. \A d \in Attached : Terminated(code', d)
    BY <1>2, <2>1, <2>3, Instructions
  <2>5. QED
    BY <2>1, <2>2, <2>4 DEF BlocksTerminated
<1>8. CASE BeginElse \/ EndElse
  <2>1. frames # << >> /\ fn' = fn /\ at' \in Nat /\ layout' = Append(layout, at')
    BY <1>8, TopFrame DEF BeginElse, EndElse, CloseIf
  <2>2. Attached' = Attached \cup {at'}
    BY <1>3, <2>1, AttachOne
  <2>3. code' = CloseWith(code, at, Br(Top(frames).merge))
    BY <1>8 DEF BeginElse, EndElse, CloseIf
  <2>4. \A d \in Attached : Terminated(code', d)
    BY <1>2, <2>1, <2>3, Instructions, TopFrame
  <2>5. fn # "none"
    BY <2>1, TopFrame
  <2>6. QED
    BY <2>1, <2>2, <2>4, <2>5 DEF BlocksTerminated
<1>9. CASE EndIfWithoutElse
  <2> DEFINE else == Top(frames).next
             merge == Top(frames).merge
             c == CloseWith(code, at, Br(merge))
  <2>1. /\ frames # << >> /\ fn' = fn /\ fn # "none" /\ at' = merge
        /\ else \in Block /\ merge \in Block /\ else \in Nat /\ merge \in Nat
        /\ at \in Block
    BY <1>9, TopFrame DEF EndIfWithoutElse, CloseIf
  <2>2. Attached' = Attached \cup {else, merge}
    <3>1. layout' = layout \o <<else, merge>>
      BY <1>9 DEF EndIfWithoutElse, CloseIf
    <3>2. QED
      BY <1>3, <2>1, <3>1, AttachTwo
  <2>3. c \in [Block -> Seq(Instr)] /\ \A d \in Attached : Terminated(c, d)
    BY <1>0, <1>2, <2>1, Instructions, CloseFacts
  <2>4. code' = CloseWith(c, else, Br(merge))
    BY <1>9 DEF EndIfWithoutElse, CloseIf
  <2>5. Br(merge) \in Instr /\ IsTerminator(Br(merge))
    BY <2>1, Instructions
  <2> HIDE DEF c, else, merge
  <2>6. ASSUME NEW d \in Attached \cup {else}
        PROVE  Terminated(code', d)
    <3>1. d \in Block /\ (Terminated(c, d) \/ d = else)
      BY <1>0, <2>1, <2>3, <2>6
    <3>2. QED
      BY ONLY <2>1, <2>3, <2>4, <2>5, <3>1, StaysTerminated
  <2>7. QED
    BY <2>1, <2>2, <2>6 DEF BlocksTerminated
<1>10. ASSUME NEW i \in Instr, Put(i)
       PROVE  BlocksTerminated'
  <2>1. at \in Block /\ Attached' = Attached /\ at' = at /\ fn' = fn /\ fn # "none"
    BY <1>0, <1>10 DEF Put, FramesOK, Attached
  <2>2. code' = Emit(code, at, i)
    BY <1>10 DEF Put
  <2>3. \A d \in Attached : d # at => Terminated(code', d)
    BY <1>0, <2>1, <2>2, EmitTerminates DEF BlocksTerminated
  <2>4. QED
    BY <2>1, <2>3 DEF BlocksTerminated
<1>11. CASE Simple \/ Return
  BY <1>10, <1>11, Instructions DEF Simple, Return
<1>12. CASE Break
  <2>1. Top(breakPoints) \in Block
    <3>1. Top(breakPoints) \in 2..used
      BY <1>0, <1>12, PopFacts DEF Break, FramesOK
    <3>2. QED
      BY <1>0, <3>1 DEF Block
  <2>2. QED
    BY <1>10, <1>12, <2>1, Instructions DEF Break
<1>13. CASE UNCHANGED vars
  BY <1>13 DEF vars, BlocksTerminated, Attached, Terminated
<1>14. QED
  BY <1>1, <1>4, <1>5, <1>6, <1>7, <1>8, <1>9, <1>11, <1>12, <1>13 DEF Next

\* However ifs and loops are nested, and wherever break and return stand,
\* every block of a finished method ends in a terminator.
THEOREM BlocksTerminatedInvariant == Spec => []BlocksTerminated
<1>1. Init => BlocksTerminated
  BY DEF Init, BlocksTerminated, Attached
<1>2. QED
  BY InvInvariant, TerminatedStep, <1>1, PTL DEF Spec

-----------------------------------------------------------------------------
(* Branch targets.                                                         *)

\* All branches of the code c lead to blocks among 2..u.
TargetsUpTo(c, u) ==
    \A b \in Block : \A k \in 1..Len(c[b]) : c[b][k].succ \subseteq 2..u

\* Emitting an instruction, or closing a block with it, adds no target but
\* its own.
LEMMA EmitTargets ==
    ASSUME NEW u \in Nat, NEW v \in Nat, u <= v,
           NEW c \in [Block -> Seq(Instr)], TargetsUpTo(c, u),
           NEW b \in Block, NEW i \in Instr, i.succ \subseteq 2..v
    PROVE  /\ TargetsUpTo(Emit(c, b, i), v)
           /\ TargetsUpTo(CloseWith(c, b, i), v)
<1>1. TargetsUpTo(c, v)
  BY DEF TargetsUpTo
<1>2. ASSUME NEW d \in Block, NEW k \in 1..Len(Emit(c, b, i)[d])
      PROVE  Emit(c, b, i)[d][k].succ \subseteq 2..v
  <2>1. CASE d # b
    <3>1. Emit(c, b, i)[d] = c[d]
      BY <2>1, EmitFacts
    <3>2. QED
      BY <1>1, <1>2, <3>1 DEF TargetsUpTo
  <2>2. CASE d = b
    <3>1. Emit(c, b, i)[d] = Append(c[b], i) /\ c[b] \in Seq(Instr)
      BY <2>2, EmitFacts
    <3>2. k \in 1..(Len(c[b]) + 1)
      BY <1>2, <3>1
    <3>3. CASE k \in 1..Len(c[b])
      <4>1. Append(c[b], i)[k] = c[b][k]
        BY <3>1, <3>3
      <4>2. QED
        BY <1>1, <3>1, <3>3, <4>1 DEF TargetsUpTo
    <3>4. CASE k = Len(c[b]) + 1
      <4>1. Append(c[b], i)[k] = i
        BY <3>1, <3>4
      <4>2. QED
        BY <3>1, <4>1
    <3>5. QED
      BY <3>1, <3>2, <3>3, <3>4
  <2>3. QED
    BY <2>1, <2>2
<1>3. TargetsUpTo(Emit(c, b, i), v)
  BY <1>2 DEF TargetsUpTo
<1>4. QED
  BY <1>1, <1>3 DEF CloseWith

\* The case that no block is created.
LEMMA CloseTargets ==
    ASSUME NEW u \in Nat, NEW c \in [Block -> Seq(Instr)], TargetsUpTo(c, u),
           NEW b \in Block, NEW i \in Instr, i.succ \subseteq 2..u
    PROVE  TargetsUpTo(Emit(c, b, i), u) /\ TargetsUpTo(CloseWith(c, b, i), u)
<1>1. u <= u
  OBVIOUS
<1>2. QED
  BY ONLY <1>1, EmitTargets, TargetsUpTo(c, u), i.succ \subseteq 2..u

\* The property is TargetsUpTo for the code and the blocks there are.
LEMMA TargetsAreUpTo == BranchTargets <=> TargetsUpTo(code, used)
BY DEF BranchTargets, TargetsUpTo

\* Every step keeps the branches among the blocks that have been created.
LEMMA TargetsStep == Inv /\ BranchTargets /\ [Next]_vars => BranchTargets'
<1> SUFFICES ASSUME Inv, BranchTargets, [Next]_vars
             PROVE  TargetsUpTo(code', used')
  BY DEF BranchTargets, TargetsUpTo
<1> USE BoundsAssumption
<1>0. /\ used \in Nat /\ used <= MaxBlock /\ MaxBlock \in Nat
      /\ code \in [Block -> Seq(Instr)]
      /\ TargetsUpTo(code, used)
      /\ fn # "none" => at \in Block
  BY TargetsAreUpTo DEF Inv, TypeOK, FramesOK, Block
<1>1. ASSUME NEW kind \in {"void", "value"}, BeginMethod(kind)
      PROVE  TargetsUpTo(code', used')
  <2>1. \A b \in Block : code'[b] = << >>
    BY <1>1 DEF BeginMethod
  <2>2. QED
    BY <2>1 DEF TargetsUpTo
<1>2. CASE EndMethod
  <2>1. PICK i \in {Ret, RetSlot} : code' = CloseWith(code, at, i)
    BY <1>2 DEF EndMethod
  <2>2. i \in Instr /\ i.succ \subseteq 2..used /\ fn # "none" /\ used' = used
    BY <1>2, Instructions DEF EndMethod
  <2>3. QED
    BY <1>0, <2>1, <2>2, CloseTargets
<1>3. CASE BeginWhile
  <2> DEFINE cond == used + 1
             c == Emit(code, at, Br(cond))
             i == CondBr(used + 2, used + 3)
  <2>1. /\ fn # "none" /\ used' = used + 3
        /\ cond \in Block /\ used + 2 \in Block /\ used + 3 \in Block
        /\ code' = Emit(c, cond, i)
    BY <1>0, <1>3 DEF BeginWhile, OpenWhile, Block
  <2>2. /\ Br(cond) \in Instr /\ Br(cond).succ = {cond}
        /\ i \in Instr /\ i.succ = {used + 2, used + 3}
    BY <2>1, Instructions
  <2>3. used # 0
    BY <2>1 DEF Inv, FramesOK
  <2>4. Br(cond).succ \subseteq 2..used' /\ i.succ \subseteq 2..used'
    <3>1. /\ {used + 1} \subseteq 2..(used + 3)
          /\ {used + 2, used + 3} \subseteq 2..(used + 3)
      BY <1>0, <2>3
    <3> HIDE DEF i
    <3>2. QED
      BY <2>1, <2>2, <3>1
  <2>5. used' \in Nat /\ used <= used' /\ used' <= used'
    BY <1>0, <2>1
  <2>6. c \in [Block -> Seq(Instr)]
    BY <1>0, <2>1, <2>2, EmitFacts
  <2> HIDE DEF i, cond
  <2>7. TargetsUpTo(c, used')
    BY <1>0, <2>1, <2>2, <2>4, <2>5, EmitTargets
  <2> HIDE DEF c
  <2>8. TargetsUpTo(Emit(c, cond, i), used')
    <3>1. cond \in Block /\ i \in Instr /\ i.succ \subseteq 2..used'
      BY <2>1, <2>2, <2>4
    <3>2. QED
      BY <2>5, <2>6, <2>7, <3>1, EmitTargets
  <2>9. QED
    BY <2>1, <2>8
<1>4. CASE EndWhile
  <2>1. /\ frames # << >> /\ Top(frames).kind = "while" /\ used' = used
        /\ code' = CloseWith(code, at, Br(Top(frames).next))
    BY <1>4 DEF EndWhile, CloseWhile
  <2>2. Top(frames).next \in 2..used /\ Top(frames).next \in Block /\ fn # "none"
    BY <2>1, TopFrame
  <2>3. QED
    BY <1>0, <2>1, <2>2, Instructions, CloseTargets, SMTT(30)
<1>5. CASE BeginIf
  <2>1. /\ fn # "none" /\ used' = used + 3
        /\ used + 1 \in Block /\ used + 2 \in Block
        /\ code' = Emit(code, at, CondBr(used + 1, used + 2))
    BY <1>0, <1>5 DEF BeginIf, OpenIf, Block
  <2>2. used # 0
    BY <2>1 DEF Inv, FramesOK
  <2>3. CondBr(used + 1, used + 2) \in Instr
        /\ CondBr(used + 1, used + 2).succ = {used + 1, used + 2}
    BY <2>1, Instructions
  <2>4. {used + 1, used + 2} \subseteq 2..used' /\ used' \in Nat /\ used <= used'
    BY <1>0, <2>1, <2>2
  <2>5. QED
    BY <1>0, <2>1, <2>3, <2>4, EmitTargets
<1>6. CASE BeginElse \/ EndElse
  <2>1. /\ frames # << >> /\ used' = used
        /\ code' = CloseWith(code, at, Br(Top(frames).merge))
    BY <1>6 DEF BeginElse, EndElse, CloseIf
  <2>2. Top(frames).merge \in 2..used /\ Top(frames).merge \in Block /\ fn # "none"
    BY <2>1, TopFrame
  <2>3. /\ Br(Top(frames).merge) \in Instr
        /\ Br(Top(frames).merge).succ \subseteq 2..used
    BY <2>2, Instructions
  <2> DEFINE i == Br(Top(frames).merge)
  <2> HIDE DEF i
  <2>4. code' = CloseWith(code, at, i) /\ i \in Instr /\ i.succ \subseteq 2..used
    BY <2>1, <2>3 DEF i
  <2>5. QED
    BY <1>0, <2>1, <2>2, <2>4, CloseTargets
<1>7. CASE EndIfWithoutElse
  <2> DEFINE i == Br(Top(frames).merge)
             c == CloseWith(code, at, i)
  <2>1. /\ frames # << >> /\ Top(frames).kind = "then" /\ used' = used
        /\ code' = CloseWith(c, Top(frames).next, i)
    BY <1>7 DEF EndIfWithoutElse, CloseIf
  <2>2. /\ Top(frames).merge \in 2..used /\ Top(frames).merge \in Block
        /\ Top(frames).next \in Block /\ fn # "none"
    BY <2>1, TopFrame
  <2>3. i \in Instr /\ i.succ \subseteq 2..used /\ IsTerminator(i)
    BY <2>2, Instructions
  <2> HIDE DEF i
  <2>4. c \in [Block -> Seq(Instr)]
    BY <1>0, <2>2, <2>3, CloseFacts
  <2>5. TargetsUpTo(c, used)
    BY <1>0, <2>2, <2>3, CloseTargets
  <2> HIDE DEF c
  <2>6. QED
    BY <1>0, <2>1, <2>2, <2>3, <2>4, <2>5, CloseTargets
<1>8. ASSUME NEW i \in Instr, i.succ \subseteq 2..used, Put(i)
      PROVE  TargetsUpTo(code', used')
  <2>1. fn # "none" /\ used' = used /\ code' = Emit(code, at, i)
    BY <1>8 DEF Put
  <2>2. QED
    BY <1>0, <1>8, <2>1, CloseTargets
<1>9. CASE Simple \/ Return
  BY <1>8, <1>9, Instructions DEF Simple, Return
<1>10. CASE Break
  <2>1. Top(breakPoints) \in 2..used
    BY <1>10, PopFacts DEF Break, Inv, FramesOK
  <2>2. Top(breakPoints) \in Block
    BY <1>0, <2>1 DEF Block
  <2>3. QED
    BY <1>8, <1>10, <2>1, <2>2, Instructions DEF Break
<1>11. CASE UNCHANGED vars
  BY <1>0, <1>11 DEF vars
<1>12. QED
  BY <1>1, <1>2, <1>3, <1>4, <1>5, <1>6, <1>7, <1>9, <1>10, <1>11 DEF Next

\* No branch leads to the entry block or to a block that was never created:
\* in particular the break points a break uses are blocks of its own method.
THEOREM BranchTargetsInvariant == Spec => []BranchTargets
<1>1. Init => BranchTargets
  BY DEF Init, BranchTargets
<1>2. QED
  BY InvInvariant, TargetsStep, <1>1, PTL DEF Spec

-----------------------------------------------------------------------------
(* The block list and the blocks that are not in it yet.                   *)

Distinct(l) == \A i, j \in 1..Len(l) : l[i] = l[j] => i = j

\* The blocks that the waiting visitors fs have created and not attached, ...
Owed(fs) == UNION {Pending(fs[i]) : i \in 1..Len(fs)}

\* ... none by two visitors, or twice by one.
OwedOnce(fs) ==
    /\ \A i, j \in 1..Len(fs) : i # j => Pending(fs[i]) \cap Pending(fs[j]) = {}
    /\ \A i \in 1..Len(fs) : fs[i].kind = "then" => fs[i].next # fs[i].merge

\* The property alone does not say that two visitors never owe one block.
LayoutInv ==
    /\ Distinct(layout)
    /\ 1..used \subseteq Attached \cup Owed(frames)
    /\ Owed(frames) \cap Attached = {}
    /\ OwedOnce(frames)

\* The strengthening implies the property.
LEMMA LayoutSuffices == LayoutInv => BlocksAttachedOnce
BY DEF LayoutInv, BlocksAttachedOnce, Distinct, Owed

\* A list stays without repetition when a new block is put at its end, ...
LEMMA AppendDistinct ==
    ASSUME NEW l \in Seq(Nat), Distinct(l), NEW b \in Nat,
           \A i \in 1..Len(l) : l[i] # b
    PROVE  Distinct(Append(l, b))
<1> DEFINE n == Len(l)
           m == Append(l, b)
<1>1. /\ n \in Nat /\ Len(m) = n + 1 /\ m[n + 1] = b
      /\ \A i \in 1..n : m[i] = l[i]
  OBVIOUS
<1>2. \A i \in 1..(n + 1) : i \in 1..n \/ i = n + 1
  BY <1>1
<1>3. \A i, j \in 1..n : l[i] = l[j] => i = j
  BY DEF Distinct
<1> HIDE DEF m, n
<1>4. ASSUME NEW i \in 1..(n + 1), NEW j \in 1..(n + 1), m[i] = m[j]
      PROVE  i = j
  <2>1. CASE i \in 1..n /\ j \in 1..n
    BY <1>1, <1>3, <1>4, <2>1
  <2>2. CASE i = n + 1 \/ j = n + 1
    BY <1>1, <1>2, <1>4, <2>2 DEF n
  <2>3. QED
    BY <1>2, <2>1, <2>2
<1>5. QED
  BY <1>1, <1>4 DEF Distinct, m

\* ... or two.
LEMMA AppendTwoDistinct ==
    ASSUME NEW l \in Seq(Nat), Distinct(l), NEW a \in Nat, NEW b \in Nat, a # b,
           \A i \in 1..Len(l) : l[i] # a /\ l[i] # b
    PROVE  Distinct(l \o <<a, b>>)
<1> DEFINE m == Append(l, a)
<1>1. m \in Seq(Nat) /\ Distinct(m)
  BY AppendDistinct
<1>2. \A i \in 1..Len(m) : m[i] # b
  OBVIOUS
<1>3. l \o <<a, b>> = Append(m, b)
  OBVIOUS
<1> HIDE DEF m
<1>4. QED
  BY <1>1, <1>2, <1>3, AppendDistinct

\* A visitor that starts to wait owes its own blocks in addition.
LEMMA PushOwed ==
    ASSUME NEW fs \in Seq(Frame), NEW f \in Frame
    PROVE  /\ Owed(Append(fs, f)) = Owed(fs) \cup Pending(f)
           /\ OwedOnce(fs) /\ Pending(f) \cap Owed(fs) = {}
              /\ (f.kind = "then" => f.next # f.merge) => OwedOnce(Append(fs, f))
<1> DEFINE n == Len(fs)
           gs == Append(fs, f)
<1>1. /\ n \in Nat /\ Len(gs) = n + 1 /\ gs[n + 1] = f
      /\ \A i \in 1..n : gs[i] = fs[i]
  OBVIOUS
<1>2. 1..(n + 1) = 1..n \cup {n + 1}
  BY <1>1
<1> HIDE DEF n, gs
<1>3. Owed(gs) = Owed(fs) \cup Pending(f)
  <2>1. Owed(gs) = UNION {Pending(gs[i]) : i \in 1..n \cup {n + 1}}
    BY <1>1, <1>2 DEF Owed
  <2>2. Owed(fs) = UNION {Pending(gs[i]) : i \in 1..n}
    BY <1>1 DEF Owed, n
  <2>3. QED
    BY <1>1, <2>1, <2>2
<1>4. ASSUME OwedOnce(fs), Pending(f) \cap Owed(fs) = {},
             f.kind = "then" => f.next # f.merge
      PROVE  OwedOnce(gs)
  <2>1. \A i \in 1..n : Pending(fs[i]) \cap Pending(f) = {}
    BY <1>4 DEF Owed, n
  <2>2. ASSUME NEW i \in 1..(n + 1), NEW j \in 1..(n + 1), i # j
        PROVE  Pending(gs[i]) \cap Pending(gs[j]) = {}
    <3>1. CASE i \in 1..n /\ j \in 1..n
      BY <1>1, <1>4, <2>2, <3>1 DEF OwedOnce, n
    <3>2. CASE i \in 1..n /\ j = n + 1
      BY <1>1, <2>1, <3>2
    <3>3. CASE i = n + 1 /\ j \in 1..n
      BY <1>1, <2>1, <3>3
    <3>4. QED
      BY <1>2, <2>2, <3>1, <3>2, <3>3
  <2>3. ASSUME NEW i \in 1..(n + 1), gs[i].kind = "then"
        PROVE  gs[i].next # gs[i].merge
    BY <1>1, <1>2, <1>4, <2>3 DEF OwedOnce, n
  <2>4. QED
    BY <1>1, <2>2, <2>3 DEF OwedOnce
<1>5. QED
  BY <1>3, <1>4 DEF gs

\* A visitor that returns leaves what the others owe.
LEMMA PopOwed ==
    ASSUME NEW fs \in Seq(Frame), fs # << >>, OwedOnce(fs)
    PROVE  /\ Owed(fs) = Owed(Pop(fs)) \cup Pending(Top(fs))
           /\ Owed(Pop(fs)) \cap Pending(Top(fs)) = {}
           /\ OwedOnce(Pop(fs))
           /\ Top(fs).kind = "then" => Top(fs).next # Top(fs).merge
<1> DEFINE n == Len(fs)
           gs == Pop(fs)
<1>1. /\ n \in Nat \ {0} /\ Top(fs) = fs[n] /\ Len(gs) = n - 1
      /\ \A i \in 1..(n - 1) : gs[i] = fs[i]
  BY PopFacts
<1>2. 1..n = 1..(n - 1) \cup {n} /\ n \notin 1..(n - 1)
  BY <1>1
<1> HIDE DEF gs
<1>3. Owed(gs) = UNION {Pending(fs[i]) : i \in 1..(n - 1)}
  BY <1>1 DEF Owed
<1>4. Owed(fs) = Owed(gs) \cup Pending(Top(fs))
  <2>1. Owed(fs) = UNION {Pending(fs[i]) : i \in 1..(n - 1) \cup {n}}
    BY <1>2 DEF Owed
  <2>2. QED
    BY <1>1, <1>3, <2>1
<1>5. Owed(gs) \cap Pending(Top(fs)) = {}
  <2>1. \A i \in 1..(n - 1) : Pending(fs[i]) \cap Pending(fs[n]) = {}
    BY <1>2 DEF OwedOnce
  <2>2. QED
    BY <1>1, <1>3, <2>1
<1>6. OwedOnce(gs)
  BY <1>1, <1>2 DEF OwedOnce
<1>7. QED
  BY <1>1, <1>2, <1>4, <1>5, <1>6 DEF OwedOnce, gs

\* An exchange of the visitor on top is a pop and a push.
LEMMA ExchangeTop ==
    ASSUME NEW fs \in Seq(Frame), fs # << >>, NEW f \in Frame
    PROVE  [fs EXCEPT ![Len(fs)] = f] = Append(Pop(fs), f)
<1> DEFINE n == Len(fs)
           gs == [fs EXCEPT ![n] = f]
           hs == Append(Pop(fs), f)
<1>1. /\ n \in Nat \ {0} /\ Pop(fs) \in Seq(Frame) /\ Len(Pop(fs)) = n - 1
      /\ \A i \in 1..(n - 1) : Pop(fs)[i] = fs[i]
  BY PopFacts
<1>2. /\ hs \in Seq(Frame) /\ Len(hs) = n /\ hs[n] = f
      /\ \A i \in 1..(n - 1) : hs[i] = fs[i]
  BY <1>1
<1>3. /\ gs \in Seq(Frame) /\ Len(gs) = n /\ gs[n] = f
      /\ \A i \in 1..(n - 1) : gs[i] = fs[i]
  BY <1>1, ExceptSeq
<1> HIDE DEF gs, hs
<1>4. \A i \in 1..n : gs[i] = hs[i]
  BY <1>1, <1>2, <1>3, SMTT(30)
<1>5. gs = hs
  BY <1>2, <1>3, <1>4, SeqEqual
<1>6. QED
  BY <1>5 DEF gs, hs

\* What the step proof needs of the sets: all blocks are among 1..used, the
\* entry block is not owed, and a waiting visitor owes its blocks.
LEMMA LayoutFacts ==
    ASSUME Inv, LayoutInv
    PROVE  /\ used \in Nat /\ frames \in Seq(Frame) /\ layout \in Seq(Nat)
           /\ Attached \subseteq 1..used /\ Owed(frames) \subseteq 2..used
           /\ \A b \in Nat \ Attached : \A i \in 1..Len(layout) : layout[i] # b
<1>1. /\ used \in Nat /\ frames \in Seq(Frame) /\ layout \in Seq(1..used)
      /\ frames \in Seq(FrameUpTo(used))
  BY DEF Inv, TypeOK, FramesOK
<1>2. layout \in Seq(Nat)
  <2>1. 1..used \subseteq Nat
    BY <1>1
  <2>2. QED
    BY ONLY <1>1, <2>1, SeqMonotonic
<1>3. Attached \subseteq 1..used
  BY <1>1 DEF Attached
<1>4. \A i \in 1..Len(frames) : Pending(frames[i]) \subseteq 2..used
  <2>1. \A i \in 1..Len(frames) : frames[i] \in FrameUpTo(used)
    BY <1>1
  <2>2. QED
    BY <2>1 DEF FrameUpTo, Frame, Pending
<1>5. Owed(frames) \subseteq 2..used
  BY <1>4 DEF Owed
<1>6. QED
  BY <1>1, <1>2, <1>3, <1>5 DEF Attached

\* The blocks there are after three have been created.
LEMMA ThreeMore ==
    ASSUME NEW u \in Nat
    PROVE  1..(u + 3) = 1..u \cup {u + 1, u + 2, u + 3}
<1>1. \A b \in 1..(u + 3) : b \in 1..u \/ b \in {u + 1, u + 2, u + 3}
  OBVIOUS
<1>2. 1..u \subseteq 1..(u + 3) /\ {u + 1, u + 2, u + 3} \subseteq 1..(u + 3)
  OBVIOUS
<1>3. QED
  BY ONLY <1>1, <1>2

\* Every step attaches only blocks that are owed or new, and each once.
LEMMA LayoutStep == Inv /\ LayoutInv /\ [Next]_vars => LayoutInv'
<1> SUFFICES ASSUME Inv, LayoutInv, [Next]_vars PROVE LayoutInv'
  OBVIOUS
<1> DEFINE owed == Owed(frames)
           top == Top(frames)
           rest == Owed(Pop(frames))
<1>0. /\ used \in Nat /\ frames \in Seq(Frame) /\ layout \in Seq(Nat)
      /\ Attached \subseteq 1..used /\ owed \subseteq 2..used
      /\ \A b \in Nat \ Attached : \A i \in 1..Len(layout) : layout[i] # b
      /\ Distinct(layout) /\ OwedOnce(frames)
      /\ 1..used \subseteq Attached \cup owed /\ owed \cap Attached = {}
  BY LayoutFacts DEF LayoutInv
<1>1. ASSUME frames # << >>
      PROVE  /\ top \in Frame /\ Pop(frames) \in Seq(Frame)
             /\ owed = rest \cup Pending(top) /\ rest \cap Pending(top) = {}
             /\ OwedOnce(Pop(frames)) /\ fn # "none"
             /\ top.merge \in 2..used /\ top.merge \in Block
             /\ top.kind # "else" => top.next \in 2..used
             /\ top.kind = "then" => top.next # top.merge
  BY <1>0, <1>1, PopOwed, PopFacts, TopFrame
<1>2. ASSUME NEW kind \in {"void", "value"}, BeginMethod(kind)
      PROVE  LayoutInv'
  <2>1. frames' = << >> /\ layout' = <<1>> /\ used' = 1
    BY <1>2, NothingPending DEF BeginMethod
  <2>2. Owed(frames') = {} /\ OwedOnce(frames') /\ Distinct(layout')
    BY <2>1 DEF Owed, OwedOnce, Distinct
  <2>3. Attached' = {1}
    BY <2>1 DEF Attached
  <2>4. QED
    BY <2>1, <2>2, <2>3 DEF LayoutInv
<1>3. CASE BeginWhile
  <2> DEFINE a == used + 1
             b == used + 2
             f == [kind |-> "while", next |-> a, merge |-> used + 3]
  <2>1. /\ layout' = layout \o <<a, b>> /\ frames' = Append(frames, f)
        /\ used' = used + 3 /\ f \in Frame /\ Pending(f) = {used + 3}
        /\ a \in Nat /\ b \in Nat /\ a # b /\ f.kind = "while"
        /\ a \notin Attached /\ b \notin Attached
    BY <1>0, <1>3, BoundsAssumption DEF BeginWhile, OpenWhile, Frame, Block, Pending
  <2> HIDE DEF a, b, f
  <2>2. Attached' = Attached \cup {a, b} /\ Distinct(layout')
    BY <1>0, <2>1, AttachTwo, AppendTwoDistinct
  <2>3. Pending(f) \cap owed = {}
    BY <1>0, <2>1
  <2>4. Owed(frames') = owed \cup {used + 3} /\ OwedOnce(frames')
    BY <1>0, <2>1, <2>3, PushOwed
  <2>5. 1..used' = 1..used \cup {a, b, used + 3}
    <3>1. 1..(used + 3) = 1..used \cup {used + 1, used + 2, used + 3}
      BY <1>0, ThreeMore
    <3>2. QED
      BY ONLY <2>1, <3>1 DEF a, b
  <2>6. QED
    BY <1>0, <2>1, <2>2, <2>4, <2>5 DEF LayoutInv, a, b
<1>4. CASE BeginIf
  <2> DEFINE a == used + 1
             f == [kind |-> "then", next |-> used + 2, merge |-> used + 3]
  <2>1. /\ layout' = Append(layout, a) /\ frames' = Append(frames, f)
        /\ used' = used + 3 /\ f \in Frame /\ Pending(f) = {used + 2, used + 3}
        /\ a \in Nat /\ f.next # f.merge /\ a \notin Attached
    BY <1>0, <1>4, BoundsAssumption DEF BeginIf, OpenIf, Frame, Block, Pending
  <2> HIDE DEF a, f
  <2>2. Attached' = Attached \cup {a} /\ Distinct(layout')
    BY <1>0, <2>1, AttachOne, AppendDistinct
  <2>3. Pending(f) \cap owed = {}
    BY <1>0, <2>1
  <2>4. Owed(frames') = owed \cup {used + 2, used + 3} /\ OwedOnce(frames')
    BY <1>0, <2>1, <2>3, PushOwed
  <2>5. 1..used' = 1..used \cup {a, used + 2, used + 3}
    <3>1. 1..(used + 3) = 1..used \cup {used + 1, used + 2, used + 3}
      BY <1>0, ThreeMore
    <3>2. QED
      BY ONLY <2>1, <3>1 DEF a
  <2>6. QED
    BY <1>0, <2>1, <2>2, <2>4, <2>5 DEF LayoutInv, a
<1>5. CASE EndWhile \/ EndElse
  <2>1. /\ frames # << >> /\ Pending(top) = {top.merge} /\ used' = used
        /\ layout' = Append(layout, top.merge) /\ frames' = Pop(frames)
    BY <1>5 DEF EndWhile, CloseWhile, EndElse, CloseIf, Pending
  <2>2. top.merge \in Nat /\ top.merge \notin Attached
    BY <1>0, <1>1, <2>1
  <2>3. Attached' = Attached \cup {top.merge} /\ Distinct(layout')
    BY <1>0, <2>1, <2>2, AttachOne, AppendDistinct
  <2>4. Owed(frames') = rest /\ OwedOnce(frames')
    BY <1>1, <2>1
  <2>5. QED
    BY <1>0, <1>1, <2>1, <2>3, <2>4 DEF LayoutInv
<1>6. CASE EndIfWithoutElse
  <2>1. /\ frames # << >> /\ top.kind = "then" /\ used' = used
        /\ Pending(top) = {top.next, top.merge}
        /\ layout' = layout \o <<top.next, top.merge>> /\ frames' = Pop(frames)
    BY <1>6 DEF EndIfWithoutElse, CloseIf, Pending
  <2>2. /\ top.merge \in Nat /\ top.next \in Nat /\ top.next # top.merge
        /\ top.merge \notin Attached /\ top.next \notin Attached
    BY <1>0, <1>1, <2>1
  <2>3. Attached' = Attached \cup {top.next, top.merge} /\ Distinct(layout')
    BY <1>0, <2>1, <2>2, AttachTwo, AppendTwoDistinct
  <2>4. Owed(frames') = rest /\ OwedOnce(frames')
    BY <1>1, <2>1
  <2>5. QED
    BY <1>0, <1>1, <2>1, <2>3, <2>4 DEF LayoutInv
<1>7. CASE BeginElse
  <2> DEFINE f == [kind |-> "else", next |-> 0, merge |-> top.merge]
  <2>1. /\ frames # << >> /\ top.kind = "then" /\ used' = used
        /\ Pending(top) = {top.next, top.merge}
        /\ layout' = Append(layout, top.next)
        /\ frames' = [frames EXCEPT ![Len(frames)] = f]
    BY <1>7 DEF BeginElse, Pending, Top
  <2>2. f \in Frame /\ Pending(f) = {top.merge} /\ f.kind = "else"
    BY <1>1, <2>1 DEF Frame, Pending
  <2> HIDE DEF f
  <2>3. frames' = Append(Pop(frames), f)
    BY <1>0, <2>1, <2>2, ExchangeTop
  <2>4. Pending(f) \cap rest = {}
    BY <1>1, <2>1, <2>2
  <2>5. Owed(frames') = rest \cup {top.merge} /\ OwedOnce(frames')
    <3>1. Pop(frames) \in Seq(Frame) /\ OwedOnce(Pop(frames))
      BY <1>1, <2>1
    <3>2. f.kind = "then" => f.next # f.merge
      BY <2>2
    <3>3. QED
      BY ONLY <2>2, <2>3, <2>4, <3>1, <3>2, PushOwed
  <2>6. top.next \in Nat /\ top.next \notin Attached /\ top.next # top.merge
    BY <1>0, <1>1, <2>1
  <2>7. Attached' = Attached \cup {top.next} /\ Distinct(layout')
    BY <1>0, <2>1, <2>6, AttachOne, AppendDistinct
  <2>8. QED
    BY <1>0, <1>1, <2>1, <2>5, <2>6, <2>7 DEF LayoutInv
<1>8. CASE EndMethod \/ Simple \/ Break \/ Return \/ UNCHANGED vars
  <2>1. UNCHANGED <<layout, frames, used>>
    BY <1>8 DEF EndMethod, Simple, Break, Return, Put, vars
  <2>2. QED
    BY <2>1 DEF LayoutInv, Attached
<1>9. QED
  BY <1>2, <1>3, <1>4, <1>5, <1>6, <1>7, <1>8 DEF Next

\* However the statements are nested, a block that a visitor creates is put
\* in the function exactly once, by the visitor that created it.
THEOREM BlocksAttachedOnceInvariant == Spec => []BlocksAttachedOnce
<1>1. Init => LayoutInv
  BY DEF Init, LayoutInv, Distinct, Owed, OwedOnce, Attached
<1>2. QED
  BY InvInvariant, LayoutStep, LayoutSuffices, <1>1, PTL DEF Spec
=============================================================================
