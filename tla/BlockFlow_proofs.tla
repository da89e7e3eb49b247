-------------------------- MODULE BlockFlow_proofs --------------------------
(***************************************************************************)
(* Proofs of the invariants of BlockFlow, for all values of the bounds: an *)
(* instruction is executed exactly if the source reaches its statement.    *)
(***************************************************************************)
EXTENDS BlockFlow, BlockGen_proofs, Induction_proofs

-----------------------------------------------------------------------------
(* The blocks that control can enter.                                      *)

\* The successors of blocks of V are blocks of V.
StaysIn(c, V) == \A R \in SUBSET V : WithSuccessors(c, R) \in SUBSET V

\* f[n] are the blocks that control can enter in n steps.
Entered(f, c) ==
    /\ f[0] = {1}
    /\ \A n \in Nat : f[n + 1] = WithSuccessors(c, f[n])
    /\ \A n \in Nat : Reachable(c, n) = f[n]

\* Reachable is what the iteration of WithSuccessors arrives at.
LEMMA ReachableUnfolded ==
    ASSUME NEW c, NEW V, StaysIn(c, V), 1 \in V
    PROVE  \E f \in [Nat -> SUBSET V] : Entered(f, c)
<1> USE DEF StaysIn
<1> DEFINE Within[n \in Nat] == IF n = 0 THEN {1} ELSE WithSuccessors(c, Within[n - 1])
           W == CHOOSE w : w = [n \in Nat |-> IF n = 0 THEN {1} ELSE WithSuccessors(c, w[n - 1])]
           g == [R \in SUBSET V |-> WithSuccessors(c, R)]
<1>1. PICK f \in [Nat -> SUBSET V] : f[0] = {1} /\ \A n \in Nat : f[n + 1] = g[f[n]]
  <2>1. g \in [SUBSET V -> SUBSET V] /\ {1} \in SUBSET V
    OBVIOUS
  <2> DEFINE V2 == SUBSET V
  <2>2. {1} \in V2 /\ g \in [V2 -> V2]
    BY <2>1
  <2> HIDE DEF g, V2
  <2>3. \E f \in [Nat -> V2] : f[0] = {1} /\ \A n \in Nat : f[n + 1] = g[f[n]]
    BY ONLY <2>2, Iteration, SMTT(30)
  <2>4. QED
    BY <2>3 DEF V2
<1>2. f = [n \in Nat |-> IF n = 0 THEN {1} ELSE WithSuccessors(c, f[n - 1])]
  <2>1. ASSUME NEW n \in Nat, n # 0
        PROVE  f[n] = WithSuccessors(c, f[n - 1])
    <3>1. n - 1 \in Nat /\ (n - 1) + 1 = n
      BY <2>1
    <3>2. f[n] = g[f[n - 1]] /\ f[n - 1] \in SUBSET V
      BY <1>1, <3>1
    <3>3. QED
      BY <3>2
  <2>2. QED
    BY <1>1, <2>1
<1>3. W = [n \in Nat |-> IF n = 0 THEN {1} ELSE WithSuccessors(c, W[n - 1])]
  BY <1>2
<1>4. Within = W
  BY DEF W, Within
<1>5. \A u \in Nat : Reachable(c, u) = W[u]
  BY <1>4 DEF Reachable
<1>6. \A n \in Nat : W[n] = f[n]
  <2> HIDE DEF W, Within, g
  <2> DEFINE T == {n \in Nat : W[n] = f[n]}
  <2>1. 0 \in T
    BY <1>1, <1>3
  <2>2. ASSUME NEW n \in T
        PROVE  n + 1 \in T
    <3>1. n \in Nat /\ n + 1 \in Nat /\ n + 1 # 0 /\ (n + 1) - 1 = n /\ W[n] = f[n]
      OBVIOUS
    <3>2. W[n + 1] = WithSuccessors(c, W[n])
      BY <1>3, <3>1
    <3>3. f[n + 1] = WithSuccessors(c, f[n])
      BY <1>1, <3>1 DEF g
    <3>4. QED
      BY <3>1, <3>2, <3>3
  <2>3. T = Nat
    <3>1. T \in SUBSET Nat
      OBVIOUS
    <3> HIDE DEF T
    <3>2. QED
      BY ONLY <2>1, <2>2, <3>1, Induct
  <2>4. QED
    BY <2>3
<1>7. \A n \in Nat : f[n + 1] = WithSuccessors(c, f[n])
  BY <1>1
<1>8. \A n \in Nat : Reachable(c, n) = f[n]
  BY <1>5, <1>6
<1>9. QED
  <2> HIDE DEF W, Within, g
  <2> QED
    BY <1>1, <1>7, <1>8 DEF Entered

\* A set of blocks that control enters at the entry block and cannot leave.
Closed(c, R) == 1 \in R /\ WithSuccessors(c, R) \subseteq R

\* R is the least such set.
IsReach(c, R) ==
    /\ R \in SUBSET Block
    /\ Closed(c, R)
    /\ \A S \in SUBSET Block : Closed(c, S) => R \subseteq S

\* The successors of the blocks of a method are blocks of the method.
LEMMA SuccessorsUpTo ==
    ASSUME NEW u \in Nat, NEW c, TargetsUpTo(c, u), NEW b \in Block
    PROVE  Successors(c, b) \subseteq 2..u
BY DEF Successors, Terminators, TargetsUpTo

\* The iteration of WithSuccessors stands still after u steps, since it gains
\* a block with every step before, and what it arrives at is the least set.
LEMMA ReachableIsReach ==
    ASSUME NEW u \in 1..MaxBlock, NEW c, TargetsUpTo(c, u)
    PROVE  IsReach(c, Reachable(c, u)) /\ Reachable(c, u) \subseteq 1..u
<1> USE BoundsAssumption
<1> DEFINE V == 1..u
<1>1. V \subseteq Block /\ 1 \in V /\ u \in Nat /\ 2..u \subseteq V
  BY DEF Block
<1>2. ASSUME NEW R \in SUBSET V
      PROVE  WithSuccessors(c, R) \in SUBSET V
  <2>1. \A b \in R : Successors(c, b) \subseteq V
    BY <1>1, SuccessorsUpTo
  <2>2. QED
    BY <2>1 DEF WithSuccessors
<1> HIDE DEF V
<1>3. PICK f \in [Nat -> SUBSET V] : Entered(f, c)
  <2>1. StaysIn(c, V)
    BY <1>2 DEF StaysIn
  <2>2. 1 \in V
    BY <1>1
  <2>3. QED
    BY ONLY <2>1, <2>2, ReachableUnfolded
<1> USE DEF Entered
<1>4. \A n \in Nat : 1 \in f[n]
  <2> DEFINE T == {n \in Nat : 1 \in f[n]}
  <2>1. 0 \in T
    BY <1>3
  <2>2. ASSUME NEW n \in T
        PROVE  n + 1 \in T
    BY <1>3 DEF WithSuccessors
  <2>3. T \in SUBSET Nat
    OBVIOUS
  <2> HIDE DEF T
  <2>4. T = Nat
    BY ONLY <2>1, <2>2, <2>3, Induct
  <2>5. QED
    BY <2>4 DEF T
<1>5. ASSUME NEW S, Closed(c, S)
      PROVE  \A n \in Nat : f[n] \subseteq S
  <2> DEFINE T == {n \in Nat : f[n] \subseteq S}
  <2>1. 0 \in T
    BY <1>3, <1>5 DEF Closed
  <2>2. ASSUME NEW n \in T
        PROVE  n + 1 \in T
    BY <1>3, <1>5 DEF WithSuccessors, Closed
  <2>3. T \in SUBSET Nat
    OBVIOUS
  <2> HIDE DEF T
  <2>4. T = Nat
    BY ONLY <2>1, <2>2, <2>3, Induct
  <2>5. QED
    BY <2>4 DEF T
<1>6. \A S \in SUBSET V : IsFiniteSet(S) /\ Cardinality(S) \in Nat /\ Cardinality(S) <= u
  <2>1. IsFiniteSet(V) /\ Cardinality(V) = u
    BY <1>1, FS_Interval DEF V
  <2>2. QED
    BY <2>1, FS_Subset, FS_CardinalityType
<1>7. \A n \in Nat : Closed(c, f[n]) \/ Cardinality(f[n]) > n
  <2> DEFINE T == {n \in Nat : Closed(c, f[n]) \/ Cardinality(f[n]) > n}
  <2>1. 0 \in T
    BY <1>3, FS_Singleton
  <2>2. ASSUME NEW n \in T
        PROVE  n + 1 \in T
    <3>1. n \in Nat /\ n + 1 \in Nat /\ f[n] \in SUBSET V /\ f[n + 1] \in SUBSET V
      BY <1>3
    <3>2. f[n + 1] = WithSuccessors(c, f[n]) /\ f[n] \subseteq f[n + 1]
      BY <1>3, <3>1 DEF WithSuccessors
    <3>3. CASE f[n + 1] = f[n]
      <4>1. Closed(c, f[n + 1])
        BY <1>4, <3>1, <3>2, <3>3 DEF Closed
      <4>2. QED
        BY <3>1, <4>1
    <3>4. CASE f[n + 1] # f[n]
      <4>1. ~Closed(c, f[n])
        BY <3>2, <3>4 DEF Closed
      <4>2. Cardinality(f[n]) > n
        BY <4>1
      <4>3. Cardinality(f[n]) < Cardinality(f[n + 1])
        <5>1. IsFiniteSet(f[n + 1]) /\ f[n] \in SUBSET f[n + 1]
          BY <1>6, <3>1, <3>2
        <5>2. /\ Cardinality(f[n]) <= Cardinality(f[n + 1])
              /\ Cardinality(f[n + 1]) = Cardinality(f[n]) => f[n + 1] = f[n]
          BY <5>1, FS_Subset
        <5>3. Cardinality(f[n]) \in Nat /\ Cardinality(f[n + 1]) \in Nat
          BY <1>6, <3>1
        <5>4. QED
          BY <3>4, <5>2, <5>3
      <4>4. Cardinality(f[n + 1]) > n + 1
        BY <1>6, <3>1, <4>2, <4>3
      <4>5. QED
        BY <3>1, <4>4
    <3>5. QED
      BY <3>3, <3>4
  <2>3. T \in SUBSET Nat
    OBVIOUS
  <2> HIDE DEF T
  <2>4. T = Nat
    BY ONLY <2>1, <2>2, <2>3, Induct
  <2>5. QED
    BY <2>4 DEF T
<1>8. f[u] \in SUBSET V /\ Reachable(c, u) = f[u]
  BY <1>1, <1>3
<1>9. Closed(c, f[u])
  <2>1. ~(Cardinality(f[u]) > u)
    BY <1>1, <1>6, <1>8
  <2>2. QED
    BY <1>1, <1>7, <2>1
<1>10. QED
  BY <1>1, <1>5, <1>8, <1>9 DEF IsReach, V

\* The least such set is one.
LEMMA OneReach ==
    ASSUME NEW c, NEW R, NEW S, IsReach(c, R), IsReach(c, S)
    PROVE  R = S
BY DEF IsReach

-----------------------------------------------------------------------------
(* What an emitted instruction changes.                                    *)

\* d is c with instructions added to the block b, by which control leaves b
\* to the blocks T unless it left b before.
Adds(c, d, b, T) ==
    /\ d \in [Block -> Seq(Instr)]
    /\ \A x \in Block : x # b => d[x] = c[x] /\ Terminators(d, x) = Terminators(c, x)
    /\ \A x \in Block :
         Successors(d, x) = IF x = b /\ Terminators(c, x) = {} THEN T ELSE Successors(c, x)

\* An instruction is added behind what the block holds.
LEMMA EmitAdds ==
    ASSUME NEW c \in [Block -> Seq(Instr)], NEW b \in Block, NEW i \in Instr,
           IsTerminator(i) \/ i.succ = {}
    PROVE  /\ Adds(c, Emit(c, b, i), b, i.succ)
           /\ IsTerminator(i) =>
                Terminators(Emit(c, b, i), b) = Terminators(c, b) \cup {Len(c[b]) + 1}
           /\ ~IsTerminator(i) => Terminators(Emit(c, b, i), b) = Terminators(c, b)
<1> DEFINE n == Len(c[b])
           d == Emit(c, b, i)
           old == Terminators(c, b)
           new == Terminators(d, b)
<1>1. /\ d \in [Block -> Seq(Instr)] /\ d[b] = Append(c[b], i)
      /\ \A x \in Block : x # b => d[x] = c[x]
  BY EmitFacts
<1>2. /\ n \in Nat /\ Len(d[b]) = n + 1 /\ d[b][n + 1] = i
      /\ \A k \in 1..n : d[b][k] = c[b][k]
  BY <1>1
<1>3. \A k : k \in 1..(n + 1) <=> k \in 1..n \/ k = n + 1
  BY <1>2
<1>4. \A k : k \in new <=> (k \in old \/ (k = n + 1 /\ IsTerminator(i)))
  BY <1>2, <1>3 DEF Terminators
<1>5. \A k \in old : k \in 1..n /\ k < n + 1
  BY <1>2 DEF Terminators
<1>6. \A x \in Block : x # b =>
         /\ Terminators(d, x) = Terminators(c, x)
         /\ Successors(d, x) = Successors(c, x)
  BY <1>1 DEF Terminators, Successors
<1>7. CASE old = {}
  <2>1. CASE IsTerminator(i)
    <3>1. new = {n + 1}
      BY <1>4, <1>7, <2>1
    <3>2. {k \in new : \A m \in new : k <= m} = {n + 1}
      BY <1>2, <3>1
    <3>3. Successors(d, b) = UNION {d[b][k].succ : k \in {n + 1}}
      BY <3>2 DEF Successors
    <3>4. Successors(d, b) = i.succ
      BY <1>2, <3>3
    <3>5. QED
      BY <1>1, <1>6, <1>7, <2>1, <3>1, <3>4 DEF Adds
  <2>2. CASE ~IsTerminator(i)
    <3>1. new = {}
      BY <1>4, <1>7, <2>2
    <3>2. Successors(d, b) = {}
      BY <3>1 DEF Successors
    <3>3. QED
      BY <1>1, <1>6, <1>7, <2>2, <3>1, <3>2 DEF Adds
  <2>3. QED
    BY <2>1, <2>2
<1>8. CASE old # {}
  <2>1. {k \in new : \A m \in new : k <= m} = {k \in old : \A m \in old : k <= m}
    <3>1. PICK m \in old : TRUE
      BY <1>8
    <3>2. ASSUME NEW k \in new, \A l \in new : k <= l
          PROVE  k \in old /\ \A l \in old : k <= l
      <4>1. k <= m /\ m < n + 1 /\ m \in Nat
        BY <1>4, <1>5, <3>1, <3>2
      <4>2. k # n + 1
        BY <1>2, <4>1
      <4>3. QED
        BY <1>4, <3>2, <4>2
    <3>3. ASSUME NEW k \in old, \A l \in old : k <= l
          PROVE  k \in new /\ \A l \in new : k <= l
      BY <1>2, <1>4, <1>5, <3>3
    <3>4. QED
      BY <3>2, <3>3
  <2>2. \A k \in old : d[b][k].succ = c[b][k].succ
    BY <1>2, <1>5
  <2>3. Successors(d, b) = Successors(c, b)
    <3> DEFINE first == {k \in old : \A m \in old : k <= m}
    <3>1. Successors(d, b) = UNION {d[b][k].succ : k \in first}
      BY <2>1 DEF Successors
    <3>2. Successors(c, b) = UNION {c[b][k].succ : k \in first}
      BY DEF Successors
    <3>3. {d[b][k].succ : k \in first} = {c[b][k].succ : k \in first}
      BY <2>2
    <3>4. QED
      BY <3>1, <3>2, <3>3
  <2>4. Adds(c, d, b, i.succ)
    BY <1>1, <1>6, <1>8, <2>3 DEF Adds
  <2>5. new = old \cup {x \in {n + 1} : IsTerminator(i)}
    BY <1>4
  <2>6. QED
    BY <2>4, <2>5
<1>9. QED
  BY <1>7, <1>8

\* A block that ends in a terminator has one.
LEMMA TerminatedHas ==
    ASSUME NEW c \in [Block -> Seq(Instr)], NEW b \in Block, Terminated(c, b)
    PROVE  Len(c[b]) \in Terminators(c, b)
<1>1. Len(c[b]) \in Nat \ {0}
  BY DEF Terminated
<1>2. QED
  BY <1>1 DEF Terminated, Terminators

\* The guarded branch adds what an emitted one does.
LEMMA CloseAdds ==
    ASSUME NEW c \in [Block -> Seq(Instr)], NEW b \in Block, NEW i \in Instr,
           IsTerminator(i)
    PROVE  Adds(c, CloseWith(c, b, i), b, i.succ)
<1>1. CASE Terminated(c, b)
  BY <1>1, TerminatedHas DEF CloseWith, Adds
<1>2. CASE ~Terminated(c, b)
  BY <1>2, EmitAdds DEF CloseWith
<1>3. QED
  BY <1>1, <1>2

\* What control can enter when instructions have been added to b: the new
\* targets too, if control got to the end of b and if the new targets lead on
\* to nothing else.
LEMMA ReachGrows ==
    ASSUME NEW c, NEW d, NEW b \in Block, NEW T \in SUBSET Block, Adds(c, d, b, T),
           NEW R, IsReach(c, R),
           b \in R /\ Terminators(c, b) = {} =>
             \A t \in T : t \notin R => Successors(c, t) \subseteq R \cup T
    PROVE  IsReach(d, IF b \in R /\ Terminators(c, b) = {} THEN R \cup T ELSE R)
<1>1. /\ R \in SUBSET Block /\ 1 \in R
      /\ \A x \in R : Successors(c, x) \subseteq R
  BY DEF IsReach, Closed, WithSuccessors
<1>2. \A x \in Block :
        Successors(d, x) = IF x = b /\ Terminators(c, x) = {} THEN T ELSE Successors(c, x)
  BY DEF Adds
<1>3. \A x \in Block : Terminators(c, x) = {} => Successors(c, x) = {}
  BY DEF Successors
<1>4. ASSUME NEW S \in SUBSET Block, Closed(d, S)
      PROVE  /\ R \subseteq S
             /\ b \in R /\ Terminators(c, b) = {} => T \subseteq S
  <2>1. 1 \in S /\ \A x \in S : Successors(d, x) \subseteq S
    BY <1>4 DEF Closed, WithSuccessors
  <2>2. \A x \in S : Successors(c, x) \subseteq S
    BY <1>2, <1>3, <2>1
  <2>3. Closed(c, S)
    BY <2>1, <2>2 DEF Closed, WithSuccessors
  <2>4. R \subseteq S
    BY <2>3 DEF IsReach
  <2>5. QED
    BY <1>2, <2>1, <2>4
<1>5. CASE b \in R /\ Terminators(c, b) = {}
  <2>1. \A x \in R \cup T : Successors(d, x) \subseteq R \cup T
    BY <1>1, <1>2, <1>5
  <2>2. Closed(d, R \cup T)
    BY <1>1, <2>1 DEF Closed, WithSuccessors
  <2>3. QED
    BY <1>1, <1>4, <1>5, <2>2 DEF IsReach
<1>6. CASE ~(b \in R /\ Terminators(c, b) = {})
  <2>1. \A x \in R : Successors(d, x) \subseteq R
    BY <1>1, <1>2, <1>6
  <2>2. Closed(d, R)
    BY <1>1, <2>1 DEF Closed, WithSuccessors
  <2>3. QED
    BY <1>1, <1>4, <1>6, <2>2 DEF IsReach
<1>7. QED
  BY <1>5, <1>6

-----------------------------------------------------------------------------
(* The reference that follows the source.                                  *)

FlowRec == [start : BOOLEAN, then : BOOLEAN]

\* A statement is reached only inside of statements that are reached.
Starts(gs, alive) ==
    /\ \A i, j \in 1..Len(gs) : i < j /\ gs[j].start => gs[i].start
    /\ \A i \in 1..Len(gs) : gs[i].then => gs[i].start
    /\ alive => \A i \in 1..Len(gs) : gs[i].start

\* There is one record for each waiting visitor.
FlowShape ==
    /\ flow \in Seq(FlowRec) /\ Len(flow) = Len(frames)
    /\ live \in BOOLEAN /\ dead \in BOOLEAN
    /\ Starts(flow, live)

\* A statement is opened: it is reached if its place is.
LEMMA PushStarts ==
    ASSUME NEW gs \in Seq(FlowRec), NEW alive \in BOOLEAN, Starts(gs, alive)
    PROVE  LET new == Append(gs, [start |-> alive, then |-> FALSE])
           IN  /\ new \in Seq(FlowRec) /\ Len(new) = Len(gs) + 1
               /\ Starts(new, alive)
<1> DEFINE n == Len(gs)
           g == [start |-> alive, then |-> FALSE]
           new == Append(gs, g)
<1>1. /\ n \in Nat /\ new \in Seq(FlowRec) /\ Len(new) = n + 1 /\ new[n + 1] = g
      /\ \A i \in 1..n : new[i] = gs[i]
  BY DEF FlowRec
<1>2. \A i \in 1..(n + 1) : i \in 1..n \/ i = n + 1
  BY <1>1
<1>3. g.start = alive /\ g.then = FALSE
  OBVIOUS
<1> HIDE DEF g, new
<1>4. ASSUME NEW i \in 1..(n + 1), new[i].then
      PROVE  new[i].start
  BY <1>1, <1>2, <1>3, <1>4 DEF Starts
<1>5. ASSUME NEW i \in 1..(n + 1), NEW j \in 1..(n + 1), i < j, new[j].start
      PROVE  new[i].start
  <2>1. i \in 1..n
    BY <1>1, <1>2, <1>5
  <2>2. CASE j \in 1..n
    BY <1>1, <1>5, <2>1, <2>2 DEF Starts
  <2>3. CASE j = n + 1
    BY <1>1, <1>3, <1>5, <2>1, <2>3 DEF Starts
  <2>4. QED
    BY <1>2, <2>2, <2>3
<1>6. ASSUME alive, NEW i \in 1..(n + 1)
      PROVE  new[i].start
  BY <1>1, <1>2, <1>3, <1>6 DEF Starts
<1>7. Starts(new, alive)
  BY <1>1, <1>4, <1>5, <1>6 DEF Starts
<1>8. QED
  BY <1>1, <1>7 DEF new, g

\* A statement is closed.
LEMMA PopStarts ==
    ASSUME NEW gs \in Seq(FlowRec), NEW alive \in BOOLEAN, Starts(gs, alive), gs # << >>
    PROVE  /\ Pop(gs) \in Seq(FlowRec) /\ Len(Pop(gs)) = Len(gs) - 1
           /\ Top(gs).start \in BOOLEAN /\ Top(gs).then \in BOOLEAN
           /\ alive \/ Top(gs).then => Top(gs).start
           /\ \A now \in BOOLEAN : (now => Top(gs).start) => Starts(Pop(gs), now)
<1> DEFINE n == Len(gs)
           new == Pop(gs)
<1>1. /\ n \in Nat \ {0} /\ Top(gs) = gs[n] /\ Top(gs) \in FlowRec
      /\ new \in Seq(FlowRec) /\ Len(new) = n - 1
      /\ \A i \in 1..(n - 1) : new[i] = gs[i]
  BY PopFacts
<1>2. n \in 1..n /\ \A i \in 1..(n - 1) : i \in 1..n /\ i < n
  BY <1>1
<1>3. Top(gs).start \in BOOLEAN /\ Top(gs).then \in BOOLEAN
  BY <1>1 DEF FlowRec
<1>4. alive \/ Top(gs).then => Top(gs).start
  BY <1>1, <1>2 DEF Starts
<1> HIDE DEF new
<1>5. ASSUME NEW now \in BOOLEAN, now => Top(gs).start
      PROVE  Starts(new, now)
  <2>1. now => \A i \in 1..(n - 1) : gs[i].start
    BY <1>1, <1>2, <1>5 DEF Starts
  <2>2. \A i, j \in 1..(n - 1) : i < j /\ gs[j].start => gs[i].start
    BY <1>2 DEF Starts
  <2>3. \A i \in 1..(n - 1) : gs[i].then => gs[i].start
    BY <1>2 DEF Starts
  <2>4. QED
    BY <1>1, <2>1, <2>2, <2>3 DEF Starts
<1>6. QED
  BY <1>1, <1>3, <1>4, <1>5 DEF new

\* The second branch of an if is entered.
LEMMA ElseStarts ==
    ASSUME NEW gs \in Seq(FlowRec), NEW alive \in BOOLEAN, Starts(gs, alive), gs # << >>,
           NEW new, new = [gs EXCEPT ![Len(gs)].then = alive]
    PROVE  /\ new \in Seq(FlowRec) /\ Len(new) = Len(gs)
           /\ Top(new) = [start |-> Top(gs).start, then |-> alive]
           /\ Top(gs).start \in BOOLEAN
           /\ alive => Top(gs).start
           /\ \A i \in 1..(Len(gs) - 1) : new[i] = gs[i]
           /\ Starts(new, Top(gs).start)
<1> DEFINE n == Len(gs)
           g == [start |-> gs[n].start, then |-> alive]
<1>1. /\ n \in Nat \ {0} /\ n \in 1..n /\ Top(gs) = gs[n]
      /\ \A i \in 1..n : gs[i] \in FlowRec /\ gs[i].start \in BOOLEAN
      /\ \A i \in 1..(n - 1) : i \in 1..n /\ i < n
      /\ \A i \in 1..n : i = n \/ i \in 1..(n - 1)
  <2>1. n \in Nat \ {0} /\ \A i \in 1..n : gs[i] \in FlowRec
    OBVIOUS
  <2>2. \A i \in 1..n : gs[i].start \in BOOLEAN
    BY <2>1 DEF FlowRec
  <2>3. QED
    BY <2>1, <2>2 DEF Top
<1>2. [gs[n] EXCEPT !.then = alive] = g /\ g \in FlowRec /\ g.start = gs[n].start
      /\ g.then = alive
  BY <1>1 DEF FlowRec
<1>3. new = [gs EXCEPT ![n] = g]
  BY <1>2
<1> HIDE DEF g
<1>4. /\ new \in Seq(FlowRec) /\ Len(new) = n /\ new[n] = g
      /\ \A i \in 1..(n - 1) : new[i] = gs[i]
  BY <1>1, <1>2, <1>3, ExceptSeq
<1>5. alive => gs[n].start
  BY <1>1 DEF Starts
<1>6. \A i \in 1..n : new[i].start = gs[i].start
  BY <1>1, <1>2, <1>4
<1>7. \A i, j \in 1..n : i < j /\ new[j].start => new[i].start
  BY <1>6 DEF Starts
<1>8. ASSUME NEW i \in 1..n, new[i].then
      PROVE  new[i].start
  <2>1. CASE i = n
    BY <1>1, <1>2, <1>4, <1>5, <1>8, <2>1
  <2>2. CASE i \in 1..(n - 1)
    BY <1>1, <1>4, <1>8, <2>2 DEF Starts
  <2>3. QED
    BY <1>1, <2>1, <2>2
<1>9. gs[n].start => \A i \in 1..n : new[i].start
  BY <1>1, <1>6 DEF Starts
<1>10. Starts(new, gs[n].start)
  BY <1>4, <1>7, <1>8, <1>9 DEF Starts
<1>11. QED
  BY <1>1, <1>4, <1>5, <1>10 DEF g, Top

\* A step of the composition is a step of the generator.
LEMMA FlowIsGen == [FlowNext]_flowVars => [Next]_vars
<1> SUFFICES ASSUME [FlowNext]_flowVars PROVE [Next]_vars
  OBVIOUS
<1>1. CASE FlowNext
  BY <1>1 DEF FlowNext, FlowBeginMethod, FlowEndMethod, FlowOpen, FlowSkippable,
              FlowElse, FlowEndElse, FlowSimple, FlowJump, Next
<1>2. CASE UNCHANGED flowVars
  BY <1>2 DEF flowVars, vars
<1>3. QED
  BY <1>1, <1>2

\* What the generator keeps by itself.
GenInv == Inv /\ LayoutInv /\ BranchTargets

LEMMA GenStep == GenInv /\ [FlowNext]_flowVars => GenInv'
<1> SUFFICES ASSUME GenInv, [FlowNext]_flowVars PROVE GenInv'
  OBVIOUS
<1>1. Inv /\ LayoutInv /\ BranchTargets /\ [Next]_vars
  BY FlowIsGen DEF GenInv
<1>2. Inv'
  BY <1>1, TypeStep, LoopsStep DEF Inv
<1>3. LayoutInv' /\ BranchTargets'
  BY <1>1, LayoutStep, TargetsStep
<1>4. QED
  BY <1>2, <1>3 DEF GenInv

\* The records are opened and closed with the visitors.
LEMMA ShapeStep == Inv /\ FlowShape /\ [FlowNext]_flowVars => FlowShape'
<1> SUFFICES ASSUME Inv, FlowShape, [FlowNext]_flowVars PROVE FlowShape'
  OBVIOUS
<1>1. /\ flow \in Seq(FlowRec) /\ Len(flow) = Len(frames) /\ frames \in Seq(Frame)
      /\ live \in BOOLEAN /\ dead \in BOOLEAN /\ Starts(flow, live)
      /\ Len(frames) \in Nat
  BY DEF Inv, TypeOK, FlowShape
<1>2. frames # << >> => flow # << >>
  BY <1>1
<1>3. frames # << >> => Len(Pop(frames)) = Len(flow) - 1
  BY <1>1, PopFacts
<1>4. ASSUME NEW kind \in {"void", "value"}, FlowBeginMethod(kind)
      PROVE  FlowShape'
  <2>1. frames' = << >> /\ flow' = << >> /\ live' = TRUE /\ dead' = FALSE
    BY <1>4, NothingPending DEF FlowBeginMethod, BeginMethod
  <2>2. << >> \in Seq(FlowRec) /\ Len(<< >>) = 0 /\ 1..0 = {}
    OBVIOUS
  <2>3. Starts(<< >>, TRUE)
    BY <2>2 DEF Starts
  <2>4. QED
    BY <2>1, <2>2, <2>3 DEF FlowShape
<1>5. CASE FlowEndMethod
  <2>1. UNCHANGED <<frames, flow, dead>> /\ live' = FALSE
    BY <1>5 DEF FlowEndMethod, EndMethod
  <2>2. QED
    BY <1>1, <2>1 DEF FlowShape, Starts
<1>6. CASE FlowOpen
  <2>1. PICK f : frames' = Append(frames, f)
    BY <1>6 DEF FlowOpen, BeginWhile, OpenWhile, BeginIf, OpenIf
  <2>2. /\ flow' = Append(flow, [start |-> live, then |-> FALSE]) /\ live' = live
        /\ dead' \in BOOLEAN
    BY <1>1, <1>6 DEF FlowOpen, Visited
  <2>3. Len(frames') = Len(frames) + 1
    BY <1>1, <2>1
  <2>4. QED
    BY <1>1, <2>2, <2>3, PushStarts DEF FlowShape
<1>7. CASE FlowSkippable
  <2>1. /\ frames # << >> /\ frames' = Pop(frames) /\ flow' = Pop(flow)
        /\ live' = Top(flow).start /\ dead' = dead
    BY <1>7 DEF FlowSkippable, EndWhile, CloseWhile, EndIfWithoutElse, CloseIf
  <2>2. QED
    BY <1>1, <1>2, <1>3, <2>1, PopStarts DEF FlowShape
<1>8. CASE FlowElse
  <2>1. /\ frames # << >> /\ flow' = [flow EXCEPT ![Len(flow)].then = live]
        /\ live' = Top(flow).start /\ dead' = dead
    BY <1>8 DEF FlowElse, BeginElse
  <2>2. Len(frames') = Len(frames)
    <3>1. PICK f : frames' = [frames EXCEPT ![Len(frames)] = f]
      BY <1>8 DEF FlowElse, BeginElse
    <3>2. QED
      BY <1>1, <2>1, <3>1
  <2>3. /\ flow \in Seq(FlowRec) /\ live \in BOOLEAN /\ Starts(flow, live) /\ flow # << >>
    BY <1>1, <1>2, <2>1
  <2>4. /\ flow' \in Seq(FlowRec) /\ Len(flow') = Len(flow)
        /\ Top(flow).start \in BOOLEAN /\ Starts(flow', Top(flow).start)
    <3>1. flow' = [flow EXCEPT ![Len(flow)].then = live]
      BY <2>1
    <3>2. QED
      BY ONLY <2>3, <3>1, ElseStarts, ZenonT(60)
  <2>5. QED
    BY <1>1, <2>1, <2>2, <2>4 DEF FlowShape
<1>9. CASE FlowEndElse
  <2>1. /\ frames # << >> /\ frames' = Pop(frames) /\ flow' = Pop(flow)
        /\ live' = (live \/ Top(flow).then) /\ dead' = dead
    BY <1>9 DEF FlowEndElse, EndElse, CloseIf
  <2>2. /\ Top(flow).then \in BOOLEAN
        /\ (live \/ Top(flow).then) => Top(flow).start
        /\ live' \in BOOLEAN
    BY <1>1, <1>2, <2>1, PopStarts
  <2>3. QED
    BY <1>1, <1>2, <1>3, <2>1, <2>2, PopStarts DEF FlowShape
<1>10. CASE FlowSimple \/ FlowJump
  <2>1. UNCHANGED <<frames, flow>>
    BY <1>10 DEF FlowSimple, FlowJump, Simple, Break, Return, Put
  <2>2. (live' = live \/ live' = FALSE) /\ dead' = (dead \/ ~live)
    BY <1>10 DEF FlowSimple, FlowJump, Visited
  <2>3. live' \in BOOLEAN /\ dead' \in BOOLEAN /\ (live' => live)
    <3>1. (dead \/ ~live) \in BOOLEAN /\ FALSE \in BOOLEAN
      OBVIOUS
    <3>2. dead' \in BOOLEAN
      BY <2>2, <3>1, Zenon
    <3>3. CASE live' = live
      BY <1>1, <3>2, <3>3
    <3>4. CASE live' = FALSE
      BY <3>2, <3>4
    <3>5. QED
      BY <2>2, <3>3, <3>4
  <2>4. QED
    BY <1>1, <2>1, <2>3 DEF FlowShape, Starts
<1>11. CASE UNCHANGED flowVars
  BY <1>11 DEF flowVars, FlowShape
<1>12. QED
  BY <1>4, <1>5, <1>6, <1>7, <1>8, <1>9, <1>10, <1>11 DEF FlowNext

-----------------------------------------------------------------------------
(* Blocks that have not been written to.                                   *)

\* A block that waits to be put in the function is empty, and so are those
\* that have not been created; the insertion point and the condition blocks
\* of the open loops are in the function.
EmptyInv ==
    /\ \A b \in Owed(frames) : code[b] = << >>
    /\ \A b \in Block : b > used => code[b] = << >>
    /\ \A i \in 1..Len(frames) : frames[i].kind = "while" => frames[i].next \in Attached
    /\ fn # "none" => at \in Attached

\* An instruction added to a block that is in the function leaves the others
\* empty.
LEMMA StaysEmpty ==
    ASSUME NEW c, NEW d, NEW b \in Block, NEW T, Adds(c, d, b, T),
           NEW E \in SUBSET Block, b \notin E, \A x \in E : c[x] = << >>
    PROVE  \A x \in E : d[x] = << >>
BY DEF Adds

\* What the steps have in common: an open frame's blocks.
LEMMA TopFacts ==
    ASSUME GenInv, frames # << >>
    PROVE  /\ fn # "none" /\ at \in 1..used /\ at \in Block
           /\ Top(frames) \in Frame /\ Top(frames).merge \in Block
           /\ Top(frames).merge \in Pending(Top(frames))
           /\ Top(frames).merge \in Owed(frames)
           /\ Top(frames).kind = "then" =>
                /\ Top(frames).next \in Block /\ Top(frames).next \in Owed(frames)
                /\ Top(frames).next # Top(frames).merge
           /\ Top(frames).kind = "while" => Top(frames).next \in Block
           /\ Owed(frames) = Owed(Pop(frames)) \cup Pending(Top(frames))
           /\ Owed(Pop(frames)) \cap Pending(Top(frames)) = {}
<1>1. /\ frames \in Seq(Frame) /\ OwedOnce(frames)
  BY DEF GenInv, Inv, TypeOK, LayoutInv
<1>2. /\ Top(frames) \in Frame
      /\ Owed(frames) = Owed(Pop(frames)) \cup Pending(Top(frames))
      /\ Owed(Pop(frames)) \cap Pending(Top(frames)) = {}
      /\ Top(frames).kind = "then" => Top(frames).next # Top(frames).merge
  BY <1>1, PopOwed, PopFacts
<1>3. /\ Top(frames).merge \in Pending(Top(frames))
      /\ Top(frames).kind = "then" => Top(frames).next \in Pending(Top(frames))
  BY DEF Pending
<1>4. /\ Top(frames).merge \in Block
      /\ Top(frames).kind # "else" => Top(frames).next \in Block
      /\ fn # "none" /\ at \in 1..used /\ at \in Block
  BY TopFrame DEF GenInv
<1>5. QED
  BY <1>2, <1>3, <1>4

\* The facts about the sets of blocks that all steps use.
LEMMA GenFacts ==
    ASSUME GenInv
    PROVE  /\ code \in [Block -> Seq(Instr)] /\ used \in Nat /\ used <= MaxBlock
           /\ MaxBlock \in Nat /\ Block = 1..MaxBlock
           /\ frames \in Seq(Frame) /\ Len(frames) \in Nat /\ layout \in Seq(Nat)
           /\ Attached \subseteq 1..used /\ Owed(frames) \subseteq 2..used
           /\ Attached \subseteq Block /\ Owed(frames) \subseteq Block
           /\ Owed(frames) \cap Attached = {} /\ OwedOnce(frames)
           /\ TargetsUpTo(code, used)
           /\ fn # "none" => at \in 1..used /\ at \in Block
<1>1. /\ code \in [Block -> Seq(Instr)] /\ used \in Nat /\ used <= MaxBlock
      /\ MaxBlock \in Nat /\ Block = 1..MaxBlock
      /\ fn # "none" => at \in 1..used
      /\ frames \in Seq(Frame) /\ Len(frames) \in Nat
  BY BoundsAssumption DEF GenInv, Inv, TypeOK, FramesOK, Block
<1>2. /\ Attached \subseteq 1..used /\ Owed(frames) \subseteq 2..used
      /\ layout \in Seq(Nat)
      /\ Owed(frames) \cap Attached = {} /\ OwedOnce(frames)
  BY LayoutFacts DEF GenInv, LayoutInv
<1>3. TargetsUpTo(code, used)
  BY TargetsAreUpTo DEF GenInv
<1>4. 1..used \subseteq Block /\ 2..used \subseteq Block
  BY <1>1
<1>5. QED
  BY <1>1, <1>2, <1>3, <1>4

-----------------------------------------------------------------------------
(* What control can enter of the blocks that the waiting visitors hold.    *)

\* The blocks of a visitor that are, or will be, branched to.
Entries(f) == IF f.kind = "else" THEN {f.merge} ELSE {f.next, f.merge}

\* Among the blocks R that control can enter are those of the visitor f as
\* the record g of its statement tells: of a loop that is reached the
\* condition and the exit; of an if in its first branch the second branch, but
\* not yet what follows; and that in its second branch if the first falls through.
FrameReach(R, f, g) ==
    /\ f.kind = "while" => (f.next \in R <=> g.start) /\ (f.merge \in R <=> g.start)
    /\ f.kind = "then" => (f.next \in R <=> g.start) /\ f.merge \notin R
    /\ f.kind = "else" => (f.merge \in R <=> g.then)

StackReach(R, fs, gs) == \A i \in 1..Len(fs) : FrameReach(R, fs[i], gs[i])

\* Other blocks can be entered: nothing changes for a visitor.
LEMMA KeepReach ==
    ASSUME NEW fs \in Seq(Frame), NEW gs, NEW R, NEW S, StackReach(R, fs, gs),
           \A i \in 1..Len(fs) : \A b \in Entries(fs[i]) : b \in R <=> b \in S
    PROVE  StackReach(S, fs, gs)
<1> SUFFICES ASSUME NEW i \in 1..Len(fs) PROVE FrameReach(S, fs[i], gs[i])
  BY DEF StackReach
<1>1. FrameReach(R, fs[i], gs[i])
  BY DEF StackReach
<1>2. /\ fs[i].merge \in R <=> fs[i].merge \in S
      /\ fs[i].kind # "else" => (fs[i].next \in R <=> fs[i].next \in S)
  BY DEF Entries
<1>3. QED
  BY <1>1, <1>2 DEF FrameReach

LEMMA PushReach ==
    ASSUME NEW fs \in Seq(Frame), NEW gs \in Seq(FlowRec), Len(gs) = Len(fs), NEW R,
           StackReach(R, fs, gs), NEW f \in Frame, NEW g \in FlowRec, FrameReach(R, f, g)
    PROVE  StackReach(R, Append(fs, f), Append(gs, g))
<1> DEFINE n == Len(fs)
           fs2 == Append(fs, f)
           gs2 == Append(gs, g)
<1>1. /\ n \in Nat /\ Len(fs2) = n + 1 /\ fs2[n + 1] = f /\ gs2[n + 1] = g
      /\ \A i \in 1..n : fs2[i] = fs[i] /\ gs2[i] = gs[i]
  OBVIOUS
<1>2. \A i \in 1..(n + 1) : i \in 1..n \/ i = n + 1
  BY <1>1
<1> HIDE DEF fs2, gs2
<1>3. QED
  BY <1>1, <1>2 DEF StackReach, fs2, gs2

LEMMA PopReach ==
    ASSUME NEW fs \in Seq(Frame), NEW gs \in Seq(FlowRec), Len(gs) = Len(fs), NEW R,
           StackReach(R, fs, gs), fs # << >>
    PROVE  /\ StackReach(R, Pop(fs), Pop(gs))
           /\ FrameReach(R, Top(fs), Top(gs))
<1> DEFINE n == Len(fs)
<1>1. /\ n \in Nat \ {0} /\ Len(Pop(fs)) = n - 1 /\ gs # << >>
      /\ Top(fs) = fs[n] /\ Top(gs) = gs[n]
      /\ \A i \in 1..(n - 1) : Pop(fs)[i] = fs[i] /\ Pop(gs)[i] = gs[i]
  <2>1. n \in Nat \ {0} /\ gs # << >>
    OBVIOUS
  <2>2. QED
    BY <2>1, PopFacts
<1>2. n \in 1..n /\ \A i \in 1..(n - 1) : i \in 1..n
  BY <1>1
<1>3. QED
  BY <1>1, <1>2 DEF StackReach

\* The blocks of the visitors have been created, and those of the others are
\* not owed by the innermost one.
LEMMA EntriesKnown ==
    ASSUME GenInv, EmptyInv
    PROVE  \A i \in 1..Len(frames) : Entries(frames[i]) \subseteq 1..used
<1> SUFFICES ASSUME NEW i \in 1..Len(frames) PROVE Entries(frames[i]) \subseteq 1..used
  OBVIOUS
<1>1. Entries(frames[i]) \subseteq Pending(frames[i]) \cup Attached
  <2>1. frames[i].kind \in {"while", "then", "else"}
    <3>1. frames[i] \in Frame
      BY GenFacts
    <3>2. QED
      BY <3>1 DEF Frame
  <2>2. frames[i].kind = "while" => frames[i].next \in Attached
    BY DEF EmptyInv
  <2>3. QED
    BY <2>1, <2>2 DEF Entries, Pending
<1>2. Pending(frames[i]) \subseteq Owed(frames)
  BY DEF Owed
<1>3. QED
  BY <1>1, <1>2, GenFacts

LEMMA OthersAvoid ==
    ASSUME GenInv, EmptyInv, frames # << >>
    PROVE  \A i \in 1..Len(Pop(frames)) :
             Entries(Pop(frames)[i]) \cap Pending(Top(frames)) = {}
<1> SUFFICES ASSUME NEW i \in 1..Len(Pop(frames))
             PROVE  Entries(Pop(frames)[i]) \cap Pending(Top(frames)) = {}
  OBVIOUS
<1> DEFINE f == Pop(frames)[i]
<1>1. frames \in Seq(Frame) /\ Owed(frames) \cap Attached = {}
  BY GenFacts
<1>2. /\ f = frames[i] /\ i \in 1..Len(frames) /\ f \in Frame
  <2>1. /\ Len(frames) \in Nat \ {0} /\ Pop(frames) \in Seq(Frame)
        /\ Len(Pop(frames)) = Len(frames) - 1
        /\ \A j \in 1..(Len(frames) - 1) : Pop(frames)[j] = frames[j]
    BY <1>1, PopFacts
  <2>2. QED
    BY <2>1
<1>3. Entries(f) \subseteq Pending(f) \cup Attached
  <2>1. f.kind \in {"while", "then", "else"}
    BY <1>2 DEF Frame
  <2>2. f.kind = "while" => f.next \in Attached
    BY <1>2 DEF EmptyInv
  <2> HIDE DEF f
  <2>3. QED
    BY <2>1, <2>2 DEF Entries, Pending
<1>4. Pending(f) \subseteq Owed(Pop(frames))
  BY DEF Owed
<1>5. /\ Owed(Pop(frames)) \cap Pending(Top(frames)) = {}
      /\ Pending(Top(frames)) \subseteq Owed(frames)
  BY TopFacts
<1> HIDE DEF f
<1>6. Entries(f) \cap Pending(Top(frames)) = {}
  BY <1>1, <1>3, <1>4, <1>5
<1>7. QED
  BY <1>6 DEF f

-----------------------------------------------------------------------------
(* Terminators, and reads of the result slot.                              *)

Single(c) == \A b \in Block : Terminators(c, b) \subseteq {Len(c[b])}

NoSlot(c) == \A b \in Block : \A k \in 1..Len(c[b]) : c[b][k] # RetSlot

\* An instruction added where there is no terminator is the only one.
LEMMA EmitSingle ==
    ASSUME NEW c \in [Block -> Seq(Instr)], Single(c), NEW b \in Block,
           Terminators(c, b) = {}, NEW i \in Instr, IsTerminator(i) \/ i.succ = {}
    PROVE  Single(Emit(c, b, i))
<1>1. /\ \A x \in Block : x # b => /\ Emit(c, b, i)[x] = c[x]
                                   /\ Terminators(Emit(c, b, i), x) = Terminators(c, x)
      /\ Emit(c, b, i)[b] = Append(c[b], i)
  <2>1. Adds(c, Emit(c, b, i), b, i.succ)
    BY EmitAdds
  <2>2. QED
    BY <2>1, EmitFacts DEF Adds
<1>2. Terminators(Emit(c, b, i), b) \subseteq {Len(c[b]) + 1}
  BY EmitAdds
<1>3. Len(Emit(c, b, i)[b]) = Len(c[b]) + 1
  BY <1>1
<1>4. QED
  BY <1>1, <1>2, <1>3 DEF Single

\* A guarded branch never adds a second terminator to a block with one.
LEMMA CloseSingle ==
    ASSUME NEW c \in [Block -> Seq(Instr)], Single(c), NEW b \in Block,
           NEW i \in Instr, IsTerminator(i)
    PROVE  Single(CloseWith(c, b, i))
<1>1. CASE Terminated(c, b)
  BY <1>1 DEF CloseWith
<1>2. CASE ~Terminated(c, b)
  <2>1. Terminators(c, b) = {}
    <3>1. Terminators(c, b) \subseteq {Len(c[b])}
      BY DEF Single
    <3>2. Len(c[b]) \notin Terminators(c, b)
      BY <1>2 DEF Terminators, Terminated
    <3>3. QED
      BY <3>1, <3>2
  <2>2. QED
    BY <1>2, <2>1, EmitSingle DEF CloseWith
<1>3. QED
  BY <1>1, <1>2

LEMMA EmitNoSlot ==
    ASSUME NEW c \in [Block -> Seq(Instr)], NoSlot(c), NEW b \in Block,
           NEW i \in Instr, i # RetSlot
    PROVE  NoSlot(Emit(c, b, i)) /\ NoSlot(CloseWith(c, b, i))
<1>1. NoSlot(Emit(c, b, i))
  <2>1. /\ \A x \in Block : x # b => Emit(c, b, i)[x] = c[x]
        /\ Emit(c, b, i)[b] = Append(c[b], i)
    BY EmitFacts
  <2>2. /\ Len(c[b]) \in Nat /\ Len(Append(c[b], i)) = Len(c[b]) + 1
        /\ Append(c[b], i)[Len(c[b]) + 1] = i
        /\ \A k \in 1..Len(c[b]) : Append(c[b], i)[k] = c[b][k]
    OBVIOUS
  <2>3. \A k \in 1..(Len(c[b]) + 1) : k \in 1..Len(c[b]) \/ k = Len(c[b]) + 1
    BY <2>2
  <2>4. \A k \in 1..Len(Emit(c, b, i)[b]) : Emit(c, b, i)[b][k] # RetSlot
    BY <2>1, <2>2, <2>3 DEF NoSlot
  <2>5. QED
    BY <2>1, <2>4 DEF NoSlot
<1>2. QED
  BY <1>1 DEF CloseWith

-----------------------------------------------------------------------------
(* The inductive invariant.                                                *)

ReachInv ==
    fn # "none" =>
      \E R : /\ IsReach(code, R) /\ R \subseteq 1..used
             /\ live <=> (at \in R /\ Terminators(code, at) = {})
             /\ StackReach(R, frames, flow)

SingleInv == ~dead => Single(code)

SlotInv == fn # "none" => NoSlot(code)

FlowInv == GenInv /\ FlowShape /\ EmptyInv /\ ReachInv /\ SingleInv /\ SlotInv

\* What a step has to keep besides GenInv and FlowShape.
CodeInv == EmptyInv /\ ReachInv /\ SingleInv /\ SlotInv

\* The premises of the steps, and the set R of the invariant.
LEMMA FlowFacts ==
    ASSUME FlowInv
    PROVE  /\ flow \in Seq(FlowRec) /\ Len(flow) = Len(frames)
           /\ live \in BOOLEAN /\ dead \in BOOLEAN /\ Starts(flow, live)
           /\ frames # << >> => flow # << >>
BY GenFacts DEF FlowInv, FlowShape

\* A new method: only its entry block, which is empty, can be entered.
LEMMA BeginMethodStep ==
    ASSUME FlowInv, NEW kind \in {"void", "value"}, FlowBeginMethod(kind)
    PROVE  CodeInv'
<1>1. /\ frames' = << >> /\ code' = [b \in Block |-> << >>] /\ used' = 1
      /\ layout' = <<1>> /\ at' = 1 /\ live' = TRUE
  BY NothingPending DEF FlowBeginMethod, BeginMethod, FlowInv, GenInv
<1>2. 1 \in Block /\ 1..1 = {1}
  BY BoundsAssumption DEF Block
<1>3. /\ \A b \in Block : code'[b] = << >> /\ Len(code'[b]) = 0
      /\ 1..0 = {}
  BY <1>1
<1>4. \A b \in Block : Terminators(code', b) = {} /\ Successors(code', b) = {}
  <2>1. \A b \in Block : Terminators(code', b) = {}
    BY <1>3 DEF Terminators
  <2>2. QED
    BY <2>1 DEF Successors
<1>5. EmptyInv'
  <2>1. Attached' = {1}
    BY <1>1 DEF Attached
  <2>2. Owed(frames') = {} /\ Len(frames') = 0
    BY <1>1 DEF Owed
  <2>3. QED
    BY <1>1, <1>3, <2>1, <2>2 DEF EmptyInv
<1>6. ReachInv'
  <2>1. IsReach(code', {1})
    BY <1>2, <1>4 DEF IsReach, Closed, WithSuccessors
  <2>2. StackReach({1}, frames', flow')
    BY <1>1 DEF StackReach
  <2>3. live' <=> (at' \in {1} /\ Terminators(code', at') = {})
    BY <1>1, <1>2, <1>4
  <2>4. {1} \subseteq 1..used'
    BY <1>1, <1>2
  <2>5. QED
    BY <2>1, <2>2, <2>3, <2>4 DEF ReachInv
<1>7. SingleInv' /\ SlotInv'
  <2>1. Single(code')
    BY <1>4 DEF Single
  <2>2. NoSlot(code')
    BY <1>3 DEF NoSlot
  <2>3. QED
    BY <2>1, <2>2 DEF SingleInv, SlotInv
<1>8. QED
  BY <1>5, <1>6, <1>7 DEF CodeInv

\* The end of a method: nothing is being written any more.
LEMMA EndMethodStep ==
    ASSUME FlowInv, FlowEndMethod
    PROVE  CodeInv'
<1>1. /\ fn # "none" /\ frames = << >> /\ fn' = "none" /\ dead' = dead
      /\ UNCHANGED <<frames, used, layout>>
      /\ code' = CloseWith(code, at, IF fn = "void" THEN Ret ELSE RetSlot)
  BY DEF FlowEndMethod, EndMethod
<1> DEFINE i == IF fn = "void" THEN Ret ELSE RetSlot
<1>2. i \in Instr /\ IsTerminator(i) /\ i.succ = {}
  BY Instructions
<1> HIDE DEF i
<1>3. code' = CloseWith(code, at, i)
  BY <1>1 DEF i
<1>4. GenInv /\ EmptyInv /\ SingleInv
  BY DEF FlowInv
<1>5. code \in [Block -> Seq(Instr)] /\ at \in Block /\ at \in Attached
      /\ Attached \subseteq 1..used /\ used \in Nat /\ Block \subseteq Nat
  BY <1>1, <1>4, GenFacts DEF EmptyInv
<1>6. Adds(code, code', at, i.succ)
  BY <1>2, <1>3, <1>5, CloseAdds
<1>7. EmptyInv'
  <2>1. Owed(frames') = {} /\ Len(frames') = 0
    BY <1>1 DEF Owed
  <2>2. \A b \in Block : b > used' => code'[b] = << >>
    <3>1. \A b \in Block : b > used => b # at
      BY <1>5
    <3>2. QED
      BY <1>1, <1>4, <1>6, <3>1 DEF Adds, EmptyInv
  <2>3. QED
    BY <1>1, <2>1, <2>2 DEF EmptyInv
<1>8. ReachInv' /\ SlotInv'
  BY <1>1 DEF ReachInv, SlotInv
<1>9. SingleInv'
  BY <1>1, <1>2, <1>3, <1>4, <1>5, CloseSingle DEF SingleInv
<1>10. QED
  BY <1>7, <1>8, <1>9 DEF CodeInv

\* The parts of the invariant that concern the insertion point only.
LEMMA WritingFacts ==
    ASSUME FlowInv, fn # "none"
    PROVE  /\ code \in [Block -> Seq(Instr)] /\ used \in Nat
           /\ at \in Block /\ at \in 1..used /\ at \in Attached /\ at \notin Owed(frames)
           /\ \A b \in Owed(frames) : b \in Block /\ code[b] = << >>
           /\ \A b \in Block : b > used => code[b] = << >> /\ b # at
           /\ NoSlot(code)
           /\ ~dead => Single(code)
<1>1. GenInv /\ EmptyInv /\ SlotInv /\ SingleInv
  BY DEF FlowInv
<1>2. /\ code \in [Block -> Seq(Instr)] /\ used \in Nat
      /\ at \in Block /\ at \in 1..used /\ Block = 1..MaxBlock /\ MaxBlock \in Nat
      /\ Owed(frames) \subseteq Block /\ Owed(frames) \cap Attached = {}
  BY <1>1, GenFacts
<1>3. at \in Attached /\ at \notin Owed(frames)
  BY <1>1, <1>2 DEF EmptyInv
<1>4. \A b \in Block : b > used => code[b] = << >> /\ b # at
  BY <1>1, <1>2 DEF EmptyInv
<1>5. \A b \in Owed(frames) : b \in Block /\ code[b] = << >>
  BY <1>1, <1>2 DEF EmptyInv
<1>6. NoSlot(code) /\ (~dead => Single(code))
  BY <1>1 DEF SlotInv, SingleInv
<1>7. QED
  BY <1>2, <1>3, <1>4, <1>5, <1>6

\* A block that holds nothing has no terminator and leads nowhere.
LEMMA EmptyBlock ==
    ASSUME NEW c, NEW b, c[b] = << >>
    PROVE  Terminators(c, b) = {} /\ Successors(c, b) = {}
<1>1. Len(c[b]) = 0 /\ 1..0 = {}
  OBVIOUS
<1>2. Terminators(c, b) = {}
  BY <1>1 DEF Terminators
<1>3. QED
  BY <1>2 DEF Successors

\* One instruction is emitted for a statement; what it branches to can be
\* entered already if the statement is reached.
LEMMA PutStep ==
    ASSUME FlowInv, NEW i \in Instr, IsTerminator(i) \/ i.succ = {}, i # RetSlot,
           i.succ \subseteq 2..used, Put(i), flow' = flow, Visited,
           IsTerminator(i) => live' = FALSE,
           ~IsTerminator(i) => live' = live,
           \A R : StackReach(R, frames, flow) /\ live => i.succ \subseteq R
    PROVE  CodeInv'
<1>1. /\ fn # "none" /\ fn' = fn /\ code' = Emit(code, at, i)
      /\ UNCHANGED <<used, layout, at, frames, flow>>
      /\ dead' = (dead \/ ~live)
  BY DEF Put, Visited
<1>2. /\ code \in [Block -> Seq(Instr)] /\ used \in Nat /\ Len(code[at]) \in Nat
      /\ at \in Block /\ at \in Attached /\ at \notin Owed(frames)
      /\ \A b \in Owed(frames) : b \in Block /\ code[b] = << >>
      /\ \A b \in Block : b > used => code[b] = << >> /\ b # at
      /\ NoSlot(code) /\ (~dead => Single(code))
  BY <1>1, WritingFacts
<1>3. /\ Adds(code, code', at, i.succ)
      /\ IsTerminator(i) => Terminators(code', at) = Terminators(code, at) \cup {Len(code[at]) + 1}
      /\ ~IsTerminator(i) => Terminators(code', at) = Terminators(code, at)
  BY <1>1, <1>2, EmitAdds
<1>4. EmptyInv'
  <2>1. \A b \in Owed(frames') : code'[b] = << >>
    BY <1>1, <1>2, <1>3 DEF Adds
  <2>2. \A b \in Block : b > used' => code'[b] = << >>
    BY <1>1, <1>2, <1>3 DEF Adds
  <2>3. EmptyInv /\ Attached' = Attached
    BY <1>1 DEF FlowInv, Attached
  <2>4. QED
    BY <1>1, <2>1, <2>2, <2>3 DEF EmptyInv
<1>5. PICK R : /\ IsReach(code, R) /\ R \subseteq 1..used
               /\ live <=> (at \in R /\ Terminators(code, at) = {})
               /\ StackReach(R, frames, flow)
  BY <1>1 DEF FlowInv, ReachInv
<1>6. ReachInv'
  <2>1. live => i.succ \subseteq R
    BY <1>5
  <2>2. i.succ \in SUBSET Block
    BY DEF Instr
  <2>3. IsReach(code', IF at \in R /\ Terminators(code, at) = {} THEN R \cup i.succ ELSE R)
    <3>1. at \in R /\ Terminators(code, at) = {} =>
            \A t \in i.succ : t \notin R => Successors(code, t) \subseteq R \cup i.succ
      BY <1>5, <2>1
    <3>2. at \in Block /\ Adds(code, code', at, i.succ) /\ IsReach(code, R)
      BY <1>2, <1>3, <1>5
    <3>3. QED
      BY ONLY <2>2, <3>1, <3>2, ReachGrows
  <2>4. (IF at \in R /\ Terminators(code, at) = {} THEN R \cup i.succ ELSE R) = R
    BY <1>5, <2>1
  <2>5. IsReach(code', R)
    BY <2>3, <2>4
  <2>6. live' <=> (at \in R /\ Terminators(code', at) = {})
    <3>1. CASE IsTerminator(i)
      BY <1>3, <3>1
    <3>2. CASE ~IsTerminator(i)
      BY <1>3, <1>5, <3>2
    <3>3. QED
      BY <3>1, <3>2
  <2>7. QED
    BY <1>1, <1>5, <2>5, <2>6 DEF ReachInv
<1>7. SingleInv'
  <2>1. ASSUME ~dead'
        PROVE  Single(code')
    <3>1. ~dead /\ live
      BY <1>1, <2>1
    <3>2. Single(code) /\ Terminators(code, at) = {}
      BY <1>2, <1>5, <3>1
    <3>3. QED
      BY <1>1, <1>2, <3>2, EmitSingle
  <2>2. QED
    BY <2>1 DEF SingleInv
<1>8. SlotInv'
  BY <1>1, <1>2, EmitNoSlot DEF SlotInv
<1>9. QED
  BY <1>4, <1>6, <1>7, <1>8 DEF CodeInv

\* A statement without control flow.
LEMMA SimpleStep ==
    ASSUME FlowInv, FlowSimple
    PROVE  CodeInv'
<1>1. Op \in Instr /\ ~IsTerminator(Op) /\ Op.succ = {} /\ Op # RetSlot
  BY Instructions DEF Op, RetSlot, IsTerminator
<1>2. Put(Op) /\ flow' = flow /\ live' = live /\ Visited
  BY DEF FlowSimple, Simple
<1>3. QED
  BY <1>1, <1>2, PutStep

LEMMA ReturnStep ==
    ASSUME FlowInv, Return, live' = FALSE, Visited, flow' = flow
    PROVE  CodeInv'
<1>1. Ret \in Instr /\ IsTerminator(Ret) /\ Ret.succ = {} /\ Ret # RetSlot
  BY Instructions DEF Ret, RetSlot
<1>2. Put(Ret)
  BY DEF Return
<1>3. QED
  BY <1>1, <1>2, PutStep

\* The exit of the innermost loop can be entered if the loop is reached, and
\* a break is only reached if its loop is.
LEMMA BreakStep ==
    ASSUME FlowInv, Break, live' = FALSE, Visited, flow' = flow
    PROVE  CodeInv'
<1> DEFINE b == Top(breakPoints)
<1>1. Put(Br(b)) /\ breakPoints # << >>
  BY DEF Break
<1>2. GenInv /\ Inv
  BY DEF FlowInv, GenInv
<1>3. /\ breakPoints \in Seq(2..used) /\ used \in Nat /\ used <= MaxBlock
      /\ MaxBlock \in Nat /\ Block = 1..MaxBlock
  BY <1>2, GenFacts DEF Inv, FramesOK
<1>4. /\ b \in 2..used /\ b \in Block /\ Len(breakPoints) \in 1..Len(breakPoints)
      /\ b = breakPoints[Len(breakPoints)]
  <2>1. b \in 2..used /\ Len(breakPoints) \in Nat \ {0}
        /\ b = breakPoints[Len(breakPoints)]
    BY <1>1, <1>3, PopFacts
  <2>2. QED
    BY <1>3, <2>1
<1>5. PICK h : LoopMap(h, breakPoints, frames)
  BY <1>2 DEF Inv, LoopsMatch
<1> HIDE DEF b
<1>6. PICK j \in 1..Len(frames) : frames[j].kind = "while" /\ frames[j].merge = b
  BY <1>4, <1>5 DEF LoopMap
<1>7. ASSUME NEW R, StackReach(R, frames, flow), live
      PROVE  b \in R
  <2>1. FrameReach(R, frames[j], flow[j])
    BY <1>7 DEF StackReach
  <2>2. Len(flow) = Len(frames) /\ Starts(flow, live)
    BY FlowFacts
  <2>3. flow[j].start
    BY <1>7, <2>2 DEF Starts
  <2>4. QED
    BY <1>6, <2>1, <2>3 DEF FrameReach
<1>8. /\ Br(b) \in Instr /\ IsTerminator(Br(b)) /\ Br(b).succ = {b} /\ Br(b) # RetSlot
      /\ Br(b).succ \subseteq 2..used
  <2>1. Br(b) \in Instr /\ IsTerminator(Br(b)) /\ Br(b).succ = {b}
    BY <1>4, Instructions
  <2>2. Br(b) # RetSlot
    BY <2>1, Instructions
  <2>3. QED
    BY <1>4, <2>1, <2>2
<1>9. \A R : StackReach(R, frames, flow) /\ live => Br(b).succ \subseteq R
  BY <1>7, <1>8
<1>10. Put(Br(b))
  BY <1>1 DEF b
<1>11. QED
  BY <1>8, <1>9, <1>10, PutStep

\* Three blocks are created: they are new, empty, and branched to by nothing.
LEMMA NewBlocks ==
    ASSUME FlowInv, fn # "none", used + 3 <= MaxBlock
    PROVE  \A k \in {1, 2, 3} :
             /\ used + k \in Block /\ used + k > used /\ used + k # at
             /\ used + k \notin 1..used /\ used + k \notin Owed(frames)
             /\ used + k \in Nat
             /\ code[used + k] = << >>
             /\ Terminators(code, used + k) = {} /\ Successors(code, used + k) = {}
<1> SUFFICES ASSUME NEW k \in {1, 2, 3}
             PROVE  /\ used + k \in Block /\ used + k > used /\ used + k # at
                    /\ used + k \notin 1..used /\ used + k \notin Owed(frames)
                    /\ used + k \in Nat
                    /\ code[used + k] = << >>
                    /\ Terminators(code, used + k) = {} /\ Successors(code, used + k) = {}
  OBVIOUS
<1>1. /\ used \in Nat /\ MaxBlock \in Nat /\ Block = 1..MaxBlock /\ at \in 1..used
      /\ Owed(frames) \subseteq 2..used
  BY GenFacts, WritingFacts DEF FlowInv
<1>2. /\ used + k \in Block /\ used + k > used /\ used + k # at /\ used + k \in Nat
      /\ used + k \notin 1..used /\ used + k \notin Owed(frames)
  BY <1>1
<1>3. code[used + k] = << >>
  BY <1>2, WritingFacts
<1>4. QED
  BY <1>2, <1>3, EmptyBlock

\* The condition, the body and the exit of a loop can be entered if the
\* statement is reached.
LEMMA BeginWhileStep ==
    ASSUME FlowInv, FlowOpen, BeginWhile
    PROVE  CodeInv'
<1> DEFINE a == used + 1
           b == used + 2
           m == used + 3
           f == [kind |-> "while", next |-> a, merge |-> m]
           g == [start |-> live, then |-> FALSE]
           mid == Emit(code, at, Br(a))
<1>1. /\ fn # "none" /\ fn' = fn /\ m <= MaxBlock
      /\ used' = m /\ at' = b /\ live' = live /\ dead' = (dead \/ ~live)
      /\ layout' = layout \o <<a, b>>
      /\ frames' = Append(frames, f) /\ flow' = Append(flow, g)
      /\ code' = Emit(mid, a, CondBr(b, m))
  BY DEF BeginWhile, OpenWhile, FlowOpen, Visited
<1>2. /\ code \in [Block -> Seq(Instr)] /\ used \in Nat
      /\ at \in Block /\ at \in 1..used /\ at \in Attached /\ at \notin Owed(frames)
      /\ \A x \in Owed(frames) : x \in Block /\ code[x] = << >>
      /\ \A x \in Block : x > used => code[x] = << >> /\ x # at
      /\ NoSlot(code) /\ (~dead => Single(code))
  BY <1>1, WritingFacts
<1>3. /\ frames \in Seq(Frame) /\ Len(frames) \in Nat /\ layout \in Seq(Nat)
      /\ Attached \subseteq 1..used /\ Owed(frames) \subseteq 2..used
      /\ OwedOnce(frames) /\ GenInv /\ EmptyInv /\ Block = 1..MaxBlock /\ MaxBlock \in Nat
      /\ flow \in Seq(FlowRec) /\ Len(flow) = Len(frames) /\ live \in BOOLEAN
  BY GenFacts, FlowFacts DEF FlowInv
<1>4. \A x \in {a, b, m} :
         /\ x \in Block /\ x > used /\ x # at /\ x \notin 1..used /\ x \in Nat
         /\ x \notin Owed(frames) /\ code[x] = << >>
         /\ Terminators(code, x) = {} /\ Successors(code, x) = {}
  <2>1. used + 3 <= MaxBlock
    BY <1>1
  <2>2. QED
    BY <1>1, <2>1, NewBlocks
<1>5. a # b /\ b # m /\ a # m /\ used' \in Nat
      /\ \A x \in Block : x > m => x > used /\ x # a
  BY <1>1, <1>2, <1>3
<1>6. /\ f \in Frame /\ f.kind = "while" /\ f.next = a /\ f.merge = m /\ Pending(f) = {m}
      /\ g \in FlowRec /\ g.start = live
  BY <1>3, <1>4 DEF Frame, Pending, FlowRec
<1> HIDE DEF a, b, m, f, g, mid
<1>7. /\ Br(a) \in Instr /\ IsTerminator(Br(a)) /\ Br(a).succ = {a} /\ Br(a) # RetSlot
      /\ CondBr(b, m) \in Instr /\ IsTerminator(CondBr(b, m))
      /\ CondBr(b, m).succ = {b, m} /\ CondBr(b, m) # RetSlot
  <2>1. /\ Br(a) \in Instr /\ IsTerminator(Br(a)) /\ Br(a).succ = {a}
        /\ CondBr(b, m) \in Instr /\ IsTerminator(CondBr(b, m))
        /\ CondBr(b, m).succ = {b, m}
    BY <1>4, Instructions
  <2>2. QED
    BY <2>1, Instructions
<1>8. mid \in [Block -> Seq(Instr)] /\ Adds(code, mid, at, {a})
  <2>1. mid \in [Block -> Seq(Instr)]
    BY <1>2, <1>7, EmitFacts DEF mid
  <2>2. Adds(code, mid, at, Br(a).succ)
    BY <1>2, <1>7, EmitAdds DEF mid
  <2>3. QED
    BY <1>7, <2>1, <2>2
<1>9. Adds(mid, code', a, {b, m})
  <2>1. a \in Block
    BY <1>4
  <2>2. Adds(mid, code', a, CondBr(b, m).succ)
    BY <1>1, <1>7, <1>8, <2>1, EmitAdds
  <2>3. QED
    BY <1>7, <2>2
<1>10. \A x \in {a, b, m} : Terminators(mid, x) = {} /\ Successors(mid, x) = {}
  BY <1>4, <1>8 DEF Adds
<1>11. Attached' = Attached \cup {a, b}
  BY <1>1, <1>3, <1>4, AttachTwo
<1>12. EmptyInv'
  <2>1. Owed(frames') = Owed(frames) \cup {m}
    BY <1>1, <1>3, <1>6, PushOwed
  <2>2. \A x \in Block : x # at /\ x # a => code'[x] = code[x]
    BY <1>8, <1>9 DEF Adds
  <2>3. \A x \in Owed(frames') : code'[x] = << >>
    BY <1>2, <1>4, <1>5, <2>1, <2>2
  <2>4. \A x \in Block : x > used' => code'[x] = << >>
    BY <1>1, <1>2, <1>5, <2>2
  <2>5. \A i \in 1..Len(frames') : frames'[i].kind = "while" => frames'[i].next \in Attached'
    <3>1. /\ Len(frames') = Len(frames) + 1 /\ frames'[Len(frames) + 1] = f
          /\ \A i \in 1..Len(frames) : frames'[i] = frames[i]
      BY <1>1, <1>3, <1>6
    <3>2. \A i \in 1..(Len(frames) + 1) : i \in 1..Len(frames) \/ i = Len(frames) + 1
      BY <1>3
    <3>3. QED
      BY <1>3, <1>6, <1>11, <3>1, <3>2 DEF EmptyInv
  <2>6. QED
    BY <1>1, <1>11, <2>3, <2>4, <2>5 DEF EmptyInv
<1>13. PICK R : /\ IsReach(code, R) /\ R \subseteq 1..used
                /\ live <=> (at \in R /\ Terminators(code, at) = {})
                /\ StackReach(R, frames, flow)
  BY <1>1 DEF FlowInv, ReachInv
<1>14. ReachInv'
  <2> DEFINE S == IF live THEN R \cup {a} ELSE R
             S2 == IF live THEN R \cup {a, b, m} ELSE R
  <2>1. IsReach(mid, S)
    <3>1. IsReach(mid, IF at \in R /\ Terminators(code, at) = {} THEN R \cup {a} ELSE R)
      <4>1. {a} \in SUBSET Block
        BY <1>4
      <4>2. \A t \in {a} : Successors(code, t) \subseteq R \cup {a}
        BY <1>4
      <4>3. QED
        BY <1>2, <1>8, <1>13, <4>1, <4>2, ReachGrows
    <3>2. QED
      BY <1>13, <3>1
  <2>2. a \in S <=> live
    BY <1>4, <1>13
  <2>3. IsReach(code', S2)
    <3>1. {b, m} \in SUBSET Block /\ a \in Block
      BY <1>4
    <3>2. \A t \in {b, m} : Successors(mid, t) \subseteq S \cup {b, m}
      BY <1>10
    <3> HIDE DEF S
    <3>3. IsReach(code', IF a \in S /\ Terminators(mid, a) = {} THEN S \cup {b, m} ELSE S)
      BY <1>9, <2>1, <3>1, <3>2, ReachGrows
    <3>4. (IF a \in S /\ Terminators(mid, a) = {} THEN S \cup {b, m} ELSE S) = S2
      BY <1>10, <2>2 DEF S
    <3>5. QED
      BY <3>3, <3>4
  <2>4. /\ a \in S2 <=> live
        /\ b \in S2 <=> live
        /\ m \in S2 <=> live
        /\ \A x \in 1..used : x \in R <=> x \in S2
        /\ S2 \subseteq 1..used'
    <3>1. R \subseteq 1..used'
      BY <1>1, <1>2, <1>13 DEF m
    <3>2. {a, b, m} \subseteq 1..used'
      BY <1>1, <1>2 DEF a, b, m
    <3>3. QED
      BY <1>4, <1>13, <3>1, <3>2
  <2> HIDE DEF S2
  <2>5. StackReach(S2, frames, flow)
    BY <1>3, <1>13, <2>4, EntriesKnown, KeepReach
  <2>6. FrameReach(S2, f, g)
    BY <1>6, <2>4 DEF FrameReach
  <2>7. StackReach(S2, frames', flow')
    BY <1>1, <1>3, <1>6, <2>5, <2>6, PushReach
  <2>8. Terminators(code', b) = {}
    BY <1>4, <1>5, <1>9, <1>10 DEF Adds
  <2>9. QED
    BY <1>1, <2>3, <2>4, <2>7, <2>8 DEF ReachInv
<1>15. SingleInv'
  <2>1. ASSUME ~dead'
        PROVE  Single(code')
    <3>1. Single(code) /\ Terminators(code, at) = {}
      BY <1>1, <1>2, <1>13, <2>1
    <3>2. Single(mid)
      BY <1>2, <1>7, <3>1, EmitSingle DEF mid
    <3>3. QED
      BY <1>1, <1>4, <1>7, <1>8, <1>10, <3>2, EmitSingle
  <2>2. QED
    BY <2>1 DEF SingleInv
<1>16. SlotInv'
  <2>1. NoSlot(mid)
    BY <1>2, <1>7, EmitNoSlot DEF mid
  <2>2. NoSlot(code')
    BY <1>1, <1>4, <1>7, <1>8, <2>1, EmitNoSlot
  <2>3. QED
    BY <2>2 DEF SlotInv
<1>17. QED
  BY <1>12, <1>14, <1>15, <1>16 DEF CodeInv

\* Both branches of an if can be entered if the statement is reached, and what
\* follows the if cannot yet.
LEMMA BeginIfStep ==
    ASSUME FlowInv, FlowOpen, BeginIf
    PROVE  CodeInv'
<1> DEFINE a == used + 1
           b == used + 2
           m == used + 3
           f == [kind |-> "then", next |-> b, merge |-> m]
           g == [start |-> live, then |-> FALSE]
<1>1. /\ fn # "none" /\ fn' = fn /\ m <= MaxBlock
      /\ used' = m /\ at' = a /\ live' = live /\ dead' = (dead \/ ~live)
      /\ layout' = Append(layout, a)
      /\ frames' = Append(frames, f) /\ flow' = Append(flow, g)
      /\ code' = Emit(code, at, CondBr(a, b))
  BY DEF BeginIf, OpenIf, FlowOpen, Visited
<1>2. /\ code \in [Block -> Seq(Instr)] /\ used \in Nat
      /\ at \in Block /\ at \in 1..used /\ at \in Attached /\ at \notin Owed(frames)
      /\ \A x \in Owed(frames) : x \in Block /\ code[x] = << >>
      /\ \A x \in Block : x > used => code[x] = << >> /\ x # at
      /\ NoSlot(code) /\ (~dead => Single(code))
  BY <1>1, WritingFacts
<1>3. /\ frames \in Seq(Frame) /\ Len(frames) \in Nat /\ layout \in Seq(Nat)
      /\ Attached \subseteq 1..used /\ Owed(frames) \subseteq 2..used
      /\ OwedOnce(frames) /\ GenInv /\ EmptyInv /\ Block = 1..MaxBlock /\ MaxBlock \in Nat
      /\ flow \in Seq(FlowRec) /\ Len(flow) = Len(frames) /\ live \in BOOLEAN
  BY GenFacts, FlowFacts DEF FlowInv
<1>4. \A x \in {a, b, m} :
         /\ x \in Block /\ x > used /\ x # at /\ x \notin 1..used /\ x \in Nat
         /\ x \notin Owed(frames) /\ code[x] = << >>
         /\ Terminators(code, x) = {} /\ Successors(code, x) = {}
  <2>1. used + 3 <= MaxBlock
    BY <1>1
  <2>2. QED
    BY <1>1, <2>1, NewBlocks
<1>5. a # b /\ b # m /\ a # m /\ used' \in Nat
      /\ \A x \in Block : x > m => x > used
  BY <1>1, <1>2, <1>3
<1>6. /\ f \in Frame /\ f.kind = "then" /\ f.next = b /\ f.merge = m /\ Pending(f) = {b, m}
      /\ g \in FlowRec /\ g.start = live
  BY <1>3, <1>4 DEF Frame, Pending, FlowRec
<1> HIDE DEF a, b, m, f, g
<1>7. /\ CondBr(a, b) \in Instr /\ IsTerminator(CondBr(a, b))
      /\ CondBr(a, b).succ = {a, b} /\ CondBr(a, b) # RetSlot
  <2>1. /\ CondBr(a, b) \in Instr /\ IsTerminator(CondBr(a, b))
        /\ CondBr(a, b).succ = {a, b}
    BY <1>4, Instructions
  <2>2. QED
    BY <2>1, Instructions
<1>8. Adds(code, code', at, {a, b})
  <2>1. Adds(code, code', at, CondBr(a, b).succ)
    BY <1>1, <1>2, <1>7, EmitAdds
  <2>2. QED
    BY <1>7, <2>1
<1>9. Attached' = Attached \cup {a}
  BY <1>1, <1>3, <1>4, AttachOne
<1>10. EmptyInv'
  <2>1. Owed(frames') = Owed(frames) \cup {b, m}
    BY <1>1, <1>3, <1>6, PushOwed
  <2>2. \A x \in Block : x # at => code'[x] = code[x]
    BY <1>8 DEF Adds
  <2>3. \A x \in Owed(frames') : code'[x] = << >>
    BY <1>2, <1>4, <2>1, <2>2
  <2>4. \A x \in Block : x > used' => code'[x] = << >>
    BY <1>1, <1>2, <1>5, <2>2
  <2>5. \A i \in 1..Len(frames') : frames'[i].kind = "while" => frames'[i].next \in Attached'
    <3>1. /\ Len(frames') = Len(frames) + 1 /\ frames'[Len(frames) + 1] = f
          /\ \A i \in 1..Len(frames) : frames'[i] = frames[i]
      BY <1>1, <1>3, <1>6
    <3>2. \A i \in 1..(Len(frames) + 1) : i \in 1..Len(frames) \/ i = Len(frames) + 1
      BY <1>3
    <3>3. QED
      BY <1>3, <1>6, <1>9, <3>1, <3>2 DEF EmptyInv
  <2>6. QED
    BY <1>1, <1>9, <2>3, <2>4, <2>5 DEF EmptyInv
<1>11. PICK R : /\ IsReach(code, R) /\ R \subseteq 1..used
                /\ live <=> (at \in R /\ Terminators(code, at) = {})
                /\ StackReach(R, frames, flow)
  BY <1>1 DEF FlowInv, ReachInv
<1>12. ReachInv'
  <2> DEFINE S == IF live THEN R \cup {a, b} ELSE R
  <2>1. IsReach(code', S)
    <3>1. {a, b} \in SUBSET Block
      BY <1>4
    <3>2. \A t \in {a, b} : Successors(code, t) \subseteq R \cup {a, b}
      BY <1>4
    <3>3. IsReach(code', IF at \in R /\ Terminators(code, at) = {} THEN R \cup {a, b} ELSE R)
      BY <1>2, <1>8, <1>11, <3>1, <3>2, ReachGrows
    <3>4. QED
      BY <1>11, <3>3
  <2>2. /\ a \in S <=> live
        /\ b \in S <=> live
        /\ m \notin S
        /\ \A x \in 1..used : x \in R <=> x \in S
        /\ S \subseteq 1..used'
    <3>1. R \subseteq 1..used'
      BY <1>1, <1>2, <1>11 DEF m
    <3>2. {a, b} \subseteq 1..used'
      BY <1>1, <1>2 DEF a, b, m
    <3>3. QED
      BY <1>4, <1>5, <1>11, <3>1, <3>2
  <2> HIDE DEF S
  <2>3. StackReach(S, frames, flow)
    BY <1>3, <1>11, <2>2, EntriesKnown, KeepReach
  <2>4. FrameReach(S, f, g)
    BY <1>6, <2>2 DEF FrameReach
  <2>5. StackReach(S, frames', flow')
    BY <1>1, <1>3, <1>6, <2>3, <2>4, PushReach
  <2>6. Terminators(code', a) = {}
    BY <1>4, <1>8 DEF Adds
  <2>7. QED
    BY <1>1, <2>1, <2>2, <2>5, <2>6 DEF ReachInv
<1>13. SingleInv'
  <2>1. ASSUME ~dead'
        PROVE  Single(code')
    <3>1. Single(code) /\ Terminators(code, at) = {}
      BY <1>1, <1>2, <1>11, <2>1
    <3>2. QED
      BY <1>1, <1>2, <1>7, <3>1, EmitSingle
  <2>2. QED
    BY <2>1 DEF SingleInv
<1>14. SlotInv'
  BY <1>1, <1>2, <1>7, EmitNoSlot DEF SlotInv
<1>15. QED
  BY <1>10, <1>12, <1>13, <1>14 DEF CodeInv

\* What closing the current block with a branch keeps of the invariant.  Some
\* of the blocks that are owed are put in the function, and one of them is the
\* next to be written.
LEMMA CloseStep ==
    ASSUME FlowInv, fn # "none", frames # << >>,
           NEW i \in Instr, IsTerminator(i), i # RetSlot,
           NEW d, d = CloseWith(code, at, i)
    PROVE  /\ d \in [Block -> Seq(Instr)]
           /\ Adds(code, d, at, i.succ)
           /\ \A b \in Owed(frames) :
                d[b] = << >> /\ Terminators(d, b) = {} /\ Successors(d, b) = {}
           /\ \A b \in Block : b > used => d[b] = << >>
           /\ ~dead => Single(d)
           /\ NoSlot(d)
<1>1. /\ code \in [Block -> Seq(Instr)]
      /\ at \in Block /\ at \notin Owed(frames)
      /\ \A b \in Owed(frames) : b \in Block /\ code[b] = << >>
      /\ \A b \in Block : b > used => code[b] = << >> /\ b # at
      /\ NoSlot(code) /\ (~dead => Single(code))
  BY WritingFacts
<1>2. d \in [Block -> Seq(Instr)] /\ Adds(code, d, at, i.succ)
  BY <1>1, CloseFacts, CloseAdds
<1>3. \A b \in Owed(frames) : d[b] = << >>
  BY <1>1, <1>2 DEF Adds
<1>4. \A b \in Block : b > used => d[b] = << >>
  BY <1>1, <1>2 DEF Adds
<1>5. NoSlot(d) /\ (~dead => Single(d))
  BY <1>1, CloseSingle, EmitNoSlot
<1>6. \A b \in Owed(frames) : Terminators(d, b) = {} /\ Successors(d, b) = {}
  BY <1>3, EmptyBlock
<1>7. QED
  BY <1>2, <1>3, <1>4, <1>5, <1>6

\* A visitor returns: what it leaves of EmptyInv.
LEMMA PopEmpties ==
    ASSUME FlowInv, frames # << >>, frames' = Pop(frames), used' = used,
           Attached \subseteq Attached', at' \in Attached',
           \A b \in Owed(Pop(frames)) : code'[b] = << >>,
           \A b \in Block : b > used => code'[b] = << >>
    PROVE  EmptyInv'
<1>1. frames \in Seq(Frame) /\ EmptyInv
  BY GenFacts DEF FlowInv
<1>2. /\ Len(frames) \in Nat \ {0} /\ Len(Pop(frames)) = Len(frames) - 1
      /\ \A i \in 1..(Len(frames) - 1) : Pop(frames)[i] = frames[i]
  BY <1>1, PopFacts
<1>3. \A i \in 1..Len(frames') : frames'[i].kind = "while" => frames'[i].next \in Attached'
  <2>1. \A i \in 1..Len(frames') : i \in 1..Len(frames) /\ frames'[i] = frames[i]
    BY <1>2
  <2>2. QED
    BY <1>1, <2>1 DEF EmptyInv
<1>4. QED
  BY <1>3 DEF EmptyInv

\* The back edge of a loop leads to a block that can be entered already.
LEMMA EndWhileStep ==
    ASSUME FlowInv, FlowSkippable, EndWhile
    PROVE  CodeInv'
<1> DEFINE top == Top(frames)
           i == Br(top.next)
<1>1. /\ frames # << >> /\ top.kind = "while" /\ fn' = fn
      /\ code' = CloseWith(code, at, i)
      /\ layout' = Append(layout, top.merge) /\ at' = top.merge
      /\ frames' = Pop(frames) /\ used' = used /\ dead' = dead
      /\ live' = Top(flow).start /\ flow' = Pop(flow)
  BY DEF EndWhile, CloseWhile, FlowSkippable
<1>2. /\ fn # "none" /\ at \in Block /\ top.next \in Block /\ top.merge \in Block
      /\ top.merge \in Owed(frames) /\ Owed(Pop(frames)) \subseteq Owed(frames)
  BY <1>1, TopFacts DEF FlowInv
<1>3. /\ frames \in Seq(Frame) /\ layout \in Seq(Nat) /\ top.merge \in Nat
      /\ flow \in Seq(FlowRec) /\ Len(flow) = Len(frames) /\ flow # << >>
      /\ live \in BOOLEAN /\ Starts(flow, live)
  BY <1>1, <1>2, GenFacts, FlowFacts DEF FlowInv
<1>4. i \in Instr /\ IsTerminator(i) /\ i.succ = {top.next} /\ i # RetSlot
  <2>1. i \in Instr /\ IsTerminator(i) /\ i.succ = {top.next}
    BY <1>2, Instructions
  <2>2. QED
    BY <2>1, Instructions
<1> HIDE DEF i
<1>5. /\ Adds(code, code', at, {top.next})
      /\ \A b \in Owed(frames) :
           code'[b] = << >> /\ Terminators(code', b) = {} /\ Successors(code', b) = {}
      /\ \A b \in Block : b > used => code'[b] = << >>
      /\ ~dead => Single(code')
      /\ NoSlot(code')
  <2>1. /\ Adds(code, code', at, i.succ)
        /\ \A b \in Owed(frames) :
             code'[b] = << >> /\ Terminators(code', b) = {} /\ Successors(code', b) = {}
        /\ \A b \in Block : b > used => code'[b] = << >>
        /\ ~dead => Single(code')
        /\ NoSlot(code')
    BY <1>1, <1>2, <1>4, CloseStep
  <2>2. QED
    BY <1>4, <2>1
<1>6. EmptyInv'
  <2>1. Attached' = Attached \cup {top.merge}
    BY <1>1, <1>3, AttachOne
  <2>2. QED
    BY <1>1, <1>2, <1>5, <2>1, PopEmpties
<1>7. PICK R : /\ IsReach(code, R) /\ R \subseteq 1..used
               /\ live <=> (at \in R /\ Terminators(code, at) = {})
               /\ StackReach(R, frames, flow)
  BY <1>2 DEF FlowInv, ReachInv
<1>8. ReachInv'
  <2>1. StackReach(R, Pop(frames), Pop(flow)) /\ FrameReach(R, top, Top(flow))
    BY <1>1, <1>3, <1>7, PopReach
  <2>2. /\ top.next \in R <=> Top(flow).start
        /\ top.merge \in R <=> Top(flow).start
    BY <1>1, <2>1 DEF FrameReach
  <2>3. live => Top(flow).start
    <3>1. live \/ Top(flow).then => Top(flow).start
      BY ONLY <1>3, PopStarts
    <3>2. QED
      BY <3>1
  <2>4. live => {top.next} \subseteq R
    BY <2>2, <2>3
  <2>5. IsReach(code', IF at \in R /\ Terminators(code, at) = {} THEN R \cup {top.next} ELSE R)
    <3>1. {top.next} \in SUBSET Block
      BY <1>2
    <3>2. at \in R /\ Terminators(code, at) = {} =>
            \A t \in {top.next} : t \notin R => Successors(code, t) \subseteq R \cup {top.next}
      BY <1>7, <2>4
    <3>3. Adds(code, code', at, {top.next}) /\ IsReach(code, R) /\ at \in Block
      BY <1>2, <1>5, <1>7
    <3> HIDE DEF top
    <3>4. QED
      BY ONLY <3>1, <3>2, <3>3, ReachGrows
  <2>6. IsReach(code', R)
    BY <1>7, <2>4, <2>5
  <2>7. Terminators(code', top.merge) = {}
    BY <1>2, <1>5
  <2>8. QED
    BY <1>1, <1>7, <2>1, <2>2, <2>6, <2>7 DEF ReachInv
<1>9. SingleInv' /\ SlotInv'
  BY <1>1, <1>5 DEF SingleInv, SlotInv
<1>10. QED
  BY <1>6, <1>8, <1>9 DEF CodeInv

\* What follows an if with two branches can be entered from the second one,
\* if that falls through, or from the first.
LEMMA EndElseStep ==
    ASSUME FlowInv, FlowEndElse
    PROVE  CodeInv'
<1> DEFINE top == Top(frames)
           m == top.merge
           i == Br(m)
<1>1. /\ frames # << >> /\ top.kind = "else" /\ fn' = fn
      /\ code' = CloseWith(code, at, i)
      /\ layout' = Append(layout, m) /\ at' = m
      /\ frames' = Pop(frames) /\ used' = used /\ dead' = dead
      /\ live' = (live \/ Top(flow).then) /\ flow' = Pop(flow)
  BY DEF EndElse, CloseIf, FlowEndElse
<1>2. /\ fn # "none" /\ at \in Block /\ m \in Block /\ m \in Pending(top)
      /\ m \in Owed(frames) /\ Owed(Pop(frames)) \subseteq Owed(frames)
  BY <1>1, TopFacts DEF FlowInv
<1>3. /\ frames \in Seq(Frame) /\ layout \in Seq(Nat) /\ m \in Nat /\ m \in 1..used
      /\ flow \in Seq(FlowRec) /\ Len(flow) = Len(frames) /\ flow # << >>
      /\ Pop(frames) \in Seq(Frame) /\ GenInv /\ EmptyInv
  <2>1. frames \in Seq(Frame) /\ layout \in Seq(Nat) /\ Owed(frames) \subseteq 2..used
        /\ used \in Nat
    BY GenFacts DEF FlowInv
  <2>2. Pop(frames) \in Seq(Frame)
    BY <1>1, <2>1, PopFacts
  <2>3. m \in Nat /\ m \in 1..used
    BY <1>2, <2>1
  <2>4. QED
    BY <1>1, <2>1, <2>2, <2>3, FlowFacts DEF FlowInv
<1> HIDE DEF m
<1>4. i \in Instr /\ IsTerminator(i) /\ i.succ = {m} /\ i # RetSlot
  <2>1. i \in Instr /\ IsTerminator(i) /\ i.succ = {m}
    BY <1>2, Instructions
  <2>2. QED
    BY <2>1, Instructions
<1> HIDE DEF i
<1>5. /\ Adds(code, code', at, {m})
      /\ \A b \in Owed(frames) :
           code'[b] = << >> /\ Terminators(code', b) = {} /\ Successors(code', b) = {}
      /\ \A b \in Block : b > used => code'[b] = << >>
      /\ ~dead => Single(code')
      /\ NoSlot(code')
  <2>1. /\ Adds(code, code', at, i.succ)
        /\ \A b \in Owed(frames) :
             code'[b] = << >> /\ Terminators(code', b) = {} /\ Successors(code', b) = {}
        /\ \A b \in Block : b > used => code'[b] = << >>
        /\ ~dead => Single(code')
        /\ NoSlot(code')
    BY <1>1, <1>2, <1>4, CloseStep
  <2>2. QED
    BY <1>4, <2>1
<1>6. EmptyInv'
  <2>1. Attached' = Attached \cup {m}
    BY <1>1, <1>3, AttachOne
  <2>2. QED
    BY <1>1, <1>2, <1>5, <2>1, PopEmpties
<1>7. PICK R : /\ IsReach(code, R) /\ R \subseteq 1..used
               /\ live <=> (at \in R /\ Terminators(code, at) = {})
               /\ StackReach(R, frames, flow)
  BY <1>2 DEF FlowInv, ReachInv
<1>8. ReachInv'
  <2> DEFINE S == IF live THEN R \cup {m} ELSE R
  <2>1. StackReach(R, Pop(frames), Pop(flow)) /\ FrameReach(R, top, Top(flow))
    BY <1>1, <1>3, <1>7, PopReach
  <2>2. m \in R <=> Top(flow).then
    BY <1>1, <2>1 DEF FrameReach, m
  <2>3. IsReach(code', S)
    <3>1. {m} \in SUBSET Block
      BY <1>2
    <3>2. \A t \in {m} : Successors(code, t) \subseteq R \cup {m}
      <4>1. code[m] = << >>
        BY <1>2, WritingFacts
      <4>2. QED
        BY <4>1, EmptyBlock
    <3>3. IsReach(code', IF at \in R /\ Terminators(code, at) = {} THEN R \cup {m} ELSE R)
      BY <1>2, <1>5, <1>7, <3>1, <3>2, ReachGrows
    <3>4. QED
      BY <1>7, <3>3
  <2>4. /\ m \in S <=> (live \/ Top(flow).then)
        /\ \A x : x # m => (x \in R <=> x \in S)
        /\ S \subseteq 1..used
    BY <1>3, <1>7, <2>2
  <2> HIDE DEF S
  <2>5. StackReach(S, Pop(frames), Pop(flow))
    <3>1. \A j \in 1..Len(Pop(frames)) : \A b \in Entries(Pop(frames)[j]) : b # m
      BY <1>1, <1>2, <1>3, OthersAvoid
    <3>2. \A j \in 1..Len(Pop(frames)) : \A b \in Entries(Pop(frames)[j]) :
            b \in R <=> b \in S
      BY <2>4, <3>1
    <3>3. QED
      BY <1>3, <2>1, <3>2, KeepReach
  <2>6. Terminators(code', m) = {}
    BY <1>2, <1>5
  <2>7. QED
    BY <1>1, <2>3, <2>4, <2>5, <2>6 DEF ReachInv
<1>9. SingleInv' /\ SlotInv'
  BY <1>1, <1>5 DEF SingleInv, SlotInv
<1>10. QED
  BY <1>6, <1>8, <1>9 DEF CodeInv

\* Without an else statement the second branch only branches on, so that what
\* follows can be entered if the statement is reached.
LEMMA EndIfStep ==
    ASSUME FlowInv, FlowSkippable, EndIfWithoutElse
    PROVE  CodeInv'
<1> DEFINE top == Top(frames)
           e == top.next
           m == top.merge
           i == Br(m)
           mid == CloseWith(code, at, i)
<1>1. /\ frames # << >> /\ top.kind = "then" /\ fn' = fn
      /\ code' = CloseWith(mid, e, i)
      /\ layout' = layout \o <<e, m>> /\ at' = m
      /\ frames' = Pop(frames) /\ used' = used /\ dead' = dead
      /\ live' = Top(flow).start /\ flow' = Pop(flow)
  BY DEF EndIfWithoutElse, CloseIf, FlowSkippable
<1>2. /\ fn # "none" /\ at \in Block /\ m \in Block /\ e \in Block /\ e # m
      /\ m \in Pending(top) /\ e \in Pending(top)
      /\ m \in Owed(frames) /\ e \in Owed(frames)
      /\ Owed(Pop(frames)) \subseteq Owed(frames) /\ e \notin Owed(Pop(frames))
  <2>1. e \in Pending(top)
    BY <1>1 DEF Pending
  <2>2. Owed(Pop(frames)) \cap Pending(top) = {}
    BY <1>1, TopFacts DEF FlowInv
  <2>3. QED
    BY <1>1, <2>1, <2>2, TopFacts DEF FlowInv
<1>3. /\ frames \in Seq(Frame) /\ layout \in Seq(Nat) /\ m \in Nat /\ m \in 1..used
      /\ e \in Nat /\ \A b \in Block : b > used => b # e
      /\ flow \in Seq(FlowRec) /\ Len(flow) = Len(frames) /\ flow # << >>
      /\ live \in BOOLEAN /\ Starts(flow, live)
      /\ Pop(frames) \in Seq(Frame) /\ GenInv /\ EmptyInv
  <2>1. /\ frames \in Seq(Frame) /\ layout \in Seq(Nat) /\ Owed(frames) \subseteq 2..used
        /\ used \in Nat
    BY GenFacts DEF FlowInv
  <2>2. Pop(frames) \in Seq(Frame)
    BY <1>1, <2>1, PopFacts
  <2>3. m \in Nat /\ m \in 1..used /\ e \in Nat /\ e <= used
    BY <1>2, <2>1
  <2>4. \A b \in Block : b > used => b # e
    BY <2>1, <2>3 DEF Block
  <2>5. QED
    BY <1>1, <2>1, <2>2, <2>3, <2>4, FlowFacts DEF FlowInv
<1> HIDE DEF m, e
<1>4. i \in Instr /\ IsTerminator(i) /\ i.succ = {m} /\ i # RetSlot
  <2>1. i \in Instr /\ IsTerminator(i) /\ i.succ = {m}
    BY <1>2, Instructions
  <2>2. QED
    BY <2>1, Instructions
<1> HIDE DEF i
<1>5. /\ mid \in [Block -> Seq(Instr)]
      /\ Adds(code, mid, at, {m})
      /\ \A b \in Owed(frames) :
           mid[b] = << >> /\ Terminators(mid, b) = {} /\ Successors(mid, b) = {}
      /\ \A b \in Block : b > used => mid[b] = << >>
      /\ ~dead => Single(mid)
      /\ NoSlot(mid)
  <2>1. /\ mid \in [Block -> Seq(Instr)]
        /\ Adds(code, mid, at, i.succ)
        /\ \A b \in Owed(frames) :
             mid[b] = << >> /\ Terminators(mid, b) = {} /\ Successors(mid, b) = {}
        /\ \A b \in Block : b > used => mid[b] = << >>
        /\ ~dead => Single(mid)
        /\ NoSlot(mid)
    BY <1>1, <1>2, <1>4, CloseStep
  <2> HIDE DEF mid
  <2>2. QED
    BY <1>4, <2>1
<1> HIDE DEF mid
<1>6. Adds(mid, code', e, {m}) /\ NoSlot(code') /\ (~dead => Single(code'))
  <2>1. Adds(mid, code', e, i.succ)
    BY <1>1, <1>2, <1>4, <1>5, CloseAdds
  <2>2. NoSlot(code')
    BY <1>1, <1>2, <1>4, <1>5, EmitNoSlot
  <2>3. ~dead => Single(code')
    BY <1>1, <1>2, <1>4, <1>5, CloseSingle
  <2>4. QED
    BY <1>4, <2>1, <2>2, <2>3
<1>7. EmptyInv'
  <2>1. Attached' = Attached \cup {e, m}
    BY <1>1, <1>3, AttachTwo
  <2>2. \A b \in Block : b # e => code'[b] = mid[b]
    BY <1>6 DEF Adds
  <2>3. \A b \in Owed(Pop(frames)) : code'[b] = << >>
    <3>1. \A b \in Owed(frames) : b \in Block
      BY <1>3, GenFacts
    <3>2. QED
      BY <1>2, <1>5, <2>2, <3>1
  <2>4. \A b \in Block : b > used => code'[b] = << >>
    BY <1>3, <1>5, <2>2
  <2>5. QED
    BY <1>1, <2>1, <2>3, <2>4, PopEmpties
<1>8. PICK R : /\ IsReach(code, R) /\ R \subseteq 1..used
               /\ live <=> (at \in R /\ Terminators(code, at) = {})
               /\ StackReach(R, frames, flow)
  BY <1>2 DEF FlowInv, ReachInv
<1>9. ReachInv'
  <2> DEFINE S == IF live THEN R \cup {m} ELSE R
             S2 == IF Top(flow).start THEN R \cup {m} ELSE R
  <2>1. StackReach(R, Pop(frames), Pop(flow)) /\ FrameReach(R, top, Top(flow))
    BY <1>1, <1>3, <1>8, PopReach
  <2>2. (e \in R <=> Top(flow).start) /\ m \notin R
    BY <1>1, <2>1 DEF FrameReach, m, e
  <2>3. live => Top(flow).start
    <3>1. live \/ Top(flow).then => Top(flow).start
      BY ONLY <1>3, PopStarts
    <3>2. QED
      BY <3>1
  <2>4. {m} \in SUBSET Block
    BY <1>2
  <2>5. IsReach(mid, S)
    <3>1. \A t \in {m} : Successors(code, t) \subseteq R \cup {m}
      <4>1. code[m] = << >>
        BY <1>2, WritingFacts
      <4>2. QED
        BY <4>1, EmptyBlock
    <3>2. IsReach(mid, IF at \in R /\ Terminators(code, at) = {} THEN R \cup {m} ELSE R)
      BY <1>2, <1>5, <1>8, <2>4, <3>1, ReachGrows
    <3>3. QED
      BY <1>8, <3>2
  <2>6. e \in S <=> Top(flow).start
    BY <1>2, <2>2
  <2>7. IsReach(code', S2)
    <3>1. Terminators(mid, e) = {} /\ Successors(mid, m) = {}
      BY <1>2, <1>5
    <3> HIDE DEF S
    <3>2. \A t \in {m} : Successors(mid, t) \subseteq S \cup {m}
      BY <3>1
    <3>3. IsReach(code', IF e \in S /\ Terminators(mid, e) = {} THEN S \cup {m} ELSE S)
      BY <1>2, <1>6, <2>4, <2>5, <3>2, ReachGrows
    <3>4. (IF e \in S /\ Terminators(mid, e) = {} THEN S \cup {m} ELSE S) = S2
      BY <2>3, <2>6, <3>1 DEF S
    <3>5. QED
      BY <3>3, <3>4
  <2>8. /\ m \in S2 <=> Top(flow).start
        /\ \A x : x # m => (x \in R <=> x \in S2)
        /\ S2 \subseteq 1..used
    BY <1>3, <1>8, <2>2
  <2> HIDE DEF S, S2
  <2>9. StackReach(S2, Pop(frames), Pop(flow))
    <3>1. \A j \in 1..Len(Pop(frames)) : \A b \in Entries(Pop(frames)[j]) : b # m
      BY <1>1, <1>2, <1>3, OthersAvoid
    <3>2. \A j \in 1..Len(Pop(frames)) : \A b \in Entries(Pop(frames)[j]) :
            b \in R <=> b \in S2
      BY <2>8, <3>1
    <3>3. QED
      BY <1>3, <2>1, <3>2, KeepReach
  <2>10. Terminators(code', m) = {}
    BY <1>2, <1>5, <1>6 DEF Adds
  <2>11. QED
    BY <1>1, <2>7, <2>8, <2>9, <2>10 DEF ReachInv
<1>10. SingleInv' /\ SlotInv'
  BY <1>1, <1>6 DEF SingleInv, SlotInv
<1>11. QED
  BY <1>7, <1>9, <1>10 DEF CodeInv

\* The second branch is begun; the first, if it falls through, leads to what
\* follows the if.
LEMMA BeginElseStep ==
    ASSUME FlowInv, FlowElse
    PROVE  CodeInv'
<1> DEFINE top == Top(frames)
           e == top.next
           m == top.merge
           i == Br(m)
           f == [kind |-> "else", next |-> 0, merge |-> m]
           n == Len(frames)
<1>1. /\ frames # << >> /\ top.kind = "then" /\ fn' = fn
      /\ code' = CloseWith(code, at, i)
      /\ layout' = Append(layout, e) /\ at' = e
      /\ frames' = [frames EXCEPT ![n] = f] /\ used' = used /\ dead' = dead
      /\ live' = Top(flow).start /\ flow' = [flow EXCEPT ![Len(flow)].then = live]
  BY DEF BeginElse, FlowElse, Top
<1>2. /\ fn # "none" /\ at \in Block /\ m \in Block /\ e \in Block /\ e # m
      /\ m \in Pending(top) /\ e \in Pending(top)
      /\ m \in Owed(frames) /\ e \in Owed(frames)
      /\ Owed(Pop(frames)) \subseteq Owed(frames)
  <2>1. e \in Pending(top)
    BY <1>1 DEF Pending
  <2>2. QED
    BY <1>1, <2>1, TopFacts DEF FlowInv
<1>3. /\ frames \in Seq(Frame) /\ layout \in Seq(Nat) /\ m \in Nat /\ m \in 1..used
      /\ e \in Nat
      /\ flow \in Seq(FlowRec) /\ Len(flow) = n /\ flow # << >>
      /\ live \in BOOLEAN /\ Starts(flow, live)
      /\ Pop(frames) \in Seq(Frame) /\ GenInv /\ EmptyInv
      /\ n \in Nat \ {0} /\ Len(Pop(frames)) = n - 1
  <2>1. /\ frames \in Seq(Frame) /\ layout \in Seq(Nat) /\ Owed(frames) \subseteq 2..used
        /\ used \in Nat
    BY GenFacts DEF FlowInv
  <2>2. Pop(frames) \in Seq(Frame) /\ n \in Nat \ {0} /\ Len(Pop(frames)) = n - 1
    BY <1>1, <2>1, PopFacts
  <2>3. m \in Nat /\ m \in 1..used /\ e \in Nat
    BY <1>2, <2>1
  <2>4. QED
    BY <1>1, <2>1, <2>2, <2>3, FlowFacts DEF FlowInv
<1>4. f \in Frame /\ f.kind = "else" /\ f.merge = m /\ Pending(f) = {m}
  BY <1>2 DEF Frame, Pending
<1> HIDE DEF m, e, f
<1>5. i \in Instr /\ IsTerminator(i) /\ i.succ = {m} /\ i # RetSlot
  <2>1. i \in Instr /\ IsTerminator(i) /\ i.succ = {m}
    BY <1>2, Instructions
  <2>2. QED
    BY <2>1, Instructions
<1> HIDE DEF i
<1>6. /\ Adds(code, code', at, {m})
      /\ \A b \in Owed(frames) :
           code'[b] = << >> /\ Terminators(code', b) = {} /\ Successors(code', b) = {}
      /\ \A b \in Block : b > used => code'[b] = << >>
      /\ ~dead => Single(code')
      /\ NoSlot(code')
  <2>1. /\ Adds(code, code', at, i.succ)
        /\ \A b \in Owed(frames) :
             code'[b] = << >> /\ Terminators(code', b) = {} /\ Successors(code', b) = {}
        /\ \A b \in Block : b > used => code'[b] = << >>
        /\ ~dead => Single(code')
        /\ NoSlot(code')
    BY <1>1, <1>2, <1>5, CloseStep
  <2>2. QED
    BY <1>5, <2>1
<1>7. frames' = Append(Pop(frames), f)
  BY <1>1, <1>3, <1>4, ExchangeTop
<1>8. /\ Len(frames') = n /\ frames'[n] = f
      /\ \A j \in 1..(n - 1) : frames'[j] = Pop(frames)[j] /\ frames'[j] = frames[j]
      /\ \A j \in 1..n : j \in 1..(n - 1) \/ j = n
  <2>1. \A j \in 1..(n - 1) : Pop(frames)[j] = frames[j]
    BY <1>1, <1>3, PopFacts
  <2> HIDE DEF n
  <2>2. QED
    BY <1>3, <1>4, <1>7, <2>1
<1>9. EmptyInv'
  <2>1. Attached' = Attached \cup {e}
    BY <1>1, <1>3, AttachOne
  <2>2. Owed(frames') = Owed(Pop(frames)) \cup {m}
    BY <1>3, <1>4, <1>7, PushOwed
  <2>3. \A j \in 1..Len(frames') : frames'[j].kind = "while" => frames'[j].next \in Attached'
    <3>1. \A j \in 1..(n - 1) : j \in 1..n
      BY <1>3
    <3>2. QED
      BY <1>3, <1>4, <1>8, <2>1, <3>1 DEF EmptyInv
  <2>4. QED
    BY <1>1, <1>2, <1>6, <2>1, <2>2, <2>3 DEF EmptyInv
<1>10. PICK R : /\ IsReach(code, R) /\ R \subseteq 1..used
                /\ live <=> (at \in R /\ Terminators(code, at) = {})
                /\ StackReach(R, frames, flow)
  BY <1>2 DEF FlowInv, ReachInv
<1>11. ReachInv'
  <2> DEFINE S == IF live THEN R \cup {m} ELSE R
  <2>1. StackReach(R, Pop(frames), Pop(flow)) /\ FrameReach(R, top, Top(flow))
    BY <1>1, <1>3, <1>10, PopReach
  <2>2. (e \in R <=> Top(flow).start) /\ m \notin R
    BY <1>1, <2>1 DEF FrameReach, m, e
  <2>3. IsReach(code', S)
    <3>1. {m} \in SUBSET Block
      BY <1>2
    <3>2. \A t \in {m} : Successors(code, t) \subseteq R \cup {m}
      <4>1. code[m] = << >>
        BY <1>2, WritingFacts
      <4>2. QED
        BY <4>1, EmptyBlock
    <3>3. IsReach(code', IF at \in R /\ Terminators(code, at) = {} THEN R \cup {m} ELSE R)
      BY <1>2, <1>6, <1>10, <3>1, <3>2, ReachGrows
    <3>4. QED
      BY <1>10, <3>3
  <2>4. /\ m \in S <=> live
        /\ \A x : x # m => (x \in R <=> x \in S)
        /\ e \in S <=> Top(flow).start
        /\ S \subseteq 1..used
    BY <1>2, <1>3, <1>10, <2>2
  <2> HIDE DEF S
  <2>5. StackReach(S, Pop(frames), Pop(flow))
    <3>1. \A j \in 1..Len(Pop(frames)) : \A b \in Entries(Pop(frames)[j]) : b # m
      BY <1>1, <1>2, <1>3, OthersAvoid
    <3>2. \A j \in 1..Len(Pop(frames)) : \A b \in Entries(Pop(frames)[j]) :
            b \in R <=> b \in S
      BY <2>4, <3>1
    <3>3. QED
      BY <1>3, <2>1, <3>2, KeepReach
  <2>6. StackReach(S, frames', flow')
    <3>1. /\ Top(flow') = [start |-> Top(flow).start, then |-> live]
          /\ Len(flow') = n
          /\ \A j \in 1..(n - 1) : flow'[j] = flow[j]
      <4> DEFINE new == [flow EXCEPT ![Len(flow)].then = live]
      <4>1. /\ Len(new) = Len(flow)
            /\ Top(new) = [start |-> Top(flow).start, then |-> live]
            /\ \A j \in 1..(Len(flow) - 1) : new[j] = flow[j]
        <5>1. flow \in Seq(FlowRec) /\ live \in BOOLEAN /\ Starts(flow, live) /\ flow # << >>
          BY ONLY <1>3
        <5>2. QED
          BY ONLY <5>1, ElseStarts, Zenon
      <4>2. flow' = new
        BY <1>1
      <4> HIDE DEF new, n
      <4>3. QED
        BY <1>3, <4>1, <4>2
    <3>2. flow'[n].then = live
      BY <3>1 DEF Top
    <3>3. FrameReach(S, frames'[n], flow'[n])
      BY <1>4, <1>8, <2>4, <3>2 DEF FrameReach
    <3>4. ASSUME NEW j \in 1..(n - 1)
          PROVE  FrameReach(S, frames'[j], flow'[j])
      <4>1. Pop(flow)[j] = flow[j]
        BY <1>3, PopFacts
      <4>2. FrameReach(S, Pop(frames)[j], Pop(flow)[j])
        BY <1>3, <2>5 DEF StackReach
      <4>3. QED
        BY <1>8, <3>1, <4>1, <4>2
    <3>5. QED
      BY <1>8, <3>3, <3>4 DEF StackReach
  <2>7. Terminators(code', e) = {}
    BY <1>2, <1>6
  <2>8. QED
    BY <1>1, <2>3, <2>4, <2>6, <2>7 DEF ReachInv
<1>12. SingleInv' /\ SlotInv'
  BY <1>1, <1>6 DEF SingleInv, SlotInv
<1>13. QED
  BY <1>9, <1>11, <1>12 DEF CodeInv

\* Every step keeps the invariant.
LEMMA FlowStep == FlowInv /\ [FlowNext]_flowVars => FlowInv'
<1> SUFFICES ASSUME FlowInv, [FlowNext]_flowVars PROVE FlowInv'
  OBVIOUS
<1>1. GenInv' /\ FlowShape'
  BY GenStep, ShapeStep DEF FlowInv, GenInv
<1>2. CodeInv'
  <2>1. ASSUME NEW kind \in {"void", "value"}, FlowBeginMethod(kind)
        PROVE  CodeInv'
    BY <2>1, BeginMethodStep
  <2>2. CASE FlowEndMethod
    BY <2>2, EndMethodStep
  <2>3. CASE FlowOpen
    BY <2>3, BeginWhileStep, BeginIfStep DEF FlowOpen
  <2>4. CASE FlowSkippable
    BY <2>4, EndWhileStep, EndIfStep DEF FlowSkippable
  <2>5. CASE FlowElse
    BY <2>5, BeginElseStep
  <2>6. CASE FlowEndElse
    BY <2>6, EndElseStep
  <2>7. CASE FlowSimple
    BY <2>7, SimpleStep
  <2>8. CASE FlowJump
    BY <2>8, BreakStep, ReturnStep DEF FlowJump
  <2>9. CASE UNCHANGED flowVars
    <3>1. EmptyInv /\ ReachInv /\ SingleInv /\ SlotInv
      BY DEF FlowInv
    <3>2. EmptyInv'
      BY <2>9, <3>1 DEF flowVars, EmptyInv, Attached
    <3>3. ReachInv'
      BY <2>9, <3>1 DEF flowVars, ReachInv
    <3>4. SingleInv' /\ SlotInv'
      BY <2>9, <3>1 DEF flowVars, SingleInv, SlotInv
    <3>5. QED
      BY <3>2, <3>3, <3>4 DEF CodeInv
  <2>10. QED
    BY <2>1, <2>2, <2>3, <2>4, <2>5, <2>6, <2>7, <2>8, <2>9 DEF FlowNext
<1>3. QED
  BY <1>1, <1>2 DEF FlowInv, CodeInv

LEMMA FlowInitInv == FlowInit => FlowInv
<1> SUFFICES ASSUME FlowInit PROVE FlowInv
  OBVIOUS
<1>1. /\ Init /\ fn = "none" /\ frames = << >> /\ flow = << >> /\ live = FALSE
      /\ dead = FALSE /\ used = 0 /\ layout = << >>
      /\ code = [b \in Block |-> << >>]
  BY DEF FlowInit, Init
<1>2. GenInv
  <2>1. LayoutInv
    BY <1>1 DEF LayoutInv, Distinct, Owed, OwedOnce, Attached
  <2>2. BranchTargets
    BY <1>1 DEF BranchTargets
  <2>3. QED
    BY <1>1, <2>1, <2>2, InitInv DEF GenInv
<1>3. FlowShape
  <2>1. << >> \in Seq(FlowRec) /\ Len(<< >>) = 0 /\ 1..0 = {}
    OBVIOUS
  <2>2. Starts(<< >>, FALSE)
    BY <2>1 DEF Starts
  <2>3. QED
    BY <1>1, <2>1, <2>2 DEF FlowShape
<1>4. EmptyInv
  BY <1>1 DEF EmptyInv, Owed
<1>5. ReachInv /\ SlotInv
  BY <1>1 DEF ReachInv, SlotInv
<1>6. SingleInv
  <2>1. \A b \in Block : Terminators(code, b) = {}
    BY <1>1, EmptyBlock
  <2>2. QED
    BY <2>1 DEF SingleInv, Single
<1>7. QED
  BY <1>2, <1>3, <1>4, <1>5, <1>6 DEF FlowInv

\* The invariant that ties the blocks to the control flow of the source: which
\* blocks control can enter, which are empty, and how often they end.
THEOREM FlowInvariant == FlowSpec => []FlowInv
BY FlowInitInv, FlowStep, PTL DEF FlowSpec

\* Composed with the reference, the generator is the one that is specified
\* alone, so that the theorems about BlockGen hold of it.
THEOREM FlowImplementsGen == FlowSpec => Spec
<1>1. FlowInit => Init
  BY DEF FlowInit
<1>2. QED
  BY <1>1, FlowIsGen, PTL DEF FlowSpec, Spec

-----------------------------------------------------------------------------
(* The properties.                                                         *)

\* What the source reaches and what the blocks can enter is the same: for all
\* methods, of any length and nesting, and at each point of their generation.
THEOREM LiveIffReachableInvariant == FlowSpec => []LiveIffReachable
<1>1. FlowInv => LiveIffReachable
  <2> SUFFICES ASSUME FlowInv, fn # "none"
               PROVE  live <=> at \in Reachable(code, used) /\ Terminators(code, at) = {}
    BY DEF LiveIffReachable
  <2>1. PICK R : IsReach(code, R) /\ (live <=> (at \in R /\ Terminators(code, at) = {}))
    BY DEF FlowInv, ReachInv
  <2>2. TargetsUpTo(code, used) /\ used \in 1..MaxBlock
    <3>1. TargetsUpTo(code, used) /\ used \in Nat /\ used <= MaxBlock /\ at \in 1..used
      BY GenFacts DEF FlowInv
    <3>2. QED
      BY <3>1
  <2>3. IsReach(code, Reachable(code, used))
    BY <2>2, ReachableIsReach
  <2>4. R = Reachable(code, used)
    BY <2>1, <2>3, OneReach
  <2>5. QED
    BY <2>1, <2>4
<1>2. QED
  BY <1>1, FlowInvariant, PTL

\* As long as each statement visited can be reached, no block has a terminator
\* before its last instruction.
THEOREM OneTerminatorInvariant == FlowSpec => []OneTerminator
<1>1. FlowInv => OneTerminator
  <2> SUFFICES ASSUME FlowInv, ~dead, NEW b \in Attached
               PROVE  Terminators(code, b) \subseteq {Len(code[b])}
    BY DEF OneTerminator
  <2>1. b \in Block
    BY GenFacts DEF FlowInv
  <2>2. QED
    BY <2>1 DEF FlowInv, SingleInv, Single
<1>2. QED
  BY <1>1, FlowInvariant, PTL

\* A value method reads its unwritten result slot in a block that control can
\* enter, and before that leaves it, exactly if its source can run off the end.
THEOREM SlotOnlyOffTheEndProved == FlowSpec => SlotOnlyOffTheEnd
<1>1. ASSUME FlowInv, [FlowNext]_flowVars, fn = "value", fn' = "none"
      PROVE  live <=> \E b \in Reachable(code', used') : \E k \in 1..Len(code'[b]) :
                        /\ code'[b][k] = RetSlot
                        /\ \A m \in 1..(k - 1) : ~IsTerminator(code'[b][m])
  <2>1. /\ code' = CloseWith(code, at, RetSlot) /\ used' = used
    BY <1>1 DEF FlowNext, flowVars, FlowBeginMethod, FlowEndMethod, FlowOpen,
       FlowSkippable, FlowElse, FlowEndElse, FlowSimple, FlowJump, BeginMethod,
       EndMethod, BeginWhile, OpenWhile, BeginIf, OpenIf, EndWhile, CloseWhile,
       EndIfWithoutElse, CloseIf, BeginElse, EndElse, Simple, Break, Return, Put
  <2>2. RetSlot \in Instr /\ IsTerminator(RetSlot) /\ RetSlot.succ = {}
    BY Instructions
  <2>3. /\ code \in [Block -> Seq(Instr)] /\ at \in Block /\ NoSlot(code)
        /\ at \in 1..used
    BY <1>1, WritingFacts
  <2>4. Adds(code, code', at, {})
    BY <2>1, <2>2, <2>3, CloseAdds
  <2>5. PICK R : /\ IsReach(code, R) /\ R \subseteq 1..used
                 /\ live <=> (at \in R /\ Terminators(code, at) = {})
    BY <1>1 DEF FlowInv, ReachInv
  <2>6. R = Reachable(code', used')
    <3>1. TargetsUpTo(code', used') /\ used' \in 1..MaxBlock
      <4>1. GenInv'
        BY <1>1, GenStep DEF FlowInv
      <4>2. BranchTargets' /\ used' \in Nat /\ used' <= MaxBlock /\ MaxBlock \in Nat
        BY <1>1, <2>1, <4>1, GenFacts DEF GenInv, FlowInv
      <4>3. QED
        BY <2>1, <2>3, <4>2 DEF BranchTargets, TargetsUpTo
    <3>2. IsReach(code', Reachable(code', used'))
      BY <3>1, ReachableIsReach
    <3>3. IsReach(code', IF at \in R /\ Terminators(code, at) = {} THEN R \cup {} ELSE R)
      BY <2>3, <2>4, <2>5, ReachGrows
    <3>4. IsReach(code', R)
      BY <3>3
    <3>5. QED
      BY <3>2, <3>4, OneReach
  <2>7. ASSUME live
        PROVE  /\ at \in R /\ Len(code'[at]) \in 1..Len(code'[at])
               /\ code'[at][Len(code'[at])] = RetSlot
               /\ \A m \in 1..(Len(code'[at]) - 1) : ~IsTerminator(code'[at][m])
    <3>1. at \in R /\ Terminators(code, at) = {}
      BY <2>5, <2>7
    <3>2. ~Terminated(code, at)
      BY <2>3, <3>1, TerminatedHas
    <3>3. code'[at] = Append(code[at], RetSlot)
      BY <2>1, <2>2, <2>3, <3>2, EmitFacts DEF CloseWith
    <3>4. /\ Len(code[at]) \in Nat /\ Len(code'[at]) = Len(code[at]) + 1
          /\ code'[at][Len(code[at]) + 1] = RetSlot
          /\ \A m \in 1..Len(code[at]) : code'[at][m] = code[at][m]
      BY <2>2, <2>3, <3>3
    <3>5. \A m \in 1..Len(code[at]) : ~IsTerminator(code[at][m])
      BY <3>1 DEF Terminators
    <3>6. Len(code'[at]) - 1 = Len(code[at]) /\ Len(code'[at]) \in 1..Len(code'[at])
      BY <3>4
    <3>7. QED
      BY <3>1, <3>4, <3>5, <3>6
  <2>8. ASSUME NEW b \in R, NEW k \in 1..Len(code'[b]), code'[b][k] = RetSlot,
               \A m \in 1..(k - 1) : ~IsTerminator(code'[b][m])
        PROVE  live
    <3>1. b \in Block
      BY <2>5, <2>8 DEF IsReach
    <3>2. b = at
      BY <2>4, <2>3, <2>8, <3>1 DEF Adds, NoSlot
    <3>3. ~Terminated(code, at)
      BY <2>1, <2>3, <2>8, <3>2 DEF CloseWith, NoSlot
    <3>4. code'[at] = Append(code[at], RetSlot)
      BY <2>1, <2>2, <2>3, <3>3, EmitFacts DEF CloseWith
    <3>5. /\ Len(code[at]) \in Nat /\ Len(code'[at]) = Len(code[at]) + 1
          /\ \A m \in 1..Len(code[at]) : code'[at][m] = code[at][m]
      BY <2>2, <2>3, <3>4
    <3>6. ~(k \in 1..Len(code[at]))
      BY <2>3, <2>8, <3>2, <3>5 DEF NoSlot
    <3>7. k - 1 = Len(code[at])
      BY <2>8, <3>2, <3>5, <3>6
    <3>8. Terminators(code, at) = {}
      BY <2>8, <3>2, <3>5, <3>7 DEF Terminators
    <3>9. QED
      BY <2>5, <2>8, <3>2, <3>8
  <2>9. QED
    BY <2>6, <2>7, <2>8
<1>2. FlowInv /\ [FlowNext]_flowVars =>
        [fn = "value" /\ fn' = "none" =>
           (live <=> \E b \in Reachable(code', used') : \E k \in 1..Len(code'[b]) :
                       /\ code'[b][k] = RetSlot
                       /\ \A m \in 1..(k - 1) : ~IsTerminator(code'[b][m]))]_flowVars
  BY <1>1
<1>3. QED
  BY <1>2, FlowInvariant, PTL DEF FlowSpec, SlotOnlyOffTheEnd
=============================================================================
