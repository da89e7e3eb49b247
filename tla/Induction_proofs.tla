-------------------------- MODULE Induction_proofs --------------------------
(***************************************************************************)
(* Induction over the natural numbers in the form of sets, and functions   *)
(* defined by it: the theorems of the library that take an operator as a   *)
(* parameter are not used.                                                 *)
(***************************************************************************)
EXTENDS Integers, Sequences, WellFoundedInduction, FiniteSetTheorems, TLAPS

\* Every set of naturals has a least element: the intervals below its members
\* are finite sets, which strict inclusion orders well.
LEMMA LeastElement ==
    ASSUME NEW T \in SUBSET Nat, T # {}
    PROVE  \E m \in T : \A k \in T : m <= k
<1> DEFINE R == StrictSubsetOrdering(Nat)
           S == FiniteSubsetsOf(Nat)
           U == {0..m : m \in T}
<1>1. IsWellFoundedOn(R, S)
  BY FS_StrictSubsetOrderingWellFounded
<1>2. U \subseteq S /\ U # {}
  <2>1. ASSUME NEW m \in T
        PROVE  0..m \in S
    BY FS_Interval DEF FiniteSubsetsOf
  <2>2. QED
    BY <2>1
<1>3. \E x \in U : \A y \in U : ~ (<<y, x>> \in R)
  <2> HIDE DEF R, S, U
  <2> QED
    BY <1>1, <1>2, WFMin
<1>4. PICK m \in T : \A k \in T : ~(<<0..k, 0..m>> \in R)
  BY <1>3
<1>5. ASSUME NEW k \in T, k < m
      PROVE  FALSE
  <2>1. 0..k \subseteq 0..m /\ 0..k # 0..m /\ 0..k \subseteq Nat /\ 0..m \subseteq Nat
    <3>1. m \in 0..m /\ m \notin 0..k
      BY <1>5
    <3>2. QED
    BY <3>1, <1>5
  <2>2. <<0..k, 0..m>> \in R
    BY <2>1, Zenon DEF StrictSubsetOrdering
  <2>3. QED
    BY <1>4, <2>2
<1>6. QED
    BY <1>4, <1>5

\* A set of naturals that holds 0 and with every number its successor holds all.
LEMMA Induct ==
    ASSUME NEW T \in SUBSET Nat, 0 \in T, \A n \in T : n + 1 \in T
    PROVE  T = Nat
<1> SUFFICES ASSUME Nat \ T # {} PROVE FALSE
  OBVIOUS
<1>1. PICK m \in Nat \ T : \A k \in Nat \ T : m <= k
  <2>1. Nat \ T \in SUBSET Nat
    OBVIOUS
  <2>2. QED
    BY ONLY <2>1, Nat \ T # {}, LeastElement
<1>2. m # 0 /\ m - 1 \in Nat /\ m - 1 + 1 = m
  BY <1>1
<1>3. m - 1 \in T
  BY <1>1, <1>2
<1>4. QED
  BY <1>1, <1>2, <1>3

\* A function on a set can be iterated.
LEMMA Iteration ==
    ASSUME NEW V, NEW a \in V, NEW g \in [V -> V]
    PROVE  \E f \in [Nat -> V] : f[0] = a /\ \A n \in Nat : f[n + 1] = g[f[n]]
<1> DEFINE Upto(n) == {p \in [0..n -> V] :
                         p[0] = a /\ \A k \in 0..n : k # n => p[k + 1] = g[p[k]]}
           T == {n \in Nat : \E p \in Upto(n) : \A q \in Upto(n) : q[n] = p[n]}
           f == [n \in Nat |-> (CHOOSE p \in Upto(n) : TRUE)[n]]
<1>1. 0 \in T
  <2> DEFINE p == [k \in 0..0 |-> a]
  <2>1. p \in Upto(0)
    OBVIOUS
  <2>2. \A q \in Upto(0) : q[0] = p[0]
    OBVIOUS
  <2>3. QED
    BY <2>1, <2>2
<1>2. ASSUME NEW n \in Nat, NEW q \in Upto(n + 1)
      PROVE  /\ [k \in 0..n |-> q[k]] \in Upto(n)
             /\ q[n + 1] = g[q[n]] /\ q[n] \in V
  <2>1. q \in [0..(n + 1) -> V] /\ q[0] = a
    OBVIOUS
  <2>2. \A k \in 0..n : k \in 0..(n + 1) /\ k # n + 1
    OBVIOUS
  <2>3. \A k \in 0..n : q[k + 1] = g[q[k]] /\ q[k] \in V
    BY <2>1, <2>2
  <2>4. \A k \in 0..n : k # n => k + 1 \in 0..n
    OBVIOUS
  <2>5. 0 \in 0..n /\ n \in 0..n
    OBVIOUS
  <2>6. QED
    BY <2>1, <2>3, <2>4, <2>5
<1>3. ASSUME NEW n \in T
      PROVE  n + 1 \in T
  <2>1. PICK p \in Upto(n) : \A q \in Upto(n) : q[n] = p[n]
    OBVIOUS
  <2> DEFINE r == [k \in 0..(n + 1) |-> IF k = n + 1 THEN g[p[n]] ELSE p[k]]
  <2>2. r \in Upto(n + 1)
    <3>1. /\ p \in [0..n -> V] /\ p[0] = a /\ p[n] \in V /\ g[p[n]] \in V
          /\ \A k \in 0..n : k # n => p[k + 1] = g[p[k]]
      BY <2>1
    <3>2. \A k \in 0..(n + 1) : k = n + 1 \/ k \in 0..n
      OBVIOUS
    <3>3. r \in [0..(n + 1) -> V] /\ r[0] = a
      BY <3>1, <3>2
    <3>4. ASSUME NEW k \in 0..(n + 1), k # n + 1
          PROVE  r[k + 1] = g[r[k]]
      <4>1. k \in 0..n /\ r[k] = p[k] /\ k + 1 \in 0..(n + 1)
        BY <3>4
      <4>2. CASE k = n
        BY <4>1, <4>2
      <4>3. CASE k # n
        <5>1. k + 1 # n + 1 /\ r[k + 1] = p[k + 1]
          BY <4>1, <4>3
        <5>2. QED
          BY <3>1, <4>1, <4>3, <5>1
      <4>4. QED
        BY <4>2, <4>3
    <3>5. QED
      BY <3>3, <3>4
  <2>3. ASSUME NEW q \in Upto(n + 1)
        PROVE  q[n + 1] = r[n + 1]
    <3> DEFINE s == [k \in 0..n |-> q[k]]
    <3>1. s \in Upto(n) /\ q[n + 1] = g[q[n]]
      BY <1>2
    <3>2. s[n] = p[n] /\ s[n] = q[n]
      BY <2>1, <3>1, SMTT(30)
    <3>3. r[n + 1] = g[p[n]]
      OBVIOUS
    <3>4. QED
      BY <3>1, <3>2, <3>3
  <2>4. \E t \in Upto(n + 1) : \A q \in Upto(n + 1) : q[n + 1] = t[n + 1]
    <3> HIDE DEF Upto, r
    <3> QED
      BY <2>2, <2>3
  <2>5. n + 1 \in Nat
    OBVIOUS
  <2>6. QED
    <3> HIDE DEF Upto
    <3> QED
      BY <2>4, <2>5
<1>4. T = Nat
  <2> HIDE DEF T
  <2>1. T \in SUBSET Nat
    BY DEF T
  <2>2. QED
    BY ONLY <1>1, <1>3, <2>1, Induct
<1>5. ASSUME NEW n \in Nat
      PROVE  \E p \in Upto(n) : f[n] = p[n]
  <2>1. \E p \in Upto(n) : TRUE
    BY <1>4
  <2>2. (CHOOSE p \in Upto(n) : TRUE) \in Upto(n)
    <3> HIDE DEF Upto
    <3> QED BY <2>1
  <2>3. QED
    BY <2>2
<1>6. f[0] = a /\ f \in [Nat -> V]
  <2>1. ASSUME NEW n \in Nat
        PROVE  f[n] \in V
    <3>1. n \in 0..n
      OBVIOUS
    <3>2. QED
      BY <1>5, <3>1
  <2>2. f[0] = a
    BY <1>5
  <2>3. QED
    BY <2>1, <2>2
<1>7. ASSUME NEW n \in Nat
      PROVE  f[n + 1] = g[f[n]]
  <2>1. PICK q \in Upto(n + 1) : f[n + 1] = q[n + 1]
    <3>1. n + 1 \in Nat
      OBVIOUS
    <3> HIDE DEF Upto, f
    <3>2. QED
      BY <1>5, <3>1
  <2>2. PICK p \in Upto(n) : f[n] = p[n]
    BY <1>5
  <2> DEFINE s == [k \in 0..n |-> q[k]]
  <2>3. s \in Upto(n) /\ q[n + 1] = g[q[n]] /\ s[n] = q[n]
    BY <1>2
  <2>4. s[n] = p[n]
    <3>1. PICK r \in Upto(n) : \A t \in Upto(n) : t[n] = r[n]
      BY <1>4
    <3> HIDE DEF Upto, s
    <3>2. QED
      BY <2>2, <2>3, <3>1
  <2>5. QED
    BY <2>1, <2>2, <2>3, <2>4
<1>8. QED
  BY <1>6, <1>7

\* A function on an initial segment can be defined by recursion: what it is at
\* a number may depend on the number and on what it is at the one before.
DefinedBy(f, V, a, n, step) ==
    /\ f \in [0..n -> V] /\ f[0] = a
    /\ \A i \in 1..n : f[i] = step[i][f[i - 1]]

LEMMA Recursion ==
    ASSUME NEW V, NEW a \in V, NEW n \in Nat, NEW step \in [1..n -> [V -> V]]
    PROVE  \E f : DefinedBy(f, V, a, n, step)
<1> DEFINE Upto(k) == {p \in [0..k -> V] :
                         p[0] = a /\ \A i \in 1..k : p[i] = step[i][p[i - 1]]}
           T == {k \in Nat : k <= n => Upto(k) # {}}
<1>1. 0 \in T
  <2> DEFINE p == [k \in 0..0 |-> a]
  <2>1. p \in Upto(0)
    OBVIOUS
  <2>2. QED
    BY <2>1
<1>2. ASSUME NEW k \in T PROVE k + 1 \in T
  <2> SUFFICES ASSUME k + 1 <= n PROVE Upto(k + 1) # {}
    <3> HIDE DEF Upto
    <3> QED
      OBVIOUS
  <2>1. PICK p \in Upto(k) : TRUE
    OBVIOUS
  <2> DEFINE r == [i \in 0..(k + 1) |-> IF i = k + 1 THEN step[k + 1][p[k]] ELSE p[i]]
  <2>2. /\ p \in [0..k -> V] /\ p[0] = a
        /\ \A i \in 1..k : p[i] = step[i][p[i - 1]]
    BY <2>1
  <2>3. step[k + 1][p[k]] \in V
    <3>1. p[k] \in V /\ k + 1 \in 1..n
      BY <2>2
    <3>2. QED
      BY <3>1
  <2>4. r \in [0..(k + 1) -> V] /\ r[0] = a
    <3>1. \A i \in 0..(k + 1) : i = k + 1 \/ i \in 0..k
      OBVIOUS
    <3>2. QED
      BY <2>2, <2>3, <3>1
  <2>5. ASSUME NEW i \in 1..(k + 1) PROVE r[i] = step[i][r[i - 1]]
    <3>1. i - 1 \in 0..k /\ i - 1 \in 0..(k + 1) /\ i - 1 # k + 1
      OBVIOUS
    <3>2. r[i - 1] = p[i - 1]
      BY <3>1
    <3>3. CASE i = k + 1
      <4>1. r[i] = step[k + 1][p[k]] /\ i - 1 = k
        BY <3>3
      <4>2. QED
        BY <3>2, <3>3, <4>1
    <3>4. CASE i # k + 1
      <4>1. i \in 1..k /\ r[i] = p[i]
        BY <3>4
      <4>2. QED
        BY <2>2, <3>2, <4>1
    <3>5. QED
      BY <3>3, <3>4
  <2> HIDE DEF r
  <2>6. QED
    BY <2>4, <2>5
<1>3. T = Nat
  <2> HIDE DEF T
  <2>1. T \in SUBSET Nat
    BY DEF T
  <2>2. QED
    BY ONLY <1>1, <1>2, <2>1, Induct
<1>4. Upto(n) # {}
  <2> HIDE DEF Upto
  <2> QED
    BY <1>3
<1>5. QED
  BY <1>4 DEF DefinedBy
=============================================================================
