------------------------- MODULE Expressions_proofs -------------------------
(***************************************************************************)
(* Both passes agree on every expression, for any classes, methods and     *)
(* nesting: what the semantic pass accepts, the generator has the values   *)
(* for.                                                                    *)
(***************************************************************************)
EXTENDS Expressions, Induction_proofs, SequenceTheorems

-----------------------------------------------------------------------------
(* The inductive invariant.                                                *)

\* The values the generator can have for a designator and for an expression.
DesValue == {<< >>} \cup {<<"function", p>> : p \in Prototype}
            \cup {Pointer(Lower(t)) : t \in ValueType \cup {Null}}
ExprValue == {<< >>} \cup {<<p>> : p \in Prototype}
             \cup {Lower(t) : t \in ValueType \cup {Null, Void, ArrayOf("void")}}

Node == [des : {"expr", "mark"}, type : NodeType, llvm : ExprValue]
        \cup [des : {"designator"}, type : NodeType, llvm : DesValue]

Outcome == {"running", "rejected", "undefined", "undeclared", "no value", "function value",
            "void value", "aggregate", "integer cast", "arguments"}

NodesOK ==
    /\ operands \in Seq(Node)
    /\ Len(operands) <= MaxOperands
    /\ dirty \in BOOLEAN
    /\ unchecked \in BOOLEAN
    /\ outcome \in Outcome

\* The generator's value of a node is what the type of the semantic pass says.
IsMethodName(o) == o.type \in MethodType /\ o.llvm = <<"function", o.type.of>>
IsAddress(o) == o.type \in ValueType \cup {Null} /\ o.llvm = Pointer(Lower(o.type))
IsValue(o) == o.type \in ValueType \cup {Null, Void} /\ o.llvm = Lower(o.type)
Sound(o) == \/ o.des = "designator" /\ (IsMethodName(o) \/ IsAddress(o))
            \/ o.des = "expr" /\ IsValue(o)

NoMarkIn(nodes, n) == \A j \in 1..n : nodes[j].des # "mark"
NoMark(n) == NoMarkIn(operands, n)

SoundInv ==
    outcome = Fine /\ ~dirty =>
        \A i \in 1..Len(operands) : NoMark(i) => Sound(operands[i])

MarkInv == ~unchecked => NoMark(Len(operands))

\* What a checked and accepted program never runs into.
Lost == {"integer cast", "undeclared", "no value", "arguments"}

LostInv == ~dirty /\ ~unchecked => outcome \notin Lost

ExprInv == NodesOK /\ SoundInv /\ MarkInv /\ LostInv

-----------------------------------------------------------------------------
(* LLVM types.                                                             *)

\* An atom put in front of a sequence.
LEMMA InFront ==
    ASSUME NEW S, NEW a \in S, NEW s \in Seq(S)
    PROVE  /\ <<a>> \o s \in Seq(S) /\ Len(<<a>> \o s) = Len(s) + 1
           /\ <<a>> \o s # << >> /\ (<<a>> \o s)[1] = a
           /\ \A i \in 1..Len(s) : (<<a>> \o s)[i + 1] = s[i]
           /\ Tail(<<a>> \o s) = s
<1> DEFINE t == <<a>> \o s
<1>1. /\ t \in Seq(S) /\ Len(t) = Len(s) + 1 /\ t[1] = a
      /\ \A i \in 1..Len(s) : t[i + 1] = s[i]
  OBVIOUS
<1>2. t # << >>
  BY <1>1
<1> HIDE DEF t
<1>3. Tail(t) \in Seq(S) /\ Len(Tail(t)) = Len(s) /\ \A i \in 1..Len(s) : Tail(t)[i] = s[i]
  BY <1>1, <1>2
<1>4. Tail(t) = s
  BY <1>3, SeqEqual
<1>5. QED
  BY <1>1, <1>2, <1>4 DEF t

Atom == {"i32", "i8", "void", "*", "array"} \cup Class

LEMMA LowerPlains ==
    /\ LowerPlain("int") = <<"i32">> /\ LowerPlain("char") = <<"i8">>
    /\ LowerPlain("void") = <<"void">> /\ LowerPlain("null") = <<"*", "i8">>
    /\ LowerPlain("anyarray") = <<"array", "i8">>
    /\ \A c \in Class : LowerPlain(c) = <<"*", c>>
  BY ExpressionAssumption DEF LowerPlain

LEMMA LowerPlainSeq ==
    \A t \in Element \cup {"void", "null", "anyarray"} : LowerPlain(t) \in Seq(Atom)
<1>1. /\ <<"i32">> \in Seq(Atom) /\ <<"i8">> \in Seq(Atom) /\ <<"void">> \in Seq(Atom)
      /\ <<"*", "i8">> \in Seq(Atom) /\ \A c \in Class : <<"*", c>> \in Seq(Atom)
      /\ <<"array", "i8">> \in Seq(Atom)
  BY DEF Atom
<1>2. QED
  BY <1>1, LowerPlains DEF Element

\* The types that a value can have, by their form.
LEMMA TypeForms ==
    \A t \in ValueType \cup {Null, Void, ArrayOf("void")} :
        \/ t = IntType \/ t = CharType \/ t = Null \/ t = Void
        \/ \E c \in Class : t = Plain(c)
        \/ \E e \in Element \cup {"void"} : t = ArrayOf(e)
  BY DEF ValueType, Element, IntType, CharType

LEMMA LowerArray ==
    \A e \in Element \cup {"void"} :
        /\ Lower(ArrayOf(e)) = <<"array">> \o LowerPlain(e)
        /\ Lower(ArrayOf(e)) \in Seq(Atom)
        /\ Lower(ArrayOf(e)) # << >> /\ Lower(ArrayOf(e))[1] = "array"
<1> SUFFICES ASSUME NEW e \in Element \cup {"void"}
             PROVE  /\ Lower(ArrayOf(e)) = <<"array">> \o LowerPlain(e)
                    /\ Lower(ArrayOf(e)) \in Seq(Atom)
                    /\ Lower(ArrayOf(e)) # << >> /\ Lower(ArrayOf(e))[1] = "array"
  OBVIOUS
<1>1. Lower(ArrayOf(e)) = <<"array">> \o LowerPlain(e)
  BY DEF Lower, ArrayOf
<1>2. LowerPlain(e) \in Seq(Atom) /\ "array" \in Atom
  BY LowerPlainSeq DEF Atom
<1>3. QED
  BY <1>1, <1>2, InFront

LEMMA LowerOthers ==
    /\ Lower(IntType) = <<"i32">> /\ Lower(CharType) = <<"i8">>
    /\ Lower(Void) = <<"void">> /\ Lower(Null) = <<"*", "i8">>
    /\ Lower(AnyArray) = <<"array", "i8">>
    /\ \A c \in Class : Lower(Plain(c)) = <<"*", c>>
  BY LowerPlains DEF Lower, Plain, IntType, CharType, Void, Null, AnyArray

\* How the type of a value begins, and whether it is a number.
LEMMA LowerHeads ==
    /\ \A t \in ValueType \cup {Null} :
         /\ Lower(t) \in Seq(Atom) /\ UseFault(Lower(t)) = Fine
         /\ Lower(t) # << >> /\ Lower(t)[1] \in {"i32", "i8", "*", "array"}
         /\ IsInteger(Lower(t)) <=> t \in {IntType, CharType}
    /\ Lower(Void) \in Seq(Atom) /\ UseFault(Lower(Void)) = "void value"
    /\ ~IsInteger(Lower(Void))
<1>1. ASSUME NEW t \in ValueType \cup {Null}
      PROVE  /\ Lower(t) \in Seq(Atom) /\ Lower(t) # << >>
             /\ Lower(t)[1] \in {"i32", "i8", "*", "array"}
             /\ IsInteger(Lower(t)) <=> t \in {IntType, CharType}
  <2>1. \/ t \in {IntType, CharType, Null}
        \/ \E c \in Class : t = Plain(c)
        \/ \E e \in Element : t = ArrayOf(e)
    BY DEF ValueType, Element, IntType, CharType
  <2>2. CASE t \in {IntType, CharType}
    BY <2>2, LowerOthers DEF IsInteger, Atom
  <2>3. CASE t = Null
    <3>1. Lower(t) = <<"*", "i8">> /\ <<"*", "i8">> \in Seq(Atom)
      BY <2>3, LowerOthers DEF Atom
    <3>2. <<"*", "i8">> # <<"i32">> /\ <<"*", "i8">> # <<"i8">>
      OBVIOUS
    <3>3. t \notin {IntType, CharType}
      BY <2>3 DEF Null, Plain, IntType, CharType
    <3>4. QED
      BY <3>1, <3>2, <3>3 DEF IsInteger
  <2>4. CASE \E c \in Class : t = Plain(c)
    <3>1. PICK c \in Class : t = Plain(c)
      BY <2>4
    <3>2. Lower(t) = <<"*", c>> /\ t \notin {IntType, CharType}
      BY <3>1, LowerOthers, ExpressionAssumption DEF Plain, IntType, CharType
    <3>3. <<"*", c>> \in Seq(Atom) /\ <<"*", c>> # <<"i32">> /\ <<"*", c>> # <<"i8">>
      BY DEF Atom
    <3>4. QED
      BY <3>2, <3>3 DEF IsInteger
  <2>5. CASE \E e \in Element : t = ArrayOf(e)
    <3>1. PICK e \in Element : t = ArrayOf(e)
      BY <2>5
    <3>2. /\ Lower(t) \in Seq(Atom) /\ Lower(t) # << >> /\ Lower(t)[1] = "array"
      BY <3>1, LowerArray
    <3>3. t \notin {IntType, CharType}
      BY <3>1 DEF ArrayOf, Plain, IntType, CharType
    <3>4. QED
      BY <3>2, <3>3 DEF IsInteger
  <2>6. QED
    BY <2>1, <2>2, <2>3, <2>4, <2>5
<1>2. ASSUME NEW t \in ValueType \cup {Null}
      PROVE  UseFault(Lower(t)) = Fine
  BY <1>1 DEF UseFault, Is
<1>3. Lower(Void) \in Seq(Atom) /\ UseFault(Lower(Void)) = "void value" /\ ~IsInteger(Lower(Void))
  BY LowerOthers DEF UseFault, Is, IsInteger, Atom
<1>4. QED
  BY <1>1, <1>2, <1>3

\* An address can be used, and leads to its value.
LEMMA Addresses ==
    \A t \in ValueType \cup {Null} :
        /\ Pointee(Pointer(Lower(t))) = Lower(t)
        /\ Pointer(Lower(t)) # << >> /\ Pointer(Lower(t))[1] = "*"
        /\ UseFault(Pointer(Lower(t))) = Fine
        /\ ~Is("function", Pointer(Lower(t)))
<1> SUFFICES ASSUME NEW t \in ValueType \cup {Null}
             PROVE  /\ Pointee(Pointer(Lower(t))) = Lower(t)
                    /\ Pointer(Lower(t)) # << >> /\ Pointer(Lower(t))[1] = "*"
                    /\ UseFault(Pointer(Lower(t))) = Fine
                    /\ ~Is("function", Pointer(Lower(t)))
  OBVIOUS
<1>1. Lower(t) \in Seq(Atom) /\ "*" \in Atom
  BY LowerHeads DEF Atom
<1>2. /\ Pointer(Lower(t)) # << >> /\ Pointer(Lower(t))[1] = "*"
      /\ Tail(Pointer(Lower(t))) = Lower(t)
  BY <1>1, InFront DEF Pointer
<1>3. QED
  BY <1>2 DEF Pointee, UseFault, Is

LEMMA Functions ==
    \A p : /\ UseFault(<<"function", p>>) = "function value"
           /\ Is("function", <<"function", p>>)
           /\ <<"function", p>>[2] = p
  BY DEF UseFault, Is

\* The faults that occur, and the first of two.
LEMMA FaultRange ==
    /\ \A v : UseFault(v) \in {Fine, "undeclared", "function value", "void value"}
    /\ \A v, w : CastFault(v, w) \in Outcome
<1>1. \A v : UseFault(v) \in {Fine, "undeclared", "function value", "void value"}
  BY DEF UseFault
<1>2. QED
  BY <1>1 DEF CastFault, Outcome, Fine

\* The first of the faults in a list is one of them, or there is none.
LEMMA FirstOf ==
    ASSUME NEW S, NEW faults \in Seq(S)
    PROVE  \/ FirstFault(faults) = Fine /\ \A i \in 1..Len(faults) : faults[i] = Fine
           \/ \E i \in 1..Len(faults) : /\ FirstFault(faults) = faults[i] /\ faults[i] # Fine
                                        /\ \A j \in 1..(i - 1) : faults[j] = Fine
<1> DEFINE bad == {i \in 1..Len(faults) : faults[i] # Fine}
<1>1. CASE bad = {}
  BY <1>1 DEF FirstFault
<1>2. CASE bad # {}
  <2>1. \E i \in bad : \A j \in bad : i <= j
    <3>1. bad \in SUBSET Nat
      OBVIOUS
    <3> HIDE DEF bad
    <3>2. QED
      BY ONLY <1>2, <3>1, LeastElement
  <2> DEFINE least == CHOOSE i \in bad : \A j \in bad : i <= j
  <2>2. least \in bad /\ \A j \in bad : least <= j
    <3> HIDE DEF bad
    <3> QED
      BY <2>1
  <2>3. FirstFault(faults) = faults[least]
    BY <1>2 DEF FirstFault
  <2>4. \A j \in 1..(least - 1) : faults[j] = Fine
    <3> SUFFICES ASSUME NEW j \in 1..(least - 1) PROVE faults[j] = Fine
      OBVIOUS
    <3>1. least \in 1..Len(faults) /\ j \in 1..Len(faults) /\ ~(least <= j)
      BY <2>2
    <3>2. j \notin bad
      BY <2>2, <3>1
    <3>3. QED
      BY <3>1, <3>2
  <2>5. least \in 1..Len(faults) /\ faults[least] # Fine
    BY <2>2
  <2> HIDE DEF least, bad
  <2>6. QED
    BY <2>3, <2>4, <2>5
<1>3. QED
  BY <1>1, <1>2

LEMMA FirstOfTwo ==
    \A a, b : FirstFault(<<a, b>>) = IF a # Fine THEN a ELSE b
<1> SUFFICES ASSUME NEW a, NEW b
             PROVE  FirstFault(<<a, b>>) = IF a # Fine THEN a ELSE b
  OBVIOUS
<1> DEFINE f == <<a, b>>
<1>1. f \in Seq({a, b}) /\ Len(f) = 2 /\ f[1] = a /\ f[2] = b
  OBVIOUS
<1> HIDE DEF f
<1>2. \/ FirstFault(f) = Fine /\ \A i \in 1..2 : f[i] = Fine
      \/ \E i \in 1..2 : /\ FirstFault(f) = f[i] /\ f[i] # Fine
                         /\ \A j \in 1..(i - 1) : f[j] = Fine
  BY <1>1, FirstOf
<1>3. CASE FirstFault(f) = Fine /\ \A i \in 1..2 : f[i] = Fine
  BY <1>1, <1>3
<1>4. CASE \E i \in 1..2 : /\ FirstFault(f) = f[i] /\ f[i] # Fine
                           /\ \A j \in 1..(i - 1) : f[j] = Fine
  BY <1>1, <1>4
<1>5. QED
  BY <1>2, <1>3, <1>4 DEF f

LEMMA FirstOfThree ==
    \A a, b, c : FirstFault(<<a, b, c>>) = IF a # Fine THEN a ELSE IF b # Fine THEN b ELSE c
<1> SUFFICES ASSUME NEW a, NEW b, NEW c
             PROVE  FirstFault(<<a, b, c>>) = IF a # Fine THEN a ELSE IF b # Fine THEN b ELSE c
  OBVIOUS
<1> DEFINE f == <<a, b, c>>
<1>1. f \in Seq({a, b, c}) /\ Len(f) = 3 /\ f[1] = a /\ f[2] = b /\ f[3] = c
  OBVIOUS
<1> HIDE DEF f
<1>2. \/ FirstFault(f) = Fine /\ \A i \in 1..3 : f[i] = Fine
      \/ \E i \in 1..3 : /\ FirstFault(f) = f[i] /\ f[i] # Fine
                         /\ \A j \in 1..(i - 1) : f[j] = Fine
  BY <1>1, FirstOf
<1>3. CASE FirstFault(f) = Fine /\ \A i \in 1..3 : f[i] = Fine
  BY <1>1, <1>3
<1>4. CASE \E i \in 1..3 : /\ FirstFault(f) = f[i] /\ f[i] # Fine
                           /\ \A j \in 1..(i - 1) : f[j] = Fine
  <2>1. PICK i \in 1..3 : /\ FirstFault(f) = f[i] /\ f[i] # Fine
                          /\ \A j \in 1..(i - 1) : f[j] = Fine
    BY <1>4
  <2>2. CASE i = 1
    BY <1>1, <2>1, <2>2
  <2>3. CASE i = 2
    BY <1>1, <2>1, <2>3
  <2>4. CASE i = 3
    BY <1>1, <2>1, <2>4
  <2>5. QED
    BY <2>2, <2>3, <2>4
<1>5. QED
  BY <1>2, <1>3, <1>4 DEF f

\* What is assigned, passed, compared or returned is compatible, and is then
\* never taken for something that it is not: the cast does nothing to numbers.
LEMMA CompatibleCasts ==
    ASSUME NEW l \in ValueType \cup {Null, Void, AnyArray},
           NEW r \in ValueType \cup {Null, Void}, Compatible(l, r)
    PROVE  CastFault(Lower(r), Lower(l)) \notin Lost
<1>1. UseFault(Lower(r)) \in {Fine, "void value"}
  BY LowerHeads
<1>2. CASE UseFault(Lower(r)) # Fine \/ Lower(r) = Lower(l)
  BY <1>1, <1>2 DEF CastFault, Lost, Fine
<1>3. CASE UseFault(Lower(r)) = Fine /\ Lower(r) # Lower(l)
  <2>1. ~IsInteger(Lower(r)) /\ ~IsInteger(Lower(l))
    <3>1. \/ r = Null /\ IsReference(l)
          \/ l = AnyArray /\ r.kind = "array"
      BY <1>3 DEF Compatible
    <3>2. r \in ValueType \cup {Null} /\ r \notin {IntType, CharType}
      <4>1. r # Void
        BY <1>3, LowerHeads DEF Fine
      <4>2. r = Null \/ r.kind = "array"
        BY <3>1
      <4>3. IntType.kind = "plain" /\ CharType.kind = "plain" /\ Null # IntType /\ Null # CharType
        BY DEF Null, Plain, IntType, CharType
      <4>4. QED
        BY <4>1, <4>2, <4>3
    <3>3. l = AnyArray \/ (l \in ValueType \cup {Null} /\ l \notin {IntType, CharType})
      BY <3>1, ExpressionAssumption
         DEF IsReference, IsClass, AnyArray, Plain, IntType, CharType, Void
    <3>4. ~IsInteger(Lower(AnyArray))
      BY LowerOthers DEF IsInteger
    <3>5. QED
      BY <3>2, <3>3, <3>4, LowerHeads
  <2>2. QED
    BY <1>3, <2>1 DEF CastFault, Lost, Fine
<1>4. QED
  BY <1>2, <1>3

-----------------------------------------------------------------------------
(* What a visitor does to the stack.                                       *)

LEMMA SkippingIs ==
    ASSUME NodesOK, NEW n \in 0..Len(operands)
    PROVE  /\ SubSeq(operands, 1, n) \in Seq(Node) /\ Len(SubSeq(operands, 1, n)) = n
           /\ \A i \in 1..n : SubSeq(operands, 1, n)[i] = operands[i]
           /\ ~Skipping(SubSeq(operands, 1, n)) <=> NoMark(n)
<1>1. /\ SubSeq(operands, 1, n) \in Seq(Node) /\ Len(SubSeq(operands, 1, n)) = n
      /\ \A i \in 1..n : SubSeq(operands, 1, n)[i] = operands[i]
  BY DEF NodesOK
<1>2. QED
  BY <1>1 DEF Skipping, NoMark, NoMarkIn

\* The operands left below k children.
LEMMA BelowIs ==
    ASSUME NodesOK, NEW k \in 0..Len(operands)
    PROVE  /\ Len(operands) - k \in 0..Len(operands)
           /\ Below(k) \in Seq(Node) /\ Len(Below(k)) = Len(operands) - k
           /\ \A i \in 1..(Len(operands) - k) : Below(k)[i] = operands[i]
           /\ ~Skipping(Below(k)) <=> NoMark(Len(operands) - k)
<1>1. Len(operands) - k \in 0..Len(operands)
  BY DEF NodesOK
<1>2. QED
  BY <1>1, SkippingIs DEF Below

\* A node has no other fields.
IsNode(n) == n = [des |-> n.des, type |-> n.type, llvm |-> n.llvm]

\* What is known of the node n that a visitor leaves with the fault "fault",
\* if k children are taken from the stack.
Fits(k, error, fault, n) ==
    /\ n.des \in {"expr", "designator"}
    /\ IsNode(n)
    /\ n.llvm \in IF n.des = "expr" THEN ExprValue ELSE DesValue
    /\ NoMark(Len(operands) - k) /\ ~error =>
         /\ n.type \in NodeType
         /\ ~dirty => /\ fault = Fine => Sound(n)
                      /\ ~unchecked => fault \notin Lost

\* The same of a statement, which leaves nothing.
FaultFits(k, error, fault) ==
    NoMark(Len(operands) - k) /\ ~error /\ ~dirty /\ ~unchecked => fault \notin Lost

LEMMA UnknownInNodeType == Unknown \in NodeType
  BY DEF NodeType

LEMMA VisitOne ==
    ASSUME ExprInv, NEW k \in 0..Len(operands), NEW error \in BOOLEAN, NEW fault \in Outcome,
           NEW n, Fits(k, error, fault, n), Visit(k, error, fault, <<n>>)
    PROVE  ExprInv'
<1> DEFINE m == Len(operands) - k
           checked == ~Skipping(Below(k))
           x == IF checked /\ ~error THEN n ELSE [n EXCEPT !.type = Unknown]
<1>1. /\ NodesOK /\ m \in 0..Len(operands) /\ Len(operands) \in Nat
      /\ Below(k) \in Seq(Node) /\ Len(Below(k)) = m
      /\ \A i \in 1..m : Below(k)[i] = operands[i]
      /\ checked <=> NoMark(m)
  BY BelowIs DEF ExprInv, NodesOK
<1>2. /\ outcome = Fine /\ m + 1 <= MaxOperands
      /\ dirty' = (dirty \/ (checked /\ error))
      /\ outcome' = (IF dirty' THEN Fine ELSE fault) /\ unchecked' = unchecked
  BY <1>1 DEF Visit
<1>3. operands' = Append(Below(k), x)
  <2> DEFINE nodes == <<n>>
             left == [i \in 1..Len(nodes) |-> IF checked /\ ~error THEN nodes[i]
                                              ELSE [nodes[i] EXCEPT !.type = Unknown]]
  <2>1. operands' = Below(k) \o left
    BY DEF Visit
  <2>2. left = <<x>>
    <3>1. Len(nodes) = 1 /\ nodes[1] = n
      OBVIOUS
    <3>2. left = [i \in 1..1 |-> x]
      BY <3>1
    <3>3. [i \in 1..1 |-> x] = <<x>>
      OBVIOUS
    <3>4. QED
      BY <3>2, <3>3
  <2>3. QED
    BY <2>1, <2>2, <1>1
<1>4. x \in Node /\ x.des = n.des /\ x.des # "mark"
  <2>1. checked /\ ~error => n \in Node
    BY <1>1 DEF Fits, IsNode, Node
  <2>2. [n EXCEPT !.type = Unknown] = [des |-> n.des, type |-> Unknown, llvm |-> n.llvm]
    BY DEF Fits, IsNode
  <2>3. [des |-> n.des, type |-> Unknown, llvm |-> n.llvm] \in Node
    BY UnknownInNodeType DEF Fits, Node
  <2>4. QED
    BY <2>1, <2>2, <2>3 DEF Fits
<1>5. /\ operands' \in Seq(Node) /\ Len(operands') = m + 1 /\ operands'[m + 1] = x
      /\ \A i \in 1..m : operands'[i] = operands[i]
  <2> HIDE DEF x, m
  <2>1. QED
    BY <1>1, <1>3, <1>4
<1> HIDE DEF x
<1>6. NodesOK'
  BY <1>1, <1>2, <1>5 DEF NodesOK, Outcome, Fine
<1>7. /\ \A i \in 1..m : NoMarkIn(operands', i) <=> NoMark(i)
      /\ NoMarkIn(operands', m + 1) <=> NoMark(m)
  <2> HIDE DEF m
  <2>1. \A i \in 1..m : NoMarkIn(operands', i) <=> NoMark(i)
    <3> SUFFICES ASSUME NEW i \in 1..m PROVE NoMarkIn(operands', i) <=> NoMark(i)
      OBVIOUS
    <3>1. \A j \in 1..i : operands'[j] = operands[j]
      BY <1>1, <1>5
    <3>2. QED
      BY <3>1 DEF NoMark, NoMarkIn
  <2>2. \A j \in 1..(m + 1) : j \in 1..m \/ j = m + 1
    BY <1>1
  <2>3. 1..m \subseteq 1..(m + 1) /\ m + 1 \in 1..(m + 1)
    BY <1>1
  <2>4. NoMarkIn(operands', m + 1) <=> NoMark(m)
    BY <1>4, <1>5, <2>2, <2>3 DEF NoMark, NoMarkIn
  <2>5. QED
    BY <2>1, <2>4
<1>8. SoundInv'
  <2> SUFFICES ASSUME outcome' = Fine, ~dirty', NEW i \in 1..(m + 1),
                      NoMarkIn(operands', i)
               PROVE  Sound(operands'[i])
    BY <1>5 DEF SoundInv, NoMark
  <2>1. ~dirty /\ fault = Fine /\ (checked => ~error)
    BY <1>2
  <2>2. CASE i \in 1..m
    <3>1. operands'[i] = operands[i] /\ NoMark(i)
      BY <1>5, <1>7, <2>2
    <3>2. i \in 1..Len(operands)
      BY <1>1, <2>2
    <3>3. QED
      BY <1>2, <2>1, <3>1, <3>2 DEF ExprInv, SoundInv
  <2>3. CASE i = m + 1
    <3>1. NoMark(m)
      BY <1>7, <2>3
    <3>2. x = n /\ Sound(n)
      BY <1>1, <2>1, <3>1 DEF Fits, x
    <3>3. QED
      BY <1>5, <2>3, <3>2
  <2>4. QED
    BY <1>1, <2>2, <2>3
<1>9. MarkInv'
  <2> SUFFICES ASSUME ~unchecked PROVE NoMarkIn(operands', m + 1)
    BY <1>2, <1>5 DEF MarkInv, NoMark
  <2>1. NoMark(Len(operands))
    BY DEF ExprInv, MarkInv
  <2>2. NoMark(m)
    BY <1>1, <2>1 DEF NoMark, NoMarkIn
  <2>3. QED
    BY <1>7, <2>2
<1>10. LostInv'
  <2> SUFFICES ASSUME ~dirty', ~unchecked PROVE outcome' \notin Lost
    BY <1>2 DEF LostInv
  <2>1. NoMark(m)
    BY <1>1 DEF ExprInv, MarkInv, NoMark, NoMarkIn
  <2>2. QED
    BY <1>1, <1>2, <2>1 DEF Fits
<1>11. QED
  BY <1>6, <1>8, <1>9, <1>10 DEF ExprInv

LEMMA VisitNone ==
    ASSUME ExprInv, NEW k \in 0..Len(operands), NEW error \in BOOLEAN, NEW fault \in Outcome,
           FaultFits(k, error, fault), Visit(k, error, fault, << >>)
    PROVE  ExprInv'
<1> DEFINE m == Len(operands) - k
           checked == ~Skipping(Below(k))
<1>1. /\ NodesOK /\ m \in 0..Len(operands) /\ Len(operands) \in Nat
      /\ Below(k) \in Seq(Node) /\ Len(Below(k)) = m
      /\ \A i \in 1..m : Below(k)[i] = operands[i]
      /\ checked <=> NoMark(m)
  BY BelowIs DEF ExprInv, NodesOK
<1>2. /\ outcome = Fine
      /\ dirty' = (dirty \/ (checked /\ error))
      /\ outcome' = (IF dirty' THEN Fine ELSE fault) /\ unchecked' = unchecked
  BY <1>1 DEF Visit
<1>3. operands' = Below(k)
  <2> DEFINE nodes == << >>
             left == [i \in 1..Len(nodes) |-> IF checked /\ ~error THEN nodes[i]
                                              ELSE [nodes[i] EXCEPT !.type = Unknown]]
  <2>1. operands' = Below(k) \o left
    BY DEF Visit
  <2>2. left = << >>
    OBVIOUS
  <2>3. QED
    BY <2>1, <2>2, <1>1
<1> HIDE DEF m
<1>4. /\ operands' \in Seq(Node) /\ Len(operands') = m
      /\ \A i \in 1..m : operands'[i] = operands[i]
  BY <1>1, <1>3
<1>5. NodesOK'
  <2>1. m <= MaxOperands
    BY <1>1, ExpressionAssumption DEF NodesOK
  <2>2. QED
    BY <1>1, <1>2, <1>4, <2>1 DEF NodesOK, Outcome, Fine
<1>6. NoMarkIn(operands', m) <=> NoMark(m)
  BY <1>1, <1>4 DEF NoMark, NoMarkIn
<1>7. \A i \in 1..m : NoMarkIn(operands', i) <=> NoMark(i)
  BY <1>1, <1>4 DEF NoMark, NoMarkIn
<1>8. SoundInv'
  <2> SUFFICES ASSUME ~dirty', NEW i \in 1..m, NoMark(i) PROVE Sound(operands[i])
    BY <1>4, <1>7 DEF SoundInv, NoMark
  <2>1. i \in 1..Len(operands)
    BY <1>1
  <2>2. ~dirty
    BY <1>2
  <2>3. QED
    BY <1>2, <2>1, <2>2 DEF ExprInv, SoundInv
<1>9. MarkInv'
  BY <1>1, <1>2, <1>4, <1>6 DEF ExprInv, MarkInv, NoMark, NoMarkIn
<1>10. LostInv'
  <2> SUFFICES ASSUME ~dirty', ~unchecked PROVE outcome' \notin Lost
    BY <1>2 DEF LostInv
  <2>1. NoMark(m)
    BY <1>1 DEF ExprInv, MarkInv, NoMark, NoMarkIn
  <2>2. QED
    BY <1>1, <1>2, <2>1 DEF FaultFits, m
<1>11. QED
  BY <1>5, <1>8, <1>9, <1>10 DEF ExprInv

\* A pass that is left, not on account of the generator.
LEMMA LeaveKeeps ==
    ASSUME ExprInv, NEW how \in {"rejected", "undefined"}, LeaveWalk(how)
    PROVE  ExprInv'
<1>1. UNCHANGED <<operands, dirty, unchecked>> /\ outcome' = how
  BY DEF LeaveWalk
<1>2. NodesOK' /\ LostInv' /\ SoundInv'
  BY <1>1 DEF ExprInv, NodesOK, Outcome, LostInv, Lost, SoundInv, Fine
<1>3. MarkInv'
  BY <1>1 DEF ExprInv, MarkInv, NoMark, NoMarkIn
<1>4. QED
  BY <1>2, <1>3 DEF ExprInv

\* The children of a node that is checked are sound.
LEMMA Children ==
    ASSUME ExprInv, outcome = Fine, ~dirty, NEW k \in 0..Len(operands),
           NoMark(Len(operands) - k), \A i \in 1..k : Last(i).des # "mark"
    PROVE  \A i \in 1..k : Sound(Last(i))
<1>1. Len(operands) \in Nat /\ NodesOK
  BY DEF ExprInv, NodesOK
<1>2. NoMark(Len(operands))
  <2> SUFFICES ASSUME NEW j \in 1..Len(operands) PROVE operands[j].des # "mark"
    BY DEF NoMark, NoMarkIn
  <2>1. CASE j \in 1..(Len(operands) - k)
    BY <2>1 DEF NoMark, NoMarkIn
  <2>2. CASE j \notin 1..(Len(operands) - k)
    <3> DEFINE i == Len(operands) + 1 - j
    <3>1. i \in 1..k /\ Len(operands) + 1 - i = j
      BY <1>1, <2>2
    <3>2. QED
      BY <3>1 DEF Last
  <2>3. QED
    BY <2>1, <2>2
<1>3. ASSUME NEW i \in 1..k PROVE Sound(Last(i))
  <2> DEFINE j == Len(operands) + 1 - i
  <2>1. j \in 1..Len(operands)
    BY <1>1
  <2>2. NoMark(j)
    BY <1>1, <1>2, <2>1 DEF NoMark, NoMarkIn
  <2>3. Sound(operands[j])
    <3> HIDE DEF j
    <3> QED
      BY <2>1, <2>2 DEF ExprInv, SoundInv
  <2>4. QED
    BY <2>3 DEF Last
<1>4. QED
  BY <1>3

-----------------------------------------------------------------------------
(* The visitors, one by one.                                               *)

\* The syntactic kinds of the last operands.
LEMMA AreOne ==
    ASSUME NodesOK, NEW a, Are(<<a>>)
    PROVE  /\ 1 \in 0..Len(operands) /\ Last(1).des = a /\ Last(1) \in Node
<1>1. Len(operands) \in Nat /\ 1 <= Len(operands) /\ operands[Len(operands) - 1 + 1].des = a
  BY DEF Are, NodesOK
<1>2. QED
  BY <1>1 DEF Last, NodesOK

LEMMA AreTwo ==
    ASSUME NodesOK, NEW a, NEW b, Are(<<a, b>>)
    PROVE  /\ 2 \in 0..Len(operands) /\ Last(2).des = a /\ Last(1).des = b
           /\ Last(1) \in Node /\ Last(2) \in Node
<1>1. /\ Len(operands) \in Nat /\ 2 <= Len(operands)
      /\ operands[Len(operands) - 2 + 1].des = a /\ operands[Len(operands) - 2 + 2].des = b
  BY DEF Are, NodesOK
<1>2. /\ Len(operands) - 2 + 1 = Len(operands) + 1 - 2
      /\ Len(operands) - 2 + 2 = Len(operands) + 1 - 1
      /\ Len(operands) + 1 - 2 \in 1..Len(operands) /\ Len(operands) + 1 - 1 \in 1..Len(operands)
  BY <1>1
<1>3. QED
  BY <1>1, <1>2 DEF Last, NodesOK

\* With a mark on the stack not everything is checked.
LEMMA MarksAreUnchecked ==
    ASSUME ExprInv, NEW k \in 1..Len(operands), Last(k).des = "mark"
    PROVE  unchecked
<1>1. Len(operands) + 1 - k \in 1..Len(operands)
  BY DEF ExprInv, NodesOK
<1>2. QED
  BY <1>1 DEF ExprInv, MarkInv, NoMark, NoMarkIn, Last, NodesOK

\* The symbols of a program.
LEMMA Symbols ==
    \A s \in Symbol \cup {NoSymbol} :
        /\ s.type \in NodeType
        /\ s.kind = "none" <=> s = NoSymbol
        /\ s.kind \notin {"none", "method"} => s.type \in ValueType \cup {Null}
        /\ s.kind = "method" => s.type \in MethodType
        /\ s.type.kind = "array" => s.kind # "none" /\ \E e \in Element : s.type = ArrayOf(e)
<1>1. /\ IntType \in ValueType /\ CharType \in ValueType /\ Null \in NodeType
      /\ ValueType \subseteq NodeType /\ MethodType \subseteq NodeType /\ Unknown \in NodeType
  BY DEF ValueType, NodeType, Element, IntType, CharType
<1>2. \A t \in ValueType : t.kind = "array" => \E e \in Element : t = ArrayOf(e)
  BY DEF ValueType, Plain
<1>3. /\ Null.kind = "plain" /\ Unknown.kind = "plain" /\ IntType.kind = "plain"
      /\ CharType.kind = "plain" /\ \A t \in MethodType : t.kind = "method"
  BY DEF Null, Unknown, Plain, MethodType, MethodOf, IntType, CharType
<1>4. QED
  BY <1>1, <1>2, <1>3 DEF Symbol, NoSymbol

\* The value of a symbol is one that a designator can have.
LEMMA ValuesOfSymbols ==
    \A s \in Symbol \cup {NoSymbol} :
        /\ ValueOf(s) \in DesValue
        /\ s.kind = "method" => ValueOf(s) = <<"function", s.type.of>>
        /\ s.kind \notin {"none", "method"} => ValueOf(s) = Pointer(Lower(s.type))
<1> SUFFICES ASSUME NEW s \in Symbol \cup {NoSymbol}
             PROVE  /\ ValueOf(s) \in DesValue
                    /\ s.kind = "method" => ValueOf(s) = <<"function", s.type.of>>
                    /\ s.kind \notin {"none", "method"} => ValueOf(s) = Pointer(Lower(s.type))
  OBVIOUS
<1>1. CASE s.kind = "none"
  BY <1>1 DEF ValueOf, DesValue
<1>2. CASE s.kind = "method"
  <2>1. ValueOf(s) = <<"function", s.type.of>>
    BY <1>2 DEF ValueOf
  <2>2. s.type.of \in Prototype
    BY <1>2, Symbols DEF MethodType, MethodOf
  <2>3. QED
    BY <1>2, <2>1, <2>2 DEF DesValue
<1>3. CASE s.kind \notin {"none", "method"}
  <2>1. ValueOf(s) = Pointer(Lower(s.type))
    BY <1>3 DEF ValueOf
  <2>2. QED
    BY <1>3, <2>1, Symbols DEF DesValue
<1>4. QED
  BY <1>1, <1>2, <1>3

LEMMA TypesAreNodeTypes ==
    /\ IntType \in ValueType /\ CharType \in ValueType
    /\ ValueType \cup MethodType \cup {Null, Void, Unknown, ArrayOf("void")} = NodeType
    /\ \A c \in Class : Plain(c) \in ValueType
    /\ \A e \in Element : Plain(e) \in ValueType /\ ArrayOf(e) \in ValueType
  BY DEF ValueType, NodeType, Element, IntType, CharType

\* The nodes that visitors leave.
ExprNode(t, v) == [des |-> "expr", type |-> t, llvm |-> v]
DesNode(t, v) == [des |-> "designator", type |-> t, llvm |-> v]

LEMMA NodesLeft ==
    \A t, v : /\ ExprNode(t, v).des = "expr" /\ DesNode(t, v).des = "designator"
              /\ ExprNode(t, v).type = t /\ DesNode(t, v).type = t
              /\ ExprNode(t, v).llvm = v /\ DesNode(t, v).llvm = v
              /\ IsNode(ExprNode(t, v)) /\ IsNode(DesNode(t, v))
  BY DEF ExprNode, DesNode, IsNode

LEMMA NothingLost ==
    /\ Fine \notin Lost /\ Fine \in Outcome
    /\ \A f : f \in Lost => f \in Outcome
    /\ {"undeclared", "no value", "function value", "void value", "aggregate",
        "arguments"} \subseteq Outcome
  BY DEF Lost, Fine, Outcome

LEMMA NoChildren == ASSUME ExprInv PROVE Len(operands) \in Nat /\ 0 \in 0..Len(operands)
<1>1. Len(operands) \in Nat
  BY DEF ExprInv, NodesOK
<1>2. QED
  BY <1>1

LEMMA LiteralKeeps == ASSUME ExprInv, Literal PROVE ExprInv'
<1>1. PICK t \in {IntType, CharType} : Visit(0, FALSE, Fine, Expr(t, Lower(t)))
  BY DEF Literal
<1> DEFINE n == ExprNode(t, Lower(t))
<1>2. Fits(0, FALSE, Fine, n)
  <2>1. t \in ValueType /\ t \in NodeType /\ Lower(t) \in ExprValue
    BY TypesAreNodeTypes DEF ExprValue
  <2>2. n.des = "expr" /\ n.type = t /\ n.llvm = Lower(t) /\ IsNode(n)
    BY NodesLeft
  <2> HIDE DEF n
  <2>3. QED
    BY <2>1, <2>2, NothingLost DEF Fits, Sound, IsValue
<1>3. 0 \in 0..Len(operands) /\ Fine \in Outcome
  BY NoChildren, NothingLost
<1> HIDE DEF n
<1>4. Visit(0, FALSE, Fine, <<n>>)
  BY <1>1 DEF Expr, n, ExprNode
<1>5. QED
  BY <1>2, <1>3, <1>4, VisitOne

LEMMA VarDesKeeps ==
    ASSUME ExprInv, NEW s \in Symbol \cup {NoSymbol}, VarDes(s) PROVE ExprInv'
<1> DEFINE n == DesNode(s.type, ValueOf(s))
<1>1. Fits(0, s.kind = "none", Fine, n)
  <2>1. s.kind # "none" =>
          \/ s.type \in MethodType /\ ValueOf(s) = <<"function", s.type.of>>
          \/ s.type \in ValueType \cup {Null} /\ ValueOf(s) = Pointer(Lower(s.type))
    BY Symbols, ValuesOfSymbols
  <2>2. s.type \in NodeType /\ ValueOf(s) \in DesValue
    BY Symbols, ValuesOfSymbols
  <2>3. /\ n.des = "designator" /\ n.type = s.type /\ n.llvm = ValueOf(s) /\ IsNode(n)
    BY NodesLeft
  <2> HIDE DEF n
  <2>4. QED
    BY <2>1, <2>2, <2>3, NothingLost DEF Fits, Sound, IsMethodName, IsAddress
<1>2. 0 \in 0..Len(operands) /\ Fine \in Outcome
  BY NoChildren, NothingLost
<1> HIDE DEF n
<1>3. Visit(0, s.kind = "none", Fine, <<n>>)
  BY DEF VarDes, Designator, n, DesNode
<1>4. (s.kind = "none") \in BOOLEAN
  OBVIOUS
<1>5. QED
  BY <1>1, <1>2, <1>3, <1>4, VisitOne

LEMMA FieldDesKeeps ==
    ASSUME ExprInv, NEW s \in Symbol \cup {NoSymbol}, NEW f \in FieldType, FieldDes(s, f)
    PROVE  ExprInv'
<1> DEFINE v == IF f = Unknown THEN << >> ELSE Pointer(Lower(f))
           n == DesNode(f, v)
           error == s.kind = "none" \/ f = Unknown
           fault == CASE s.kind = "none"                   -> "undeclared"
                      [] ~IsClass(s.type) \/ f = Unknown -> "no value"
                      [] OTHER                             -> Fine
           bad == s.kind # "none" /\ ~IsClass(s.type) /\ ~Skipping(operands)
<1>1. CASE bad
  BY <1>1, LeaveKeeps DEF FieldDes
<1>2. CASE ~bad
  <2>1. ~Skipping(operands) <=> NoMark(Len(operands) - 0)
    BY DEF Skipping, NoMark, NoMarkIn, ExprInv, NodesOK
  <2>2. f # Unknown => f \in ValueType
    BY DEF FieldType
  <2>3. v \in DesValue
    BY <2>2 DEF DesValue
  <2>4. Fits(0, error, fault, n)
    <3>1. ~error => f \in ValueType /\ f \in NodeType /\ v = Pointer(Lower(f))
      BY <2>2, TypesAreNodeTypes
    <3>2. NoMark(Len(operands) - 0) /\ ~error => fault = Fine
      BY <1>2, <2>1
    <3>3. n.des = "designator" /\ n.type = f /\ n.llvm = v /\ IsNode(n)
      BY NodesLeft
    <3> HIDE DEF n, v, fault
    <3>4. QED
      BY <2>3, <3>1, <3>2, <3>3, NothingLost DEF Fits, Sound, IsAddress
  <2>5. 0 \in 0..Len(operands) /\ fault \in Outcome /\ error \in BOOLEAN
    BY NoChildren, NothingLost
  <2>6. Visit(0, error, fault, <<n>>)
    BY <1>2 DEF FieldDes, Designator, DesNode
  <2> HIDE DEF n, error, fault
  <2>7. QED
    BY <2>4, <2>5, <2>6, VisitOne
<1>3. QED
  BY <1>1, <1>2

LEMMA EnterUncheckedKeeps == ASSUME ExprInv, EnterUnchecked PROVE ExprInv'
<1>1. /\ operands' = Append(operands, Mark) /\ unchecked' = TRUE
      /\ UNCHANGED <<dirty, outcome>> /\ Len(operands) + 1 < MaxOperands
  BY DEF EnterUnchecked
<1>2. operands \in Seq(Node) /\ Mark \in Node /\ Len(operands) \in Nat
  BY UnknownInNodeType DEF ExprInv, NodesOK, Mark, Node, ExprValue
<1>3. /\ operands' \in Seq(Node) /\ Len(operands') = Len(operands) + 1
      /\ operands'[Len(operands) + 1] = Mark
      /\ \A i \in 1..Len(operands) : operands'[i] = operands[i]
  BY <1>1, <1>2
<1>4. NodesOK'
  BY <1>1, <1>2, <1>3, ExpressionAssumption DEF ExprInv, NodesOK
<1>5. MarkInv' /\ LostInv'
  BY <1>1 DEF MarkInv, LostInv
<1>6. SoundInv'
  <2> SUFFICES ASSUME outcome = Fine, ~dirty, NEW i \in 1..(Len(operands) + 1),
                      NoMarkIn(operands', i)
               PROVE  Sound(operands'[i])
    BY <1>1, <1>3 DEF SoundInv, NoMark
  <2>1. i \in 1..Len(operands)
    <3>1. i # Len(operands) + 1
      BY <1>2, <1>3 DEF NoMarkIn, Mark
    <3>2. QED
      BY <1>2, <3>1
  <2>2. NoMark(i)
    BY <1>2, <1>3, <2>1 DEF NoMark, NoMarkIn
  <2>3. QED
    BY <1>3, <2>1, <2>2 DEF ExprInv, SoundInv
<1>7. QED
  BY <1>4, <1>5, <1>6 DEF ExprInv

\* What a load makes of an address.
LEMMA Pointees == \A v \in DesValue : Pointee(v) \in ExprValue
<1> SUFFICES ASSUME NEW v \in DesValue PROVE Pointee(v) \in ExprValue
  OBVIOUS
<1>1. CASE v = << >>
  BY <1>1 DEF Pointee, ExprValue
<1>2. CASE \E p \in Prototype : v = <<"function", p>>
  <2>1. PICK p \in Prototype : v = <<"function", p>>
    BY <1>2
  <2>2. Pointee(v) = <<p>>
    BY <2>1 DEF Pointee
  <2>3. QED
    BY <2>2 DEF ExprValue
<1>3. CASE \E t \in ValueType \cup {Null} : v = Pointer(Lower(t))
  BY <1>3, Addresses DEF ExprValue
<1>4. QED
  BY <1>1, <1>2, <1>3 DEF DesValue

LEMMA NodeFields ==
    \A o \in Node : /\ o.type \in NodeType
                    /\ o.des = "designator" => o.llvm \in DesValue
                    /\ o.des \in {"expr", "mark"} => o.llvm \in ExprValue
  BY DEF Node

LEMMA DerefKeeps == ASSUME ExprInv, Deref PROVE ExprInv'
<1> DEFINE o == Last(1)
           n == ExprNode(o.type, Pointee(o.llvm))
           fault == UseFault(o.llvm)
<1>1. /\ NodesOK /\ 1 \in 0..Len(operands) /\ o.des = "designator" /\ o \in Node
      /\ o.llvm \in DesValue /\ o.type \in NodeType
  BY AreOne, NodeFields DEF Deref, ExprInv
<1>2. Visit(1, FALSE, fault, <<n>>) /\ outcome = Fine
  BY DEF Deref, Expr, ExprNode, Visit
<1>3. fault \in Outcome
  BY FaultRange, NothingLost
<1>4. Fits(1, FALSE, fault, n)
  <2>1. ASSUME NoMark(Len(operands) - 1), ~dirty
        PROVE  /\ fault \notin Lost
               /\ fault = Fine => /\ o.type \in ValueType \cup {Null, Void}
                                  /\ Pointee(o.llvm) = Lower(o.type)
    <3>1. Sound(o)
      BY <1>1, <1>2, <2>1, Children
    <3>2. IsMethodName(o) \/ IsAddress(o)
      BY <1>1, <3>1 DEF Sound
    <3>3. QED
      BY <3>2, Addresses, Functions DEF IsMethodName, IsAddress, Lost, Fine
  <2>2. Pointee(o.llvm) \in ExprValue
    BY <1>1, Pointees
  <2>3. n.des = "expr" /\ n.type = o.type /\ n.llvm = Pointee(o.llvm) /\ IsNode(n)
    BY NodesLeft
  <2> HIDE DEF n, o, fault
  <2>4. QED
    BY <1>1, <2>1, <2>2, <2>3 DEF Fits, Sound, IsValue
<1> HIDE DEF n, fault
<1>5. QED
  BY <1>1, <1>2, <1>3, <1>4, VisitOne

LEMMA ArrDesKeeps ==
    ASSUME ExprInv, NEW s \in Symbol \cup {NoSymbol}, ArrDes(s) PROVE ExprInv'
<1> DEFINE o == Last(1)
           isArray == s.type.kind = "array"
           v == IF isArray THEN Pointer(LowerPlain(s.type.of)) ELSE << >>
           n == DesNode(Plain(s.type.of), v)
           error == s.kind = "none"
           fault == FirstFault(<<CASE s.kind = "none" -> "undeclared"
                                   [] isArray         -> Fine
                                   [] OTHER           -> "no value",
                                 UseFault(o.llvm),
                                 IF IsInteger(o.llvm) THEN Fine ELSE "no value">>)
           bad == s.kind # "none" /\ ~isArray /\ ~Skipping(Below(2))
<1>1. NodesOK /\ 2 \in 0..Len(operands) /\ Last(2).des = "mark"
  BY AreTwo DEF ArrDes, ExprInv
<1>2. unchecked
  <2>1. 2 \in 1..Len(operands)
    BY <1>1
  <2>2. QED
    BY <1>1, <2>1, MarksAreUnchecked
<1>3. CASE bad
  BY <1>3, LeaveKeeps DEF ArrDes
<1>4. CASE ~bad
  <2>1. ~Skipping(Below(2)) <=> NoMark(Len(operands) - 2)
    BY <1>1, BelowIs
  <2>2. fault \in Outcome
    <3>1. UseFault(o.llvm) \in Outcome
      BY FaultRange, NothingLost
    <3> DEFINE a == CASE s.kind = "none" -> "undeclared"
                      [] isArray         -> Fine
                      [] OTHER           -> "no value"
               b == UseFault(o.llvm)
               c == IF IsInteger(o.llvm) THEN Fine ELSE "no value"
    <3>2. a \in Outcome /\ b \in Outcome /\ c \in Outcome /\ fault = FirstFault(<<a, b, c>>)
      BY <3>1, NothingLost
    <3> HIDE DEF a, b, c, fault
    <3>3. QED
      BY <3>2, FirstOfThree
  <2>3. isArray => /\ error = FALSE /\ Plain(s.type.of) \in ValueType
                   /\ v = Pointer(Lower(Plain(s.type.of)))
    <3>1. isArray => error = FALSE /\ \E e \in Element : s.type = ArrayOf(e)
      BY Symbols
    <3>2. \A e \in Element : /\ ArrayOf(e).of = e /\ Plain(e) \in ValueType
                             /\ Lower(Plain(e)) = LowerPlain(e)
      BY TypesAreNodeTypes DEF ArrayOf, Plain, Lower
    <3>3. QED
      BY <3>1, <3>2
  <2>4. v \in DesValue
    BY <2>3 DEF DesValue
  <2>5. Fits(2, error, fault, n)
    <3>1. NoMark(Len(operands) - 2) /\ ~error => isArray
      BY <1>4, <2>1
    <3>2. n.des = "designator" /\ n.type = Plain(s.type.of) /\ n.llvm = v /\ IsNode(n)
      BY NodesLeft
    <3> HIDE DEF n, v, isArray, fault
    <3>3. QED
      BY <1>2, <2>3, <2>4, <3>1, <3>2, TypesAreNodeTypes DEF Fits, Sound, IsAddress
  <2>6. Visit(2, error, fault, <<n>>)
    BY <1>4 DEF ArrDes, Designator, DesNode
  <2>7. error \in BOOLEAN
    OBVIOUS
  <2> HIDE DEF n, error, fault
  <2>8. QED
    BY <1>1, <2>2, <2>5, <2>6, <2>7, VisitOne
<1>5. QED
  BY <1>3, <1>4

LEMMA NewKeeps == ASSUME ExprInv, NEW t \in TypeName, New(t) PROVE ExprInv'
<1> DEFINE v == IF IsClass(t) THEN Lower(t) ELSE << >>
           n == ExprNode(t, v)
           error == ~IsClass(t)
           fault == IF IsClass(t) THEN Fine ELSE "no value"
<1>1. 0 \in 0..Len(operands) /\ fault \in Outcome /\ error \in BOOLEAN
  <2>1. Fine \in Outcome /\ "no value" \in Outcome
    BY NothingLost
  <2>2. QED
    BY <2>1, NoChildren
<1>2. IsClass(t) => t \in ValueType
  <2>1. Void.of \notin Class /\ Unknown.of \notin Class
    BY ExpressionAssumption DEF Void, Unknown, Plain
  <2>2. QED
    BY <2>1, TypesAreNodeTypes DEF TypeName, IsClass
<1>3. Fits(0, error, fault, n)
  <2>1. v \in ExprValue /\ (~error => t \in ValueType /\ v = Lower(t))
    BY <1>2 DEF ExprValue
  <2>2. n.des = "expr" /\ n.type = t /\ n.llvm = v /\ IsNode(n)
    BY NodesLeft
  <2>3. ~error => fault = Fine
    OBVIOUS
  <2> HIDE DEF n, v, fault
  <2>4. QED
    BY <2>1, <2>2, <2>3, NothingLost, TypesAreNodeTypes DEF Fits, Sound, IsValue
<1>4. Visit(0, error, fault, <<n>>)
  BY DEF New, Expr, ExprNode
<1> HIDE DEF n, error, fault
<1>5. QED
  BY <1>1, <1>3, <1>4, VisitOne

LEMMA NewArrKeeps == ASSUME ExprInv, NEW t \in TypeName, NewArr(t) PROVE ExprInv'
<1> DEFINE v == IF t = Unknown THEN << >> ELSE <<"array">> \o LowerPlain(t.of)
           type == IF t = Unknown THEN t ELSE ArrayOf(t.of)
           n == ExprNode(type, v)
           error == t = Unknown
           fault == CASE t = Unknown -> "no value"
                      [] t = Void    -> "void value"
                      [] OTHER       -> CastFault(Last(1).llvm, <<"i32">>)
<1>1. NodesOK /\ 2 \in 0..Len(operands) /\ Last(2).des = "mark"
  BY AreTwo DEF NewArr, ExprInv
<1>2. unchecked
  <2>1. 2 \in 1..Len(operands)
    BY <1>1
  <2>2. QED
    BY <1>1, <2>1, MarksAreUnchecked
<1>3. t = Unknown \/ \E e \in Element \cup {"void"} : t = Plain(e)
  BY DEF TypeName, Void
<1>4. t # Unknown => /\ type = ArrayOf(t.of) /\ v = Lower(type)
                     /\ t # Void => type \in ValueType
                     /\ t = Void => type = ArrayOf("void")
  <2> SUFFICES ASSUME t # Unknown
               PROVE  /\ v = Lower(ArrayOf(t.of))
                      /\ t # Void => ArrayOf(t.of) \in ValueType
                      /\ t = Void => ArrayOf(t.of) = ArrayOf("void")
    OBVIOUS
  <2>1. PICK e \in Element \cup {"void"} : t = Plain(e)
    BY <1>3
  <2>2. t.of = e
    BY <2>1 DEF Plain
  <2>3. v = Lower(ArrayOf(e))
    BY <2>2, LowerArray
  <2>4. t # Void => e \in Element
    BY <2>1 DEF Void
  <2>5. t = Void => e = "void"
    BY <2>2 DEF Void, Plain
  <2>6. QED
    BY <2>2, <2>3, <2>4, <2>5, TypesAreNodeTypes
<1>5. fault \in Outcome /\ (t = Void => fault # Fine)
  <2>1. /\ CastFault(Last(1).llvm, <<"i32">>) \in Outcome
        /\ Void # Unknown /\ "void value" # Fine
    BY FaultRange DEF Void, Unknown, Plain, Fine
  <2>2. QED
    BY <2>1, NothingLost
<1>6. Fits(2, error, fault, n)
  <2>1. v \in ExprValue
    BY <1>4 DEF ExprValue
  <2>2. n.des = "expr" /\ n.type = type /\ n.llvm = v /\ IsNode(n)
    BY NodesLeft
  <2>3. ~error => type \in NodeType /\ (fault = Fine => type \in ValueType /\ v = Lower(type))
    <3>1. ASSUME t # Unknown
          PROVE  type \in NodeType /\ (t # Void => type \in ValueType) /\ v = Lower(type)
      <4> HIDE DEF v, type
      <4> QED
        BY <1>4, <3>1, TypesAreNodeTypes
    <3> HIDE DEF v, type, fault
    <3>2. QED
      BY <1>5, <3>1
  <2> HIDE DEF n, v, fault, type
  <2>4. QED
    BY <1>2, <2>1, <2>2, <2>3 DEF Fits, Sound, IsValue
<1>7. Visit(2, error, fault, <<n>>)
  BY DEF NewArr, Expr, ExprNode
<1>8. error \in BOOLEAN
  OBVIOUS
<1> HIDE DEF n, error, fault
<1>9. QED
  BY <1>1, <1>5, <1>6, <1>7, <1>8, VisitOne

\* Faults one after the other.
NumberFault(v) == IF IsInteger(v) THEN Fine ELSE "no value"

LEMMA PairOfFaults ==
    \A a, b \in Outcome :
        /\ FirstFault(<<a, b>>) \in Outcome
        /\ a \notin Lost /\ b \notin Lost => FirstFault(<<a, b>>) \notin Lost
        /\ a = Fine /\ b = Fine => FirstFault(<<a, b>>) = Fine
  BY FirstOfTwo

LEMMA NumberFaults ==
    /\ \A v : NumberFault(v) \in Outcome
    /\ \A t \in {IntType, CharType} :
         /\ UseFault(Lower(t)) = Fine /\ NumberFault(Lower(t)) = Fine
         /\ CastFault(Lower(t), Lower(t)) = Fine
<1>1. \A v : NumberFault(v) \in Outcome
  BY NothingLost DEF NumberFault
<1>2. \A t \in {IntType, CharType} :
        UseFault(Lower(t)) = Fine /\ NumberFault(Lower(t)) = Fine
  BY LowerHeads, TypesAreNodeTypes DEF NumberFault
<1>3. QED
  BY <1>1, <1>2 DEF CastFault

\* A number on the stack, as the semantic pass and the generator see it.
LEMMA NumbersOnStack ==
    ASSUME ExprInv, outcome = Fine, ~dirty, NEW k \in 1..2, k \in 0..Len(operands),
           NoMark(Len(operands) - k), \A i \in 1..k : Last(i).des \in {"expr", "designator"}
    PROVE  \A i \in 1..k :
             /\ Last(i).des = "expr" /\ Last(i).type = IntType =>
                  Last(i).llvm = Lower(IntType)
             /\ Last(i).des = "expr" /\ Last(i).type = CharType =>
                  Last(i).llvm = Lower(CharType)
             /\ Last(i).des = "designator" /\ Last(i).type = IntType =>
                  Pointee(Last(i).llvm) = Lower(IntType)
             /\ Last(i).des = "designator" /\ Last(i).type = CharType =>
                  Pointee(Last(i).llvm) = Lower(CharType)
<1>1. \A i \in 1..k : Sound(Last(i))
  BY Children
<1>2. IntType \notin MethodType /\ CharType \notin MethodType
  BY DEF IntType, CharType, MethodType, MethodOf, Plain
<1>3. QED
  BY <1>1, <1>2, Addresses DEF Sound, IsMethodName, IsAddress, IsValue

LEMMA ArithmeticKeeps == ASSUME ExprInv, Arithmetic PROVE ExprInv'
<1> DEFINE a == Last(2)
           b == Last(1)
           n == ExprNode(IntType, a.llvm)
           error == a.type # IntType \/ b.type # IntType
<1>1. /\ NodesOK /\ 2 \in 0..Len(operands) /\ a.des = "expr" /\ b.des = "expr"
      /\ a \in Node /\ b \in Node /\ a.llvm \in ExprValue
  BY AreTwo, NodeFields DEF Arithmetic, ExprInv
<1>2. Visit(2, error, ArithmeticFault, <<n>>) /\ outcome = Fine
  BY DEF Arithmetic, Expr, ExprNode, Visit
<1>3. /\ ArithmeticFault = FirstFault(<<BinopFault, NumberFault(a.llvm)>>)
      /\ BinopFault = FirstFault(<<UseFault(a.llvm), CastFault(b.llvm, a.llvm)>>)
  BY DEF ArithmeticFault, BinopFault, NumberFault
<1>4. /\ UseFault(a.llvm) \in Outcome /\ CastFault(b.llvm, a.llvm) \in Outcome
      /\ NumberFault(a.llvm) \in Outcome
  BY FaultRange, NumberFaults, NothingLost
<1>5. BinopFault \in Outcome /\ ArithmeticFault \in Outcome
  BY <1>3, <1>4, PairOfFaults
<1>6. Fits(2, error, ArithmeticFault, n)
  <2>1. ASSUME NoMark(Len(operands) - 2), ~dirty, ~error
        PROVE  a.llvm = Lower(IntType) /\ ArithmeticFault = Fine
    <3>1. a.llvm = Lower(IntType) /\ b.llvm = Lower(IntType)
      BY <1>1, <1>2, <2>1, NumbersOnStack
    <3>2. BinopFault = Fine
      BY <1>3, <1>4, <3>1, NumberFaults, PairOfFaults
    <3>3. QED
      BY <1>3, <1>4, <1>5, <3>1, <3>2, NumberFaults, PairOfFaults
  <2>2. n.des = "expr" /\ n.type = IntType /\ n.llvm = a.llvm /\ IsNode(n)
    BY NodesLeft
  <2>3. IntType \in ValueType /\ IntType \in NodeType
    BY TypesAreNodeTypes
  <2> HIDE DEF n, error, a
  <2>4. QED
    BY <1>1, <2>1, <2>2, <2>3, NothingLost DEF Fits, Sound, IsValue
<1>7. error \in BOOLEAN
  OBVIOUS
<1> HIDE DEF n, error
<1>8. QED
  BY <1>1, <1>2, <1>5, <1>6, <1>7, VisitOne

LEMMA NegateKeeps == ASSUME ExprInv, Negate PROVE ExprInv'
<1> DEFINE a == Last(1)
           n == ExprNode(IntType, a.llvm)
           error == a.type # IntType
           fault == FirstFault(<<UseFault(a.llvm), NumberFault(a.llvm)>>)
<1>1. /\ NodesOK /\ 1 \in 0..Len(operands) /\ a.des = "expr" /\ a \in Node
      /\ a.llvm \in ExprValue
  BY AreOne, NodeFields DEF Negate, ExprInv
<1>2. Visit(1, error, fault, <<n>>) /\ outcome = Fine
  BY DEF Negate, Expr, ExprNode, Visit, NumberFault
<1>3. UseFault(a.llvm) \in Outcome /\ NumberFault(a.llvm) \in Outcome
  BY FaultRange, NumberFaults, NothingLost
<1>4. fault \in Outcome
  BY <1>3, PairOfFaults
<1>5. Fits(1, error, fault, n)
  <2>1. ASSUME NoMark(Len(operands) - 1), ~dirty, ~error
        PROVE  a.llvm = Lower(IntType) /\ fault = Fine
    <3>1. a.llvm = Lower(IntType)
      BY <1>1, <1>2, <2>1, NumbersOnStack
    <3>2. QED
      BY <1>3, <3>1, NumberFaults, PairOfFaults
  <2>2. n.des = "expr" /\ n.type = IntType /\ n.llvm = a.llvm /\ IsNode(n)
    BY NodesLeft
  <2>3. IntType \in ValueType /\ IntType \in NodeType
    BY TypesAreNodeTypes
  <2> HIDE DEF n, error, fault, a
  <2>4. QED
    BY <1>1, <2>1, <2>2, <2>3, NothingLost DEF Fits, Sound, IsValue
<1>6. error \in BOOLEAN
  OBVIOUS
<1> HIDE DEF n, error, fault
<1>7. QED
  BY <1>1, <1>2, <1>4, <1>5, <1>6, VisitOne

\* The statements that take one number.
LEMMA IncrementKeeps == ASSUME ExprInv, Increment PROVE ExprInv'
<1> DEFINE a == Last(1)
           error == a.type # IntType
           fault == CastFault(Pointee(a.llvm), <<"i32">>)
<1>1. Are(<<"designator">>) /\ Visit(1, error, fault, << >>) /\ outcome = Fine
  BY DEF Increment, Statement, Visit
<1>2. NodesOK /\ 1 \in 0..Len(operands) /\ a.des = "designator"
  BY <1>1, AreOne DEF ExprInv
<1>3. fault \in Outcome /\ error \in BOOLEAN
  BY FaultRange
<1>4. FaultFits(1, error, fault)
  <2> SUFFICES ASSUME NoMark(Len(operands) - 1), ~error, ~dirty PROVE fault \notin Lost
    BY DEF FaultFits
  <2>1. Pointee(a.llvm) = Lower(IntType)
    BY <1>1, <1>2, NumbersOnStack
  <2>2. QED
    BY <2>1, NumberFaults, LowerOthers, NothingLost
<1> HIDE DEF error, fault
<1>5. QED
  BY <1>1, <1>2, <1>3, <1>4, VisitNone

LEMMA PrintExprKeeps == ASSUME ExprInv, PrintExpr PROVE ExprInv'
<1> DEFINE a == Last(1)
           error == a.type \notin {IntType, CharType}
           fault == FirstFault(<<UseFault(a.llvm), NumberFault(a.llvm)>>)
<1>1. Are(<<"expr">>) /\ Visit(1, error, fault, << >>) /\ outcome = Fine
  BY DEF PrintExpr, Statement, Visit, NumberFault
<1>2. NodesOK /\ 1 \in 0..Len(operands) /\ a.des = "expr"
  BY <1>1, AreOne DEF ExprInv
<1>3. UseFault(a.llvm) \in Outcome /\ NumberFault(a.llvm) \in Outcome
  BY FaultRange, NumberFaults, NothingLost
<1>4. fault \in Outcome /\ error \in BOOLEAN
  BY <1>3, PairOfFaults
<1>5. FaultFits(1, error, fault)
  <2> SUFFICES ASSUME NoMark(Len(operands) - 1), ~error, ~dirty PROVE fault \notin Lost
    BY DEF FaultFits
  <2>1. a.llvm \in {Lower(IntType), Lower(CharType)}
    BY <1>1, <1>2, NumbersOnStack
  <2>2. QED
    BY <1>3, <2>1, NumberFaults, PairOfFaults, NothingLost
<1> HIDE DEF error, fault
<1>6. QED
  BY <1>1, <1>2, <1>4, <1>5, VisitNone

LEMMA ReadDesKeeps == ASSUME ExprInv, ReadDes PROVE ExprInv'
<1> DEFINE a == Last(1)
           error == a.type \notin {IntType, CharType}
           fault == FirstFault(<<UseFault(a.llvm), NumberFault(Pointee(a.llvm))>>)
<1>1. Are(<<"designator">>) /\ Visit(1, error, fault, << >>) /\ outcome = Fine
  BY DEF ReadDes, Statement, Visit, NumberFault
<1>2. NodesOK /\ 1 \in 0..Len(operands) /\ a.des = "designator"
  BY <1>1, AreOne DEF ExprInv
<1>3. fault \in Outcome /\ error \in BOOLEAN
  <2>1. UseFault(a.llvm) \in Outcome /\ NumberFault(Pointee(a.llvm)) \in Outcome
    BY FaultRange, NumberFaults, NothingLost
  <2>2. QED
    BY <2>1, PairOfFaults
<1>4. FaultFits(1, error, fault)
  <2> SUFFICES ASSUME NoMark(Len(operands) - 1), ~error, ~dirty PROVE fault \notin Lost
    BY DEF FaultFits
  <2>1. Pointee(a.llvm) \in {Lower(IntType), Lower(CharType)}
    BY <1>1, <1>2, NumbersOnStack
  <2>2. UseFault(a.llvm) \notin Lost
    <3>1. a \in Node /\ Sound(a)
      BY <1>1, <1>2, <2>1, AreOne, Children DEF ExprInv
    <3>2. IsMethodName(a) \/ IsAddress(a)
      BY <1>2, <3>1 DEF Sound
    <3>3. QED
      BY <3>2, Addresses, Functions DEF IsMethodName, IsAddress, Lost, Fine
  <2>3. NumberFault(Pointee(a.llvm)) \notin Lost
    BY <2>1, NumberFaults, NothingLost
  <2>4. UseFault(a.llvm) \in Outcome /\ NumberFault(Pointee(a.llvm)) \in Outcome
    BY FaultRange, NumberFaults, NothingLost
  <2> HIDE DEF a
  <2>5. QED
    BY <2>2, <2>3, <2>4, PairOfFaults
<1> HIDE DEF error, fault
<1>5. QED
  BY <1>1, <1>2, <1>3, <1>4, VisitNone

\* The statements that need compatible types.
LEMMA AssignKeeps == ASSUME ExprInv, Assign PROVE ExprInv'
<1> DEFINE a == Last(2)
           b == Last(1)
           error == ~Compatible(a.type, b.type)
           fault == FirstFault(<<UseFault(a.llvm), CastFault(b.llvm, Pointee(a.llvm))>>)
<1>1. Are(<<"designator", "expr">>) /\ Visit(2, error, fault, << >>) /\ outcome = Fine
  BY DEF Assign, Statement, Visit
<1>2. NodesOK /\ 2 \in 0..Len(operands) /\ a.des = "designator" /\ b.des = "expr"
  BY <1>1, AreTwo DEF ExprInv
<1>3. UseFault(a.llvm) \in Outcome /\ CastFault(b.llvm, Pointee(a.llvm)) \in Outcome
  BY FaultRange, NothingLost
<1>4. fault \in Outcome /\ error \in BOOLEAN
  BY <1>3, PairOfFaults DEF Compatible
<1>5. FaultFits(2, error, fault)
  <2> SUFFICES ASSUME NoMark(Len(operands) - 2), ~error, ~dirty PROVE fault \notin Lost
    BY DEF FaultFits
  <2>1. Sound(a) /\ Sound(b)
    BY <1>1, <1>2, Children
  <2>2. IsMethodName(a) \/ IsAddress(a)
    BY <1>2, <2>1 DEF Sound
  <2>3. IsValue(b)
    BY <1>2, <2>1 DEF Sound
  <2>4. CASE IsMethodName(a)
    <3>1. UseFault(a.llvm) = "function value"
      BY <2>4, Functions DEF IsMethodName
    <3>2. QED
      BY <3>1, FirstOfTwo DEF Lost, Fine
  <2>5. CASE IsAddress(a)
    <3>1. UseFault(a.llvm) = Fine /\ Pointee(a.llvm) = Lower(a.type)
      BY <2>5, Addresses DEF IsAddress
    <3>2. CastFault(b.llvm, Pointee(a.llvm)) \notin Lost
      BY <2>3, <2>5, <3>1, CompatibleCasts DEF IsAddress, IsValue
    <3>3. QED
      BY <1>3, <3>1, <3>2, PairOfFaults, NothingLost
  <2>6. QED
    BY <2>2, <2>4, <2>5
<1> HIDE DEF error, fault
<1>6. QED
  BY <1>1, <1>2, <1>4, <1>5, VisitNone

LEMMA CompareKeeps == ASSUME ExprInv, Compare PROVE ExprInv'
<1> DEFINE a == Last(2)
           b == Last(1)
           c == IF Is("array", a.llvm) THEN "aggregate" ELSE Fine
           error == ~Compatible(a.type, b.type)
           fault == FirstFault(<<BinopFault, c>>)
<1>1. Are(<<"expr", "expr">>) /\ Visit(2, error, fault, << >>) /\ outcome = Fine
  BY DEF Compare, Statement, Visit
<1>2. NodesOK /\ 2 \in 0..Len(operands) /\ a.des = "expr" /\ b.des = "expr"
  BY <1>1, AreTwo DEF ExprInv
<1>3. BinopFault = FirstFault(<<UseFault(a.llvm), CastFault(b.llvm, a.llvm)>>)
  BY DEF BinopFault
<1>4. /\ UseFault(a.llvm) \in Outcome /\ CastFault(b.llvm, a.llvm) \in Outcome
      /\ c \in Outcome /\ c \notin Lost
  BY FaultRange, NothingLost DEF Lost
<1>5. BinopFault \in Outcome
  BY <1>3, <1>4, PairOfFaults
<1> HIDE DEF c
<1>6. fault \in Outcome /\ error \in BOOLEAN
  BY <1>4, <1>5, PairOfFaults DEF Compatible
<1>7. FaultFits(2, error, fault)
  <2> SUFFICES ASSUME NoMark(Len(operands) - 2), ~error, ~dirty PROVE fault \notin Lost
    BY DEF FaultFits
  <2>1. Sound(a) /\ Sound(b)
    BY <1>1, <1>2, Children
  <2>2. IsValue(a) /\ IsValue(b)
    BY <1>2, <2>1 DEF Sound
  <2>3. UseFault(a.llvm) \notin Lost
    BY <2>2, LowerHeads DEF IsValue, Lost, Fine
  <2>4. CastFault(b.llvm, a.llvm) \notin Lost
    BY <2>2, CompatibleCasts DEF IsValue
  <2>5. BinopFault \notin Lost
    BY <1>3, <1>4, <2>3, <2>4, PairOfFaults
  <2>6. QED
    BY <1>4, <1>5, <2>5, PairOfFaults
<1> HIDE DEF error, fault
<1>8. QED
  BY <1>1, <1>2, <1>6, <1>7, VisitNone

LEMMA ReturnExprKeeps ==
    ASSUME ExprInv, NEW t \in Element \cup {"void"}, ReturnExpr(Plain(t)) PROVE ExprInv'
<1> DEFINE r == Plain(t)
           a == Last(1)
           error == ~Compatible(r, a.type)
           fault == CastFault(a.llvm, Lower(r))
<1>1. Are(<<"expr">>) /\ Visit(1, error, fault, << >>) /\ outcome = Fine
  BY DEF ReturnExpr, Statement, Visit
<1>2. NodesOK /\ 1 \in 0..Len(operands) /\ a.des = "expr"
  BY <1>1, AreOne DEF ExprInv
<1>3. fault \in Outcome /\ error \in BOOLEAN
  BY FaultRange DEF Compatible
<1>4. FaultFits(1, error, fault)
  <2> SUFFICES ASSUME NoMark(Len(operands) - 1), ~error, ~dirty PROVE fault \notin Lost
    BY DEF FaultFits
  <2>1. Sound(a)
    BY <1>1, <1>2, Children
  <2>2. IsValue(a)
    BY <1>2, <2>1 DEF Sound
  <2>3. r \in ValueType \cup {Null, Void, AnyArray}
    BY TypesAreNodeTypes DEF Void
  <2> HIDE DEF r
  <2>4. QED
    BY <2>2, <2>3, CompatibleCasts DEF IsValue
<1> HIDE DEF error, fault
<1>5. QED
  BY <1>1, <1>2, <1>3, <1>4, VisitNone

\* The operands of a call.
LEMMA AreCall ==
    ASSUME NodesOK, NEW n \in Nat, Are(<<"designator">> \o [i \in 1..n |-> "expr"])
    PROVE  /\ n + 1 \in 0..Len(operands) /\ n + 1 \in 1..(n + 1)
           /\ Last(n + 1).des = "designator" /\ Last(n + 1) \in Node
           /\ \A i \in 1..n : Last(i).des = "expr"
           /\ \A i \in 1..(n + 1) : Last(i).des # "mark"
<1> DEFINE exprs == [i \in 1..n |-> "expr"]
           kinds == <<"designator">> \o exprs
           last == Len(operands)
<1>1. exprs \in Seq({"expr"}) /\ Len(exprs) = n /\ \A i \in 1..n : exprs[i] = "expr"
  OBVIOUS
<1>2. /\ Len(kinds) = n + 1 /\ kinds[1] = "designator"
      /\ \A i \in 1..n : kinds[i + 1] = "expr"
  <2>1. exprs \in Seq({"expr", "designator"})
    BY <1>1
  <2> HIDE DEF exprs
  <2>2. QED
    BY <1>1, <2>1, InFront
<1>3. /\ last \in Nat /\ n + 1 <= last
      /\ \A i \in 1..(n + 1) : operands[last - (n + 1) + i].des = kinds[i]
  <2>1. Are(kinds) /\ last \in Nat
    BY DEF NodesOK
  <2> HIDE DEF kinds
  <2>2. QED
    BY <1>2, <2>1 DEF Are
<1> HIDE DEF kinds
<1>4. Last(n + 1).des = "designator" /\ Last(n + 1) \in Node
  <2>1. /\ last - (n + 1) + 1 = last + 1 - (n + 1)
        /\ last + 1 - (n + 1) \in 1..last /\ 1 \in 1..(n + 1)
    BY <1>3
  <2>2. QED
    BY <1>2, <1>3, <2>1 DEF Last, NodesOK
<1>5. ASSUME NEW i \in 1..n PROVE Last(i).des = "expr"
  <2> DEFINE j == n + 1 - i
  <2>1. j \in 1..n /\ j + 1 \in 1..(n + 1) /\ last - (n + 1) + (j + 1) = last + 1 - i
    BY <1>3
  <2> HIDE DEF j
  <2>2. QED
    BY <1>2, <1>3, <2>1 DEF Last
<1>6. \A i \in 1..(n + 1) : i \in 1..n \/ i = n + 1
  OBVIOUS
<1>7. n + 1 \in 0..last /\ n + 1 \in 1..(n + 1)
  BY <1>3
<1>8. QED
  BY <1>4, <1>5, <1>6, <1>7

\* The value that a call calls.
LEMMA FunctionValues ==
    \A v \in DesValue : Is("function", v) => v[2] \in Prototype /\ v = <<"function", v[2]>>
<1> SUFFICES ASSUME NEW v \in DesValue, Is("function", v)
             PROVE  v[2] \in Prototype /\ v = <<"function", v[2]>>
  OBVIOUS
<1>1. v # << >>
  BY DEF Is
<1>2. \A t \in ValueType \cup {Null} : v # Pointer(Lower(t))
  BY Addresses
<1>3. PICK p \in Prototype : v = <<"function", p>>
  BY <1>1, <1>2 DEF DesValue
<1>4. QED
  BY <1>3, Functions

LEMMA ReturnTypes ==
    \A p \in Prototype : /\ ReturnType[p] \in ValueType \cup {Void}
                         /\ ReturnType[p] \in NodeType
                         /\ Lower(ReturnType[p]) \in ExprValue
<1> SUFFICES ASSUME NEW p \in Prototype
             PROVE  /\ ReturnType[p] \in ValueType \cup {Void}
                    /\ ReturnType[p] \in NodeType
                    /\ Lower(ReturnType[p]) \in ExprValue
  OBVIOUS
<1>1. PICK e \in Element \cup {"void"} : ReturnType[p] = Plain(e)
  BY ExpressionAssumption
<1>2. ReturnType[p] \in ValueType \cup {Void}
  BY <1>1, TypesAreNodeTypes DEF Void
<1>3. QED
  BY <1>2, TypesAreNodeTypes DEF ExprValue

\* The arguments that are accepted need no cast of a number.
LEMMA ArgumentCasts ==
    ASSUME NEW n \in Nat, NEW p \in Prototype, NEW last
    PROVE  LET casts  == [i \in 1..n |-> IF i > Len(ArgTypes[p]) THEN "arguments"
                                         ELSE CastFault(Last(n + 1 - i).llvm,
                                                        Lower(ArgTypes[p][i]))]
               faults == casts \o <<last>>
               types  == [i \in 1..n |-> Last(n + 1 - i).type]
           IN  /\ last \in Outcome => FirstFault(faults) \in Outcome
               /\ (/\ last = (IF n < Len(ArgTypes[p]) THEN "arguments" ELSE Fine)
                   /\ MatchArguments(ArgTypes[p], types)
                   /\ \A i \in 1..n : IsValue(Last(i)))
                  => FirstFault(faults) \notin Lost
<1> DEFINE casts  == [i \in 1..n |-> IF i > Len(ArgTypes[p]) THEN "arguments"
                                     ELSE CastFault(Last(n + 1 - i).llvm,
                                                    Lower(ArgTypes[p][i]))]
           faults == casts \o <<last>>
           types  == [i \in 1..n |-> Last(n + 1 - i).type]
<1>1. /\ Len(ArgTypes[p]) \in Nat
      /\ \A i \in 1..Len(ArgTypes[p]) : ArgTypes[p][i] \in ValueType \cup {AnyArray}
  BY ExpressionAssumption
<1>2. casts \in Seq(Outcome) /\ Len(casts) = n
  <2>1. \A i \in 1..n : casts[i] \in Outcome
    BY FaultRange, NothingLost
  <2>2. QED
    BY <2>1
<1>3. ASSUME last \in Outcome
      PROVE  /\ faults \in Seq(Outcome) /\ Len(faults) = n + 1 /\ faults[n + 1] = last
             /\ \A i \in 1..n : faults[i] = casts[i]
  <2> HIDE DEF casts
  <2>1. QED
    BY <1>2, <1>3
<1>4. ASSUME last \in Outcome
      PROVE  /\ FirstFault(faults) \in Outcome
             /\ \/ FirstFault(faults) = Fine
                \/ \E i \in 1..(n + 1) : FirstFault(faults) = faults[i]
  <2>1. faults \in Seq(Outcome) /\ Len(faults) = n + 1
    BY <1>3, <1>4
  <2> HIDE DEF faults
  <2>2. \/ FirstFault(faults) = Fine
        \/ \E i \in 1..(n + 1) : FirstFault(faults) = faults[i]
    BY <2>1, FirstOf
  <2>3. \A i \in 1..(n + 1) : faults[i] \in Outcome
    BY <2>1
  <2>4. QED
    BY <2>2, <2>3, NothingLost
<1>5. ASSUME last = (IF n < Len(ArgTypes[p]) THEN "arguments" ELSE Fine),
             MatchArguments(ArgTypes[p], types), \A i \in 1..n : IsValue(Last(i))
      PROVE  FirstFault(faults) \notin Lost
  <2>1. Len(types) = n /\ Len(ArgTypes[p]) = n
        /\ \A i \in 1..n : Compatible(ArgTypes[p][i], types[i])
    <3>1. Len(types) = n
      OBVIOUS
    <3>2. QED
      BY <1>5, <3>1 DEF MatchArguments
  <2>2. last = Fine /\ last \in Outcome
    <3>1. Len(ArgTypes[p]) = n /\ ~(n < n)
      BY <2>1
    <3>2. last = Fine
      BY <1>5, <3>1
    <3>3. QED
      BY <3>2, NothingLost
  <2>3. ASSUME NEW i \in 1..n PROVE casts[i] \notin Lost
    <3> DEFINE a == Last(n + 1 - i)
               l == ArgTypes[p][i]
    <3>1. casts[i] = CastFault(a.llvm, Lower(l)) /\ types[i] = a.type
      BY <2>1
    <3>2. IsValue(a)
      <4>1. n + 1 - i \in 1..n
        OBVIOUS
      <4>2. QED
        BY <1>5, <4>1
    <3>3. l \in ValueType \cup {Null, Void, AnyArray} /\ Compatible(l, a.type)
      BY <1>1, <2>1, <3>1
    <3> HIDE DEF a, l
    <3>4. CastFault(Lower(a.type), Lower(l)) \notin Lost
      BY <3>2, <3>3, CompatibleCasts DEF IsValue
    <3>5. QED
      BY <3>1, <3>2, <3>4 DEF IsValue
  <2>4. \A i \in 1..(n + 1) : i \in 1..n \/ i = n + 1
    OBVIOUS
  <2>5. /\ faults[n + 1] = last /\ \A i \in 1..n : faults[i] = casts[i]
    BY <1>3, <2>2
  <2>6. FirstFault(faults) = Fine \/ \E i \in 1..(n + 1) : FirstFault(faults) = faults[i]
    BY <1>4, <2>2
  <2> HIDE DEF faults, casts
  <2>7. \A i \in 1..(n + 1) : faults[i] \notin Lost
    BY <2>2, <2>3, <2>4, <2>5, NothingLost
  <2>8. QED
    BY <2>6, <2>7, NothingLost
<1> HIDE DEF faults, types
<1>6. last \in Outcome => FirstFault(faults) \in Outcome
  BY <1>4
<1>7. QED
  BY <1>5, <1>6 DEF faults, types

\* A call leaves a value, or nothing.
LEMMA CallKeeps ==
    ASSUME ExprInv, NEW n \in Nat, NEW used \in BOOLEAN, Call(n, used) PROVE ExprInv'
<1> DEFINE callee == Last(n + 1)
           isFunction == Is("function", callee.llvm)
           p == IF isFunction THEN callee.llvm[2] ELSE callee.type.of
           types == [i \in 1..n |-> Last(n + 1 - i).type]
           error == ~MatchArguments(ArgTypes[p], types)
           casts == [i \in 1..n |-> IF i > Len(ArgTypes[p]) THEN "arguments"
                                    ELSE CastFault(Last(n + 1 - i).llvm,
                                                   Lower(ArgTypes[p][i]))]
           end == IF n < Len(ArgTypes[p]) THEN "arguments" ELSE Fine
           fault == FirstFault(casts \o <<end>>)
           undefined == ~Skipping(Below(n + 1)) /\ callee.type.kind # "method"
           value == ExprNode(ReturnType[p], Lower(ReturnType[p]))
           none == ExprNode(Unknown, << >>)
           lost == IF callee.llvm = << >> THEN "undeclared" ELSE "no value"
<1>1. /\ Are(<<"designator">> \o [i \in 1..n |-> "expr"])
      /\ undefined => LeaveWalk("undefined")
      /\ ~undefined /\ ~isFunction =>
           Visit(n + 1, FALSE, lost, IF used THEN <<none>> ELSE << >>)
      /\ ~undefined /\ isFunction =>
           Visit(n + 1, error, fault, IF used THEN <<value>> ELSE << >>)
  BY DEF Call, Expr, ExprNode
<1>2. /\ NodesOK /\ n + 1 \in 0..Len(operands) /\ n + 1 \in 1..(n + 1)
      /\ callee.des = "designator" /\ callee.llvm \in DesValue
      /\ \A i \in 1..n : Last(i).des = "expr"
      /\ \A i \in 1..(n + 1) : Last(i).des # "mark"
  BY <1>1, AreCall, NodeFields DEF ExprInv
<1>3. ~Skipping(Below(n + 1)) <=> NoMark(Len(operands) - (n + 1))
  BY <1>2, BelowIs
<1>4. ASSUME ~undefined, NoMark(Len(operands) - (n + 1)), ~dirty, outcome = Fine
      PROVE  isFunction /\ \A i \in 1..n : IsValue(Last(i))
  <2>1. \A i \in 1..(n + 1) : Sound(Last(i))
    BY <1>2, <1>4, Children
  <2>2. IsMethodName(callee)
    <3>1. IsMethodName(callee) \/ IsAddress(callee)
      BY <1>2, <2>1 DEF Sound
    <3>2. callee.type.kind = "method"
      BY <1>3, <1>4
    <3>3. \A t \in ValueType \cup {Null} : t.kind # "method"
      BY DEF ValueType, Null, Plain, ArrayOf
    <3>4. QED
      BY <3>1, <3>2, <3>3 DEF IsAddress
  <2>3. \A i \in 1..n : i \in 1..(n + 1)
    OBVIOUS
  <2>4. \A i \in 1..n : IsValue(Last(i))
    BY <1>2, <2>1, <2>3 DEF Sound
  <2>5. QED
    BY <2>2, <2>4, Functions DEF IsMethodName
<1>5. CASE undefined
  BY <1>1, <1>5, LeaveKeeps
<1>6. CASE ~undefined /\ ~isFunction
  <2>1. Visit(n + 1, FALSE, lost, IF used THEN <<none>> ELSE << >>) /\ outcome = Fine
    BY <1>1, <1>6 DEF Visit
  <2>2. ~(NoMark(Len(operands) - (n + 1)) /\ ~dirty)
    BY <1>4, <1>6, <2>1
  <2>3. lost \in Outcome
    BY NothingLost
  <2> HIDE DEF lost
  <2>4. CASE used
    <3>1. none.des = "expr" /\ none.type = Unknown /\ none.llvm = << >> /\ IsNode(none)
      BY NodesLeft
    <3>2. Fits(n + 1, FALSE, lost, none)
      <4>1. << >> \in ExprValue
        BY DEF ExprValue
      <4> HIDE DEF none
      <4>2. QED
        BY <2>2, <3>1, <4>1, UnknownInNodeType DEF Fits
    <3> HIDE DEF none
    <3>3. QED
      BY <1>2, <2>1, <2>3, <2>4, <3>2, VisitOne
  <2>5. CASE ~used
    <3>1. FaultFits(n + 1, FALSE, lost)
      BY <2>2 DEF FaultFits
    <3>2. QED
      BY <1>2, <2>1, <2>3, <2>5, <3>1, VisitNone
  <2>6. QED
    BY <2>4, <2>5
<1>7. CASE ~undefined /\ isFunction
  <2>1. Visit(n + 1, error, fault, IF used THEN <<value>> ELSE << >>) /\ outcome = Fine
    BY <1>1, <1>7 DEF Visit
  <2>2. p \in Prototype
    BY <1>2, <1>7, FunctionValues
  <2>3. error \in BOOLEAN
    BY DEF MatchArguments
  <2>4. end \in Outcome
    BY NothingLost
  <2> HIDE DEF p
  <2>5. /\ end \in Outcome => fault \in Outcome
        /\ (~error /\ \A i \in 1..n : IsValue(Last(i))) => fault \notin Lost
    BY <2>2, ArgumentCasts
  <2>6. NoMark(Len(operands) - (n + 1)) /\ ~error /\ ~dirty => fault \notin Lost
    BY <1>4, <1>7, <2>1, <2>5
  <2> HIDE DEF end, error, fault
  <2>7. CASE used
    <3>1. /\ value.des = "expr" /\ value.type = ReturnType[p]
          /\ value.llvm = Lower(ReturnType[p]) /\ IsNode(value)
      BY NodesLeft
    <3>2. Fits(n + 1, error, fault, value)
      <4> HIDE DEF value
      <4>1. QED
        BY <2>2, <2>6, <3>1, ReturnTypes DEF Fits, Sound, IsValue
    <3> HIDE DEF value
    <3>3. QED
      BY <1>2, <2>1, <2>3, <2>4, <2>5, <2>7, <3>2, VisitOne
  <2>8. CASE ~used
    <3>1. FaultFits(n + 1, error, fault)
      BY <2>6 DEF FaultFits
    <3>2. QED
      BY <1>2, <2>1, <2>3, <2>4, <2>5, <2>8, <3>1, VisitNone
  <2>9. QED
    BY <2>7, <2>8
<1>8. QED
  BY <1>5, <1>6, <1>7

-----------------------------------------------------------------------------
(* The invariant, and what follows from it.                                *)

LEMMA ExprInvInit == ExprInit => ExprInv
<1> SUFFICES ASSUME ExprInit PROVE ExprInv
  OBVIOUS
<1>1. operands = << >> /\ Len(operands) = 0 /\ dirty = FALSE /\ unchecked = FALSE /\ outcome = Fine
  BY DEF ExprInit
<1>2. NodesOK
  <2>1. << >> \in Seq(Node) /\ 0 <= MaxOperands
    BY ExpressionAssumption
  <2>2. Fine \in Outcome
    BY NothingLost
  <2>3. QED
    BY <1>1, <2>1, <2>2 DEF NodesOK
<1>3. SoundInv /\ MarkInv /\ LostInv
  <2>1. \A i \in 1..0 : FALSE
    OBVIOUS
  <2>2. QED
    BY <1>1, <2>1, NothingLost DEF SoundInv, MarkInv, LostInv, NoMark, NoMarkIn
<1>4. QED
  BY <1>2, <1>3 DEF ExprInv

LEMMA ExprInvStep == ExprInv /\ [ExprNext]_exprVars => ExprInv'
<1> SUFFICES ASSUME ExprInv, [ExprNext]_exprVars PROVE ExprInv'
  OBVIOUS
<1>1. CASE UNCHANGED exprVars
  BY <1>1 DEF exprVars, ExprInv, NodesOK, SoundInv, MarkInv, LostInv, NoMark
<1>2. CASE Literal
  BY <1>2, LiteralKeeps
<1>3. ASSUME NEW s \in Symbol \cup {NoSymbol}, VarDes(s) PROVE ExprInv'
  BY <1>3, VarDesKeeps
<1>4. ASSUME NEW s \in Symbol \cup {NoSymbol}, ArrDes(s) PROVE ExprInv'
  BY <1>4, ArrDesKeeps
<1>5. ASSUME NEW s \in Symbol \cup {NoSymbol}, NEW f \in FieldType, FieldDes(s, f)
      PROVE  ExprInv'
  BY <1>5, FieldDesKeeps
<1>6. CASE EnterUnchecked
  BY <1>6, EnterUncheckedKeeps
<1>7. CASE Deref
  BY <1>7, DerefKeeps
<1>8. ASSUME NEW t \in TypeName, New(t) PROVE ExprInv'
  BY <1>8, NewKeeps
<1>9. ASSUME NEW t \in TypeName, NewArr(t) PROVE ExprInv'
  BY <1>9, NewArrKeeps
<1>10. CASE Arithmetic
  BY <1>10, ArithmeticKeeps
<1>11. CASE Negate
  BY <1>11, NegateKeeps
<1>12. ASSUME NEW n \in 0..(MaxOperands - 1), CallExpr(n) \/ CallStatement(n) PROVE ExprInv'
  <2>1. n \in Nat
    BY ExpressionAssumption
  <2>2. Call(n, TRUE) \/ Call(n, FALSE)
    BY <1>12 DEF CallExpr, CallStatement
  <2>3. QED
    BY <2>1, <2>2, CallKeeps
<1>13. CASE Assign
  BY <1>13, AssignKeeps
<1>14. CASE Compare
  BY <1>14, CompareKeeps
<1>15. CASE Increment
  BY <1>15, IncrementKeeps
<1>16. CASE PrintExpr
  BY <1>16, PrintExprKeeps
<1>17. CASE ReadDes
  BY <1>17, ReadDesKeeps
<1>18. ASSUME NEW t \in Element \cup {"void"}, ReturnExpr(Plain(t)) PROVE ExprInv'
  BY <1>18, ReturnExprKeeps
<1>19. CASE ExprStopped
  BY <1>1, <1>19 DEF ExprStopped
<1>20. QED
  BY <1>1, <1>2, <1>3, <1>4, <1>5, <1>6, <1>7, <1>8, <1>9, <1>10, <1>11, <1>12, <1>13,
     <1>14, <1>15, <1>16, <1>17, <1>18, <1>19 DEF ExprNext

\* In every state, whatever the program, the operands are nodes with a value of
\* a known form, a node with nothing unchecked below it is sound, and the
\* generator has not been lost in a program that was checked and accepted.
THEOREM ExprInvariant == ExprSpec => []ExprInv
  BY ExprInvInit, ExprInvStep, PTL DEF ExprSpec

\* The nodes, the flags and the outcome are of their types, for any program.
THEOREM ExprTypeCorrect == ExprSpec => []ExprTypeOK
<1>1. ExprInv => ExprTypeOK
  <2> SUFFICES ASSUME ExprInv PROVE ExprTypeOK
    OBVIOUS
  <2>1. NodesOK
    BY DEF ExprInv
  <2>2. \A i \in 1..Len(operands) : operands[i] \in Node
    BY <2>1 DEF NodesOK
  <2>3. \A o \in Node : o.des \in {"designator", "expr", "mark"} /\ o.type \in NodeType
    BY DEF Node
  <2>4. QED
    BY <2>1, <2>2, <2>3 DEF ExprTypeOK, NodesOK, Outcome
<1>2. QED
  BY <1>1, ExprInvariant, PTL

\* Both passes agree on every expression, however it is nested: SemanticNodeVisitor
\* and CodegenVisitor give a node a type and a value that belong together.
THEOREM ValuesHaveTheirTypeInvariant == ExprSpec => []ValuesHaveTheirType
<1>1. ExprInv => ValuesHaveTheirType
  <2> SUFFICES ASSUME ExprInv, outcome = Fine, ~dirty, NEW i \in 1..Len(operands),
                      ~Skipping(SubSeq(operands, 1, i))
               PROVE  LET o == operands[i]
                      IN  o.llvm = IF o.type.kind = "method"    THEN <<"function", o.type.of>>
                                   ELSE IF o.des = "designator" THEN Pointer(Lower(o.type))
                                   ELSE Lower(o.type)
    BY DEF ValuesHaveTheirType
  <2> DEFINE o == operands[i]
  <2>1. i \in 0..Len(operands) /\ NodesOK
    BY DEF ExprInv
  <2>2. Sound(o)
    BY <2>1, SkippingIs DEF ExprInv, SoundInv
  <2>3. /\ \A t \in MethodType : t.kind = "method"
        /\ \A t \in ValueType \cup {Null, Void} : t.kind # "method"
    BY DEF MethodType, MethodOf, ValueType, Null, Void, Plain, ArrayOf
  <2> HIDE DEF o
  <2>4. o.llvm = IF o.type.kind = "method"    THEN <<"function", o.type.of>>
                 ELSE IF o.des = "designator" THEN Pointer(Lower(o.type))
                 ELSE Lower(o.type)
    BY <2>2, <2>3 DEF Sound, IsMethodName, IsAddress, IsValue
  <2>5. QED
    BY <2>4 DEF o
<1>2. QED
  BY <1>1, ExprInvariant, PTL

\* CodegenVisitor::cast never bit-casts a number in a program that was checked
\* entirely and accepted.
THEOREM NumbersAreNotCastInvariant == ExprSpec => []NumbersAreNotCast
<1>1. ExprInv => NumbersAreNotCast
  BY DEF ExprInv, LostInv, Lost, NumbersAreNotCast
<1>2. QED
  BY <1>1, ExprInvariant, PTL

\* In such a program every lookup of the generator finds what it looks for, and
\* every call has as many arguments as the method has parameters.
THEOREM LookupsSucceedInvariant == ExprSpec => []LookupsSucceed
<1>1. ExprInv => LookupsSucceed
  BY DEF ExprInv, LostInv, Lost, LookupsSucceed
<1>2. QED
  BY <1>1, ExprInvariant, PTL
=============================================================================
