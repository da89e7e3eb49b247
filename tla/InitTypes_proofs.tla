-------------------------- MODULE InitTypes_proofs --------------------------
(***************************************************************************)
(* The making of types, for any number of classes, any fields and any list *)
(* of array types that the symbol table can leave.                         *)
(***************************************************************************)
EXTENDS InitTypes, TLAPS

-----------------------------------------------------------------------------
(* The inductive invariant.                                                *)

\* Every array type is listed once.
ListedOnce == \A i, j \in 1..Len(arrays) : arrays[i] = arrays[j] => i = j

\* The classes that have a type are those the iterator has passed.
ClassesMade ==
    /\ Primitive \in types
    /\ \A c \in Class : Base(c) \in types <=> c < classIt

\* The arrays that have a type are those the other iterator has passed, and
\* the element of an array has one.
ArraysMade ==
    /\ \A i \in 1..(arrIt - 1) : ArrayOf(arrays[i]) \in types
    /\ \A k \in 0..NumClasses : ArrayOf(k) \in types =>
         /\ Base(k) \in types
         /\ \E i \in 1..(arrIt - 1) : arrays[i] = k

InitTypesInv ==
    InitTypesOK /\ DeclarationOrder /\ ListedOnce
      /\ ClassesMade /\ ArraysMade /\ SelfArrayHangs

-----------------------------------------------------------------------------
(* Facts about types.                                                      *)

LEMMA TypeForms ==
    /\ \A k \in 0..NumClasses : Base(k) \in Type /\ ArrayOf(k) \in Type
    /\ \A k, l \in 0..NumClasses : /\ Base(k) = Base(l) => k = l
                                   /\ ArrayOf(k) = ArrayOf(l) => k = l
                                   /\ Base(k) # ArrayOf(l)
    /\ \A t \in Type : /\ t.of \in 0..NumClasses
                       /\ t = IF t.array THEN ArrayOf(t.of) ELSE Base(t.of)
    /\ Primitive = Base(0)
  BY DEF Type, Base, ArrayOf, Primitive

LEMMA ClassForms ==
    /\ NumClasses \in Nat
    /\ \A c : c \in Class <=> c \in 1..NumClasses
    /\ \A c \in Class : c \in 0..NumClasses /\ c \in Nat /\ c # 0
  BY NumClassesAssumption DEF Class

\* An array needs its element, a class its fields.
LEMMA PartsOf ==
    /\ \A k \in 0..NumClasses : Parts(ArrayOf(k)) = {Base(k)}
    /\ \A c \in Class : Parts(Base(c)) = fields[c] \ {Base(c)}
  BY DEF Parts, ArrayOf, Base

\* The next array type, if there is one.
LEMMA NextArray ==
    ASSUME InitTypesInv, MoreArrays
    PROVE  /\ arrIt \in 1..Len(arrays) /\ Len(arrays) \in Nat
           /\ arrays[arrIt] \in 0..NumClasses
<1>1. /\ arrays \in Seq(0..NumClasses) /\ arrIt \in 1..(Len(arrays) + 1)
      /\ arrIt <= Len(arrays)
  BY DEF InitTypesInv, InitTypesOK, MoreArrays
<1>2. Len(arrays) \in Nat
  BY <1>1
<1>3. arrIt \in 1..Len(arrays)
  BY <1>1, <1>2
<1>4. QED
  BY <1>1, <1>2, <1>3, ClassForms

\* After the last class everything an array can be made of has a type.
LEMMA TailReady ==
    ASSUME InitTypesInv, ~MoreClasses, MoreArrays
    PROVE  ArrayReady
<1>1. classIt > NumClasses /\ arrays[arrIt] \in 0..NumClasses
  BY NextArray, ClassForms DEF InitTypesInv, InitTypesOK, MoreClasses
<1>2. CASE arrays[arrIt] = 0
  BY <1>2, TypeForms DEF InitTypesInv, ClassesMade, ArrayReady
<1>3. CASE arrays[arrIt] # 0
  <2>1. arrays[arrIt] \in Class /\ arrays[arrIt] < classIt
    BY <1>1, <1>3, ClassForms DEF InitTypesInv, InitTypesOK
  <2>2. QED
    BY <2>1 DEF InitTypesInv, ClassesMade, ArrayReady
<1>4. QED
  BY <1>2, <1>3

-----------------------------------------------------------------------------
LEMMA InitTypesInvInit == InitTypesInit => InitTypesInv
<1> SUFFICES ASSUME InitTypesInit PROVE InitTypesInv
  OBVIOUS
<1>1. InitTypesOK
  <2>1. fields \in [Class -> SUBSET Type]
    <3>1. /\ fields \in [Class -> UNION {FieldTypes(c) : c \in Class}]
          /\ \A c \in Class : fields[c] \in FieldTypes(c)
      BY DEF InitTypesInit
    <3>2. \A c \in Class : FieldTypes(c) \subseteq SUBSET Type
      BY DEF FieldTypes
    <3>3. QED
      BY <3>1, <3>2
  <2>2. arrays \in Seq(0..NumClasses)
    <3>1. PICK n \in 0..(NumClasses + 1) : arrays \in [1..n -> 0..NumClasses]
      BY DEF InitTypesInit, ArrayLists
    <3>2. QED
      BY <3>1, ClassForms
  <2>3. types \subseteq Type
    BY TypeForms, ClassForms DEF InitTypesInit
  <2>4. QED
    BY <2>1, <2>2, <2>3, ClassForms DEF InitTypesInit, InitTypesOK
<1>2. DeclarationOrder
  BY DEF InitTypesInit
<1>3. ListedOnce
  BY DEF InitTypesInit, ArrayLists, ListedOnce
<1>4. ClassesMade
  <2>1. ASSUME NEW c \in Class PROVE Base(c) # Primitive /\ ~(c < 1)
    BY TypeForms, ClassForms
  <2>2. QED
    BY <2>1 DEF InitTypesInit, ClassesMade
<1>5. ArraysMade
  <2>1. \A k \in 0..NumClasses : ArrayOf(k) # Primitive
    BY TypeForms, ClassForms
  <2>2. QED
    BY <2>1 DEF InitTypesInit, ArraysMade
<1>6. SelfArrayHangs
  BY ClassForms DEF InitTypesInit, SelfArrayHangs
<1>7. QED
  BY <1>1, <1>2, <1>3, <1>4, <1>5, <1>6 DEF InitTypesInv

\* The making of an array type, in either loop.
LEMMA ArrayMadeKeeps ==
    ASSUME InitTypesInv, ArrayReady,
           types' = types \cup {ArrayOf(arrays[arrIt])},
           arrIt' = arrIt + 1,
           UNCHANGED <<fields, arrays, classIt, structs>>
    PROVE  InitTypesInv'
<1> DEFINE k == arrays[arrIt]
<1>1. /\ arrIt \in 1..Len(arrays) /\ k \in 0..NumClasses /\ Base(k) \in types
      /\ Len(arrays) \in Nat
  BY NextArray DEF ArrayReady
<1>2. InitTypesOK'
  BY <1>1, TypeForms DEF InitTypesInv, InitTypesOK
<1>3. DeclarationOrder' /\ ListedOnce' /\ SelfArrayHangs'
  BY DEF InitTypesInv, DeclarationOrder, ListedOnce, SelfArrayHangs, SelfArray
<1>4. ClassesMade'
  <2>1. \A c \in Class : Base(c) # ArrayOf(k)
    BY <1>1, TypeForms, ClassForms
  <2>2. QED
    BY <2>1 DEF InitTypesInv, ClassesMade
<1>5. ArraysMade'
  <2>1. ASSUME NEW i \in 1..arrIt PROVE ArrayOf(arrays[i]) \in types'
    <3>1. i \in 1..(arrIt - 1) \/ i = arrIt
      BY <1>1
    <3>2. QED
      BY <3>1 DEF InitTypesInv, ArraysMade
  <2>2. ASSUME NEW l \in 0..NumClasses, ArrayOf(l) \in types'
        PROVE  Base(l) \in types' /\ \E i \in 1..arrIt : arrays[i] = l
    <3>1. CASE l = k
      BY <1>1, <3>1
    <3>2. CASE l # k
      <4>1. ArrayOf(l) \in types
        BY <1>1, <2>2, <3>2, TypeForms
      <4>2. 1..(arrIt - 1) \subseteq 1..arrIt
        BY <1>1
      <4>3. QED
        BY <4>1, <4>2 DEF InitTypesInv, ArraysMade
    <3>3. QED
      BY <3>1, <3>2
  <2>3. arrIt' - 1 = arrIt
    BY <1>1
  <2>4. QED
    BY <2>1, <2>2, <2>3 DEF ArraysMade
<1>6. QED
  BY <1>2, <1>3, <1>4, <1>5 DEF InitTypesInv

LEMMA ClassStepKeeps == ASSUME InitTypesInv, ClassStep PROVE InitTypesInv'
<1>1. /\ classIt \in Class /\ structs' = structs \cup {classIt}
      /\ UNCHANGED <<fields, arrays, arrIt>>
  BY ClassForms DEF ClassStep, MoreClasses, InitTypesInv, InitTypesOK
<1>2. DeclarationOrder' /\ ListedOnce'
  BY <1>1 DEF InitTypesInv, DeclarationOrder, ListedOnce, SelfArray
<1>3. CASE ~ClassReady
  <2>1. UNCHANGED <<types, classIt>>
    BY <1>3 DEF ClassStep
  <2>2. InitTypesOK'
    BY <1>1, <2>1 DEF InitTypesInv, InitTypesOK
  <2>3. ClassesMade' /\ ArraysMade' /\ SelfArrayHangs'
    BY <1>1, <2>1 DEF InitTypesInv, ClassesMade, ArraysMade, SelfArrayHangs, SelfArray
  <2>4. QED
    BY <1>2, <2>2, <2>3 DEF InitTypesInv
<1>4. CASE ClassReady
  <2>1. types' = types \cup {Base(classIt)} /\ classIt' = classIt + 1
    BY <1>4 DEF ClassStep
  <2>2. InitTypesOK'
    BY <1>1, <2>1, TypeForms, ClassForms DEF InitTypesInv, InitTypesOK
  <2>3. ClassesMade'
    <3>1. ASSUME NEW c \in Class
          PROVE  Base(c) \in types' <=> c < classIt + 1
      <4>1. CASE c = classIt
        BY <2>1, <4>1, ClassForms
      <4>2. CASE c # classIt
        <5>1. Base(c) # Base(classIt)
          BY <1>1, <4>2, TypeForms, ClassForms
        <5>2. c < classIt <=> c < classIt + 1
          BY <1>1, <4>2, ClassForms
        <5>3. QED
          BY <2>1, <5>1, <5>2 DEF InitTypesInv, ClassesMade
      <4>3. QED
        BY <4>1, <4>2
    <3>2. QED
      BY <2>1, <3>1 DEF InitTypesInv, ClassesMade
  <2>4. ArraysMade'
    <3>1. \A k \in 0..NumClasses : ArrayOf(k) # Base(classIt)
      BY <1>1, TypeForms, ClassForms
    <3>2. QED
      BY <1>1, <2>1, <3>1 DEF InitTypesInv, ArraysMade
  <2>5. SelfArrayHangs'
    <3>1. ASSUME NEW c \in Class, SelfArray(c), c = classIt
          PROVE  FALSE
      <4>1. ArrayOf(c) \in types
        BY <1>1, <1>4, <3>1, PartsOf, TypeForms, ClassForms DEF ClassReady, SelfArray
      <4>2. Base(c) \in types
        BY <4>1, ClassForms DEF InitTypesInv, ArraysMade
      <4>3. QED
        BY <3>1, <4>2, ClassForms DEF InitTypesInv, ClassesMade
    <3>2. QED
      BY <1>1, <2>1, <3>1, ClassForms
         DEF InitTypesInv, SelfArrayHangs, SelfArray
  <2>6. QED
    BY <1>2, <2>2, <2>3, <2>4, <2>5 DEF InitTypesInv
<1>5. QED
  BY <1>3, <1>4

LEMMA InitTypesInvStep ==
    InitTypesInv /\ [InitTypesNext]_initVars => InitTypesInv'
<1> SUFFICES ASSUME InitTypesInv, [InitTypesNext]_initVars PROVE InitTypesInv'
  OBVIOUS
<1>1. CASE ArrayStep
  BY <1>1, ArrayMadeKeeps DEF ArrayStep
<1>2. CASE ClassStep
  BY <1>2, ClassStepKeeps
<1>3. CASE TailStep
  BY <1>3, TailReady, ArrayMadeKeeps DEF TailStep
<1>4. CASE UNCHANGED initVars
  BY <1>4 DEF initVars, InitTypesInv, InitTypesOK, DeclarationOrder, ListedOnce,
              ClassesMade, ArraysMade, SelfArrayHangs, SelfArray
<1>5. QED
  BY <1>1, <1>2, <1>3, <1>4 DEF InitTypesNext

-----------------------------------------------------------------------------
(* What follows from it.                                                   *)

\* A class that cannot be made yet waits for an array type that is listed, and
\* all array types up to that one can be made.
LEMMA WorkLeft == InitTypesInv => NeverStuck
<1> SUFFICES ASSUME InitTypesInv, NoSelfArray, MoreClasses, ~ClassReady
             PROVE  ArrayReady
  BY DEF NeverStuck
<1>1. classIt \in Class
  BY ClassForms DEF MoreClasses, InitTypesInv, InitTypesOK
<1>2. PICK t \in fields[classIt] : t # Base(classIt) /\ t \notin types
  BY <1>1, PartsOf DEF ClassReady
<1>3. t \in Type /\ t.of \in 0..NumClasses /\ t.of <= classIt
  BY <1>1, <1>2, TypeForms DEF InitTypesInv, InitTypesOK, DeclarationOrder
<1>4. \A k \in 0..NumClasses : k < classIt => Base(k) \in types
  <2>1. ASSUME NEW k \in 0..NumClasses, k < classIt PROVE Base(k) \in types
    <3>1. CASE k = 0
      BY <3>1, TypeForms DEF InitTypesInv, ClassesMade
    <3>2. CASE k # 0
      BY <2>1, <3>2, ClassForms DEF InitTypesInv, ClassesMade
    <3>3. QED
      BY <3>1, <3>2
  <2>2. QED
    BY <2>1
<1>5. t.array
  <2>1. SUFFICES ASSUME ~t.array PROVE FALSE
    OBVIOUS
  <2>2. t = Base(t.of) /\ t.of # classIt
    BY <1>2, <1>3, <2>1, TypeForms
  <2>3. t.of < classIt
    BY <1>1, <1>3, <2>2, ClassForms
  <2>4. QED
    BY <1>2, <1>3, <1>4, <2>2, <2>3
<1>6. PICK p \in 1..Len(arrays) :
        arrays[p] = t.of /\ \A q \in 1..p : arrays[q] < classIt
  BY <1>1, <1>2, <1>5 DEF InitTypesInv, DeclarationOrder, NoSelfArray
<1>7. t = ArrayOf(arrays[p])
  BY <1>3, <1>5, <1>6, TypeForms
<1>8. arrIt <= p
  <2>1. p \notin 1..(arrIt - 1)
    BY <1>2, <1>7 DEF InitTypesInv, ArraysMade
  <2>2. QED
    BY <2>1 DEF InitTypesInv, InitTypesOK
<1>9. MoreArrays /\ arrays[arrIt] < classIt
  BY <1>6, <1>8 DEF InitTypesInv, InitTypesOK, MoreArrays
<1>10. QED
  BY <1>4, <1>9, NextArray DEF ArrayReady

LEMMA EverythingMade == InitTypesInv => AllTypesMade
<1> SUFFICES ASSUME InitTypesInv, Returned
             PROVE  /\ \A c \in Class : Base(c) \in types
                    /\ \A i \in 1..Len(arrays) : ArrayOf(arrays[i]) \in types
  BY DEF AllTypesMade
<1>1. classIt = NumClasses + 1 /\ arrIt = Len(arrays) + 1
  BY ClassForms DEF Returned, MoreClasses, MoreArrays, InitTypesInv, InitTypesOK
<1>2. \A c \in Class : Base(c) \in types
  BY <1>1, ClassForms DEF InitTypesInv, ClassesMade
<1>3. \A i \in 1..Len(arrays) : ArrayOf(arrays[i]) \in types
  BY <1>1 DEF InitTypesInv, InitTypesOK, ArraysMade
<1>4. QED
  BY <1>2, <1>3

\* An array type that is made was not there before, and its element was.
LEMMA MakesArray ==
    ASSUME InitTypesInv, ArrayReady,
           types' = types \cup {ArrayOf(arrays[arrIt])}, UNCHANGED fields
    PROVE  Resolution!ResolutionNext
<1> DEFINE k == arrays[arrIt]
<1>1. /\ arrIt \in 1..Len(arrays) /\ k \in 0..NumClasses /\ Base(k) \in types
  BY NextArray DEF ArrayReady
<1>2. ArrayOf(k) \notin types
  <2>1. SUFFICES ASSUME ArrayOf(k) \in types PROVE FALSE
    OBVIOUS
  <2>2. PICK i \in 1..(arrIt - 1) : arrays[i] = k
    BY <1>1, <2>1 DEF InitTypesInv, ArraysMade
  <2>3. QED
    BY <1>1, <2>2 DEF InitTypesInv, ListedOnce
<1>3. ArrayOf(k) \in Type \ {Primitive}
  BY <1>1, TypeForms, ClassForms
<1>4. Parts(ArrayOf(k)) \subseteq types
  BY <1>1, PartsOf
<1>5. Make(ArrayOf(k))
  BY <1>2, <1>4 DEF Make
<1>6. QED
  BY <1>3, <1>5 DEF Resolution!ResolutionNext, Resolution!Make, Resolution!Parts,
                    Resolution!Type, Resolution!Primitive, Resolution!Base,
                    Make, Parts, Type, Primitive, Base

LEMMA ResolutionStep ==
    InitTypesInv /\ [InitTypesNext]_initVars
        => [Resolution!ResolutionNext]_<<fields, types>>
<1> SUFFICES ASSUME InitTypesInv, [InitTypesNext]_initVars
             PROVE  Resolution!ResolutionNext \/ UNCHANGED <<fields, types>>
  OBVIOUS
<1>1. CASE ArrayStep
  BY <1>1, MakesArray DEF ArrayStep
<1>2. CASE TailStep
  BY <1>2, TailReady, MakesArray DEF TailStep
<1>3. CASE ClassStep
  <2>1. CASE ~ClassReady
    BY <1>3, <2>1 DEF ClassStep
  <2>2. CASE ClassReady
    <3>1. classIt \in Class /\ types' = types \cup {Base(classIt)} /\ fields' = fields
      BY <1>3, <2>2, ClassForms
         DEF ClassStep, MoreClasses, InitTypesInv, InitTypesOK
    <3>2. Base(classIt) \notin types
      BY <3>1, ClassForms DEF InitTypesInv, ClassesMade
    <3>3. Base(classIt) \in Type \ {Primitive}
      BY <3>1, TypeForms, ClassForms
    <3>4. Make(Base(classIt))
      BY <2>2, <3>1, <3>2 DEF Make, ClassReady
    <3>5. QED
      BY <3>3, <3>4 DEF Resolution!ResolutionNext, Resolution!Make, Resolution!Parts,
                        Resolution!Type, Resolution!Primitive, Resolution!Base,
                        Make, Parts, Type, Primitive, Base
  <2>3. QED
    BY <2>1, <2>2
<1>4. CASE UNCHANGED initVars
  BY <1>4 DEF initVars
<1>5. QED
  BY <1>1, <1>2, <1>3, <1>4 DEF InitTypesNext

LEMMA ResolutionStart == InitTypesInit => Resolution!ResolutionInit
<1>1. InitTypesInit => fields \in [Class -> SUBSET Type] /\ types = {Primitive}
  BY InitTypesInvInit DEF InitTypesInv, InitTypesOK, InitTypesInit
<1>2. QED
  BY <1>1 DEF Resolution!ResolutionInit, Resolution!Class, Resolution!Type,
              Resolution!Primitive, Resolution!Base, Class, Type, Primitive, Base

-----------------------------------------------------------------------------
(* Theorems.                                                               *)

\* The inductive invariant, which holds for any number of classes.
THEOREM InitTypesInvariant == InitTypesSpec => []InitTypesInv
<1>1. QED
  BY InitTypesInvInit, InitTypesInvStep, PTL DEF InitTypesSpec

\* The iterators and the types stay what they are meant to be (initTypes).
THEOREM InitTypesCorrect == InitTypesSpec => []InitTypesOK
<1>1. InitTypesInv => InitTypesOK
  BY DEF InitTypesInv
<1>2. QED
  BY <1>1, InitTypesInvariant, PTL

\* As long as classes remain, an array type or the next class can be made, for
\* every program without a class that has an array of itself (the retry loop
\* of initTypes does not run idle).
THEOREM NeverStuckInvariant == InitTypesSpec => []NeverStuck
<1>1. QED
  BY WorkLeft, InitTypesInvariant, PTL

\* When initTypes returns, every class and every array type has its LLVM type,
\* and no NULL has been stored by the last loop.
THEOREM AllTypesMadeInvariant == InitTypesSpec => []AllTypesMade
<1>1. QED
  BY EverythingMade, InitTypesInvariant, PTL

\* A class with an array of itself is never made, nor any class after it,
\* whatever else the program declares: initTypes does not return for it.
THEOREM SelfArrayNeverMade == InitTypesSpec => []SelfArrayHangs
<1>1. InitTypesInv => SelfArrayHangs
  BY DEF InitTypesInv
<1>2. QED
  BY <1>1, InitTypesInvariant, PTL

\* The loop of two iterators implements TypeResolution: it makes each type
\* once, after its parts, and loses none.
THEOREM InitTypesImplementsResolution == InitTypesSpec => ImplementsResolution
<1>1. QED
  BY ResolutionStart, ResolutionStep, InitTypesInvariant, PTL
     DEF InitTypesSpec, ImplementsResolution, Resolution!ResolutionSpec
=============================================================================
