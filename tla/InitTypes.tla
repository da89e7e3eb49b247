----------------------------- MODULE InitTypes ------------------------------
(***************************************************************************)
(* The making of LLVM types from the symbol table: Values::initTypes,      *)
(* initClass and initArrayType (src/src/codegen/values.cpp:84-167).        *)
(*                                                                         *)
(* Two iterators run over the classes and over the array types, each in    *)
(* order of declaration.  A class whose fields are not all known is tried  *)
(* again, without limit, after the array types that have become possible.  *)
(*                                                                         *)
(* A type is named by what it is (TypeResolution): the program is taken to *)
(* redeclare no primitive type.  The order of a class's fields is dropped: *)
(* initClass gives up at the first unknown one, and the indices that it    *)
(* has written by then are written again by the next attempt.              *)
(***************************************************************************)
EXTENDS Sequences, FiniteSets, TypeResolution

CONSTANT MaxFields   \* bound: distinct field types of a class in an initial state

VARIABLES
    arrays,    \* the element types of global.arrayTypes, in order
    classIt,   \* class_it
    arrIt,     \* arr_it
    structs    \* the classes with a StructType, opaque or not

initVars == <<fields, types, arrays, classIt, arrIt, structs>>

SelfArray(c) == ArrayOf(c) \in fields[c]

\* What the symbol table guarantees (Symbols!TypesInOrder): a class uses
\* itself and earlier classes, and the array types listed up to one that it
\* uses are arrays of earlier classes, or of itself if it has an array of
\* itself.
DeclarationOrder ==
    \A c \in Class : \A t \in fields[c] :
        /\ t.of <= c
        /\ t.array =>
             \E p \in 1..Len(arrays) :
                /\ arrays[p] = t.of
                /\ \A q \in 1..p : \/ arrays[q] < c
                                   \/ arrays[q] = c /\ SelfArray(c)

InitTypesOK ==
    /\ fields \in [Class -> SUBSET Type]
    /\ types \subseteq Type
    /\ arrays \in Seq(0..NumClasses)
    /\ classIt \in 1..(NumClasses + 1)
    /\ arrIt \in 1..(Len(arrays) + 1)
    /\ structs \subseteq Class

\* A list of distinct element types.
ArrayLists == UNION {{a \in [1..n -> 0..NumClasses] :
                        \A i, j \in 1..n : a[i] = a[j] => i = j} :
                     n \in 0..(NumClasses + 1)}

FieldTypes(c) == {s \in SUBSET {t \in Type : t.of <= c} : Cardinality(s) <= MaxFields}

InitTypesInit ==
    /\ fields \in {f \in [Class -> UNION {FieldTypes(c) : c \in Class}] :
                     \A c \in Class : f[c] \in FieldTypes(c)}
    /\ arrays \in ArrayLists
    /\ DeclarationOrder
    /\ types = {Primitive}
    /\ classIt = 1
    /\ arrIt = 1
    /\ structs = {}

MoreClasses == classIt <= NumClasses
MoreArrays == arrIt <= Len(arrays)

\* initArrayType(**arr_it) != NULL
ArrayReady == MoreArrays /\ Base(arrays[arrIt]) \in types

\* Mutant of ClassReady: an unknown field type is not noticed.
ClassAlwaysReady == classIt \in Class

\* initClass(*c) != NULL
ClassReady == Parts(Base(classIt)) \subseteq types

\* Mutants of ArrayStep: the inner loop passes over an array type that cannot
\* be made yet; the iterator is not advanced.
ArrayStepSkips ==
    /\ MoreClasses
    /\ MoreArrays
    /\ types' = IF ArrayReady THEN types \cup {ArrayOf(arrays[arrIt])} ELSE types
    /\ arrIt' = arrIt + 1
    /\ UNCHANGED <<fields, arrays, classIt, structs>>
ArrayStepStays ==
    /\ MoreClasses
    /\ ArrayReady
    /\ types' = types \cup {ArrayOf(arrays[arrIt])}
    /\ UNCHANGED <<fields, arrays, classIt, arrIt, structs>>

\* The inner loop over the array types.
ArrayStep ==
    /\ MoreClasses
    /\ ArrayReady
    /\ types' = types \cup {ArrayOf(arrays[arrIt])}
    /\ arrIt' = arrIt + 1
    /\ UNCHANGED <<fields, arrays, classIt, structs>>

\* Mutant of ClassStep: the iterator is advanced whatever initClass returns.
ClassStepSkips ==
    /\ MoreClasses
    /\ ~ArrayReady
    /\ structs' = structs \cup {classIt}
    /\ types' = IF ClassReady THEN types \cup {Base(classIt)} ELSE types
    /\ classIt' = classIt + 1
    /\ UNCHANGED <<fields, arrays, arrIt>>

\* An attempt at the next class, once the inner loop has stopped.
ClassStep ==
    /\ MoreClasses
    /\ ~ArrayReady
    /\ structs' = structs \cup {classIt}
    /\ IF ClassReady
       THEN types' = types \cup {Base(classIt)} /\ classIt' = classIt + 1
       ELSE UNCHANGED <<types, classIt>>
    /\ UNCHANGED <<fields, arrays, arrIt>>

\* Mutants of TailStep: one element too many; one pass instead of a loop.
TailStepPastEnd ==
    /\ ~MoreClasses
    /\ types' = IF ArrayReady THEN types \cup {ArrayOf(arrays[arrIt])} ELSE types
    /\ arrIt' = arrIt + 1
    /\ UNCHANGED <<fields, arrays, classIt, structs>>
TailStepOnce ==
    /\ ~MoreClasses
    /\ MoreArrays
    /\ types' = IF ArrayReady THEN types \cup {ArrayOf(arrays[arrIt])} ELSE types
    /\ arrIt' = Len(arrays) + 1
    /\ UNCHANGED <<fields, arrays, classIt, structs>>

\* The last loop: it stores whatever initArrayType returns, NULL included.
TailStep ==
    /\ ~MoreClasses
    /\ MoreArrays
    /\ types' = IF ArrayReady THEN types \cup {ArrayOf(arrays[arrIt])} ELSE types
    /\ arrIt' = arrIt + 1
    /\ UNCHANGED <<fields, arrays, classIt, structs>>

Returned == ~MoreClasses /\ ~MoreArrays

InitTypesNext == ArrayStep \/ ClassStep \/ TailStep \/ (Returned /\ UNCHANGED initVars)

InitTypesSpec == InitTypesInit /\ [][InitTypesNext]_initVars

\* The loops run on the one thread of the compiler.
FairInitTypesSpec == InitTypesSpec /\ WF_initVars(InitTypesNext)

-----------------------------------------------------------------------------
NoSelfArray == \A c \in Class : ~SelfArray(c)

\* The loop is never left with work that can no longer be done: as long as
\* classes remain, an array type or the next class can be made (a retry of
\* initClass never finds the same state).
NeverStuck == NoSelfArray /\ MoreClasses => ArrayReady \/ ClassReady

\* Everything declared has a type when initTypes returns, so no NULL is
\* stored by the last loop for initGlobals and initMethods to use.
AllTypesMade ==
    Returned => /\ \A c \in Class : Base(c) \in types
                /\ \A i \in 1..Len(arrays) : ArrayOf(arrays[i]) \in types

\* A class that has an array of itself is never made, nor any class after it:
\* the array needs the class and the class the array.
SelfArrayHangs == \A c \in Class : SelfArray(c) => classIt <= c

\* Without such a class initTypes returns.
Terminates == NoSelfArray ~> Returned

\* initTypes makes a type only after its parts, whatever the order.
Resolution == INSTANCE TypeResolution WITH
                  NumClasses <- NumClasses, fields <- fields, types <- types
ImplementsResolution == Resolution!ResolutionSpec

\* implementation.tex:95: after the program has been checked successfully
\* everything is ready for code generation.  An array of the class itself is a
\* legal field: appendix.tex:210 forbids indirect recursion alone.
ReadyForCodegen == <>Returned
=============================================================================
