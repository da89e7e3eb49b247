--------------------------- MODULE TypeResolution ---------------------------
(***************************************************************************)
(* What Values::initTypes promises (src/src/codegen/values.cpp:84-115), an *)
(* order of work left open: an LLVM type is made for a class or an array   *)
(* once, when every type it is built from has been made, and never lost.   *)
(***************************************************************************)
EXTENDS Naturals

CONSTANT NumClasses   \* the program declares classes 1..NumClasses

ASSUME NumClassesAssumption == NumClasses \in Nat

VARIABLES
    fields,   \* class -> the types of its fields
    types     \* the types made so far

Class == 1..NumClasses

\* A type is a primitive type (0) or a class, or an array of one.
Type == [of : 0..NumClasses, array : BOOLEAN]
Base(c) == [of |-> c, array |-> FALSE]
ArrayOf(c) == [of |-> c, array |-> TRUE]
Primitive == Base(0)

\* The types that have to be known for t to be made; a class may refer to
\* itself by a pointer to its own opaque structure.
Parts(t) == IF t.array THEN {Base(t.of)} ELSE fields[t.of] \ {t}

ResolutionInit ==
    /\ fields \in [Class -> SUBSET Type]
    /\ types = {Primitive}

Make(t) ==
    /\ t \notin types
    /\ Parts(t) \subseteq types
    /\ types' = types \cup {t}
    /\ UNCHANGED fields

ResolutionNext == \E t \in Type \ {Primitive} : Make(t)

ResolutionSpec == ResolutionInit /\ [][ResolutionNext]_<<fields, types>>
=============================================================================
