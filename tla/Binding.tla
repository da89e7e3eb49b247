------------------------------ MODULE Binding -------------------------------
(***************************************************************************)
(* Which declaration a name in a method body stands for, in the semantic   *)
(* pass and in the code generator.                                         *)
(*                                                                         *)
(* The semantic pass walks the chain of scopes that is open at that moment *)
(* (Symbols).  The code generator has no scopes: it comes later, and looks *)
(* the name up in two maps, the locals of the method being generated and   *)
(* globalValues (src/src/codegen/values.cpp), which initGlobals fills with *)
(* the constants and variables, makeStdLib with ord, chr and len, and      *)
(* enterFunction with each method in turn, each overwriting what was under *)
(* the name before.  By the time method m is generated the program scope   *)
(* holds later methods too, but no other constants and variables than when *)
(* m was checked: so both passes can be compared while m is being checked. *)
(***************************************************************************)
EXTENDS Symbols

\* Values::initGlobals, makeStdLib and enterFunction: the scope whose
\* declaration of n is in globalValues while the last method is generated.
GlobalValue(n) ==
    IF \E i \in 1..Len(methods) : methods[i].name = n     THEN "program"
    ELSE IF n \in BuiltinMethods                          THEN "global"
    ELSE IF table["program"][n].kind \in {"const", "var"} THEN "program"
    ELSE IF n \in BuiltinConstants                        THEN "global"
    ELSE "none"

\* Mutant of LocalValue: the arguments are put in the table after the locals.
ArgumentsLast(n) ==
    IF table["args"][n].kind # "none"        THEN "args"
    ELSE IF table["method"][n].kind # "none" THEN "method"
    ELSE "none"

\* MethodVisitor of the code generator: the table of the arguments, then of
\* the locals, which overwrite arguments of the same name.
LocalValue(n) ==
    IF table["method"][n].kind # "none"    THEN "method"
    ELSE IF table["args"][n].kind # "none" THEN "args"
    ELSE "none"

\* Values::value
Value(n) == IF LocalValue(n) # "none" THEN LocalValue(n) ELSE GlobalValue(n)

\* The program has a constant or variable named like a predefined method.
Redeclares(n) == n \in BuiltinMethods /\ table["program"][n].kind \in {"const", "var"}

\* NamedValueVisitor and the other users of resolveNamedValue in a body.
Names(n) == CurrentScope = "method" /\ ~failed /\ IsNamedValue(Resolve(n))

\* A name the semantic pass has resolved to a value is generated as that same
\* value: an argument hidden by a local, a method hidden by an argument or a
\* predefined method redefined by the program included.
SameBinding ==
    \A n \in Name : Names(n) /\ ~Redeclares(n) => Value(n) = Home(n)

\* appendix.tex:205: a declaration in an inner scope hides the declaration of
\* the same name in an outer scope (and appendix.tex:211: predeclared names
\* may be redeclared).
InnerScopeHides == \A n \in Name : Names(n) => Value(n) = Home(n)
=============================================================================
