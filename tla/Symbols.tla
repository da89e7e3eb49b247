------------------------------ MODULE Symbols -------------------------------
(***************************************************************************)
(* The symbol tables (src/src/semantics/symbols.cpp) and the visitors that *)
(* fill them (src/src/semantics/semantics.cpp: ProgramVisitor,             *)
(* ConstVisitor, ClassVisitor, VarVisitor, ArrVisitor, MethodVisitor), for *)
(* any program whose declarations the parser puts in the order of the      *)
(* grammar: constants, classes, variables, methods (MicroJava.g:63-64).    *)
(*                                                                         *)
(* A Type object is [name, home, array]: its identity is home (the scope   *)
(* of the type, or of the element type of an array), while the code        *)
(* compares types by name only.  Array and method types are entered in the *)
(* global table under names no identifier can have ("[int]", "(int)->int") *)
(* and are kept here in the vectors arrayTypes and prototypes alone.       *)
(* A method body is not walked: whatever it names is looked up in the      *)
(* scopes as they are while the method scope is open.                      *)
(***************************************************************************)
EXTENDS Naturals, Sequences

CONSTANTS
    Name,      \* the identifiers of the program
    MaxDecls   \* bound: declared names, the program and its methods included

ASSUME NameAssumption == {"int", "void", "main"} \subseteq Name /\ MaxDecls \in Nat

VARIABLES
    scopes,      \* Symbols::scopes, innermost last
    table,       \* scope -> Name -> symbol; the last class, arguments, method
    section,     \* the part of the program: const, class, var, method, end
    classes,     \* programScope's classes: name, and types of the fields
    methods,     \* programScope's methods: name, return and argument types
    arrayTypes,  \* GlobalScope::arrayTypes
    prototypes,  \* GlobalScope::prototypes, by name
    dirty,       \* an error was reported
    failed,      \* define() has thrown
    decls        \* counts what MaxDecls bounds

symVars == <<scopes, table, section, classes, methods, arrayTypes,
             prototypes, dirty, failed, decls>>

ScopeName == {"global", "program", "class", "args", "method"}
TypeSet == [name : Name, home : {"global", "program"}, array : BOOLEAN]
NoType == [name |-> "", home |-> "global", array |-> FALSE]
Kinds == {"none", "type", "class", "const", "var", "method", "program"}

Primitives == {"int", "char", "void"}
BuiltinMethods == {"ord", "chr", "len"}
BuiltinConstants == {"eol", "null"}

None == [kind |-> "none", type |-> NoType]
Base(n, home) == [name |-> n, home |-> home, array |-> FALSE]
EmptyTable == [n \in Name |-> None]

\* GlobalScope::GlobalScope
GlobalTable ==
    [n \in Name |->
       CASE n \in Primitives       -> [kind |-> "type", type |-> Base(n, "global")]
         [] n \in BuiltinMethods   -> [kind |-> "method", type |-> NoType]
         [] n \in BuiltinConstants -> [kind |-> "const", type |-> NoType]
         [] OTHER                  -> None]

\* Names of method types: names of the argument types and of the return type.
Signature(args, ret) == [args |-> [i \in 1..Len(args) |-> <<args[i].name, args[i].array>>],
                         ret |-> ret.name]

\* The method types defined by GlobalScope itself with plain define(): in the
\* table, not in prototypes.  (The argument of len has a type no program can
\* name.)
BuiltinSignatures == {[args |-> <<<<"char", FALSE>>>>, ret |-> "int"],
                      [args |-> <<<<"int", FALSE>>>>, ret |-> "char"]}

Elements(s) == {s[i] : i \in 1..Len(s)}

SymTypeOK ==
    /\ scopes \in {<<"global">>, <<"global", "program">>}
                  \cup {<<"global", "program", s>> : s \in {"class", "args", "method"}}
    /\ \A s \in ScopeName : \A n \in Name :
         table[s][n].kind \in Kinds /\ table[s][n].type \in TypeSet \cup {NoType}
    /\ section \in {"start", "const", "class", "var", "method", "end"}
    /\ arrayTypes \in Seq(TypeSet)
    /\ dirty \in BOOLEAN /\ failed \in BOOLEAN /\ decls \in 0..MaxDecls

SymInit ==
    /\ scopes = <<"global">>
    /\ table = [s \in ScopeName |-> IF s = "global" THEN GlobalTable ELSE EmptyTable]
    /\ section = "start"
    /\ classes = << >>
    /\ methods = << >>
    /\ arrayTypes = << >>
    /\ prototypes = << >>
    /\ dirty = FALSE
    /\ failed = FALSE
    /\ decls = 0

CurrentScope == scopes[Len(scopes)]

\* The scope and its parents.  The parent of a method scope is the scope of
\* the arguments, which has left the stack by then.
Chain == CASE CurrentScope = "global"  -> <<"global">>
           [] CurrentScope = "program" -> <<"program", "global">>
           [] CurrentScope = "class"   -> <<"class", "program", "global">>
           [] CurrentScope = "args"    -> <<"args", "program", "global">>
           [] CurrentScope = "method"  -> <<"method", "args", "program", "global">>

\* Scope::resolve: the scope that answers for n, "none" if there is none.
\* ClassScope::resolve answers for the name of the class before its fields,
\* which is the entry of the program scope.
Home(n) ==
    LET hits == {i \in 1..Len(Chain) : table[Chain[i]][n].kind # "none"}
    IN  IF CurrentScope = "class" /\ n = classes[Len(classes)].name THEN "program"
        ELSE IF hits = {} THEN "none"
        ELSE Chain[CHOOSE i \in hits : \A j \in hits : i <= j]

Resolve(n) == IF Home(n) = "none" THEN None ELSE table[Home(n)][n]

IsType(sym) == sym.kind \in {"type", "class"}
IsNamedValue(sym) == sym.kind \in {"const", "var", "method"}

\* Symbols::resolveType
ResolvesToType(n) == IsType(Resolve(n))

\* Scope::define in scope s: throws if the name is there already.
Define(s, n, sym) ==
    IF table[s][n].kind # "none"
    THEN failed' = TRUE /\ UNCHANGED table
    ELSE table' = [table EXCEPT ![s][n] = sym] /\ UNCHANGED failed

Running == ~failed /\ section # "end"
Declared(k) == decls + k <= MaxDecls /\ decls' = decls + k

\* ProgramVisitor up to the declarations; Symbols::enterProgramScope.
EnterProgram(n) ==
    /\ Running
    /\ section = "start"
    /\ Declared(1)
    /\ Define("global", n, [kind |-> "program", type |-> NoType])
    /\ scopes' = Append(scopes, "program")
    /\ section' = "const"
    /\ UNCHANGED <<classes, methods, arrayTypes, prototypes, dirty>>

\* A declaration whose type cannot be resolved is reported and skipped.
Unresolved ==
    /\ dirty' = TRUE
    /\ UNCHANGED <<scopes, table, classes, methods, arrayTypes, prototypes, failed>>

\* ConstVisitor
ConstDecl(t, n) ==
    /\ Running
    /\ section = "const"
    /\ Declared(1)
    /\ UNCHANGED section
    /\ IF ResolvesToType(t)
       THEN /\ Define("program", n, [kind |-> "const", type |-> Resolve(t).type])
            /\ UNCHANGED <<scopes, classes, methods, arrayTypes, prototypes, dirty>>
       ELSE Unresolved

\* ClassVisitor up to the fields; Symbols::enterClassScope.
EnterClass(n) ==
    /\ Running
    /\ CurrentScope = "program"
    /\ section \in {"const", "class"}
    /\ Declared(1)
    /\ section' = "class"
    /\ IF table["program"][n].kind # "none"
       THEN failed' = TRUE /\ UNCHANGED <<scopes, table, classes>>
       ELSE /\ table' = [table EXCEPT !["program"][n] =
                              [kind |-> "class", type |-> Base(n, "program")],
                           !["class"] = EmptyTable]
            /\ classes' = Append(classes, [name |-> n, fields |-> << >>])
            /\ scopes' = Append(scopes, "class")
            /\ UNCHANGED failed
    /\ UNCHANGED <<methods, arrayTypes, prototypes, dirty>>

LeaveClass ==
    /\ Running
    /\ CurrentScope = "class"
    /\ scopes' = <<"global", "program">>
    /\ UNCHANGED <<table, section, classes, methods, arrayTypes, prototypes,
                   dirty, failed, decls>>

\* Where a variable, a field, an argument or a local may be declared next.
VarSection ==
    \/ CurrentScope \in {"class", "args", "method"} /\ UNCHANGED section
    \/ /\ CurrentScope = "program"
       /\ section \in {"const", "class", "var"}
       /\ section' = "var"

\* defineNamedValue in the current scope.  The map of a class is ordered by
\* field name; a field list in order of declaration serves as well.  The
\* argument types of the method being declared are appended to its record.
DefineValue(n, type) ==
    /\ Define(CurrentScope, n, [kind |-> "var", type |-> type])
    /\ classes' = IF CurrentScope = "class"
                  THEN [classes EXCEPT ![Len(classes)].fields = Append(@, type)]
                  ELSE classes
    /\ methods' = IF CurrentScope = "args"
                  THEN [methods EXCEPT ![Len(methods)].args = Append(@, type)]
                  ELSE methods
    /\ UNCHANGED <<scopes, prototypes, dirty>>

\* VarVisitor
VarDecl(t, n) ==
    /\ Running
    /\ VarSection
    /\ Declared(1)
    /\ IF ResolvesToType(t)
       THEN DefineValue(n, Resolve(t).type) /\ UNCHANGED arrayTypes
       ELSE Unresolved

\* Mutants of ArrDecl: the array type is not registered; new array types are
\* put in front.
ArrDeclUnregistered(t, n) ==
    /\ Running
    /\ VarSection
    /\ Declared(1)
    /\ UNCHANGED arrayTypes
    /\ IF ResolvesToType(t)
       THEN DefineValue(n, [Resolve(t).type EXCEPT !.array = TRUE])
       ELSE Unresolved
ArrDeclInFront(t, n) ==
    /\ Running
    /\ VarSection
    /\ Declared(1)
    /\ ResolvesToType(t)
    /\ LET type == [Resolve(t).type EXCEPT !.array = TRUE]
       IN  /\ arrayTypes' = IF type \in Elements(arrayTypes) THEN arrayTypes
                            ELSE <<type>> \o arrayTypes
           /\ DefineValue(n, type)

\* ArrVisitor; Symbols::defineArray.  The array type is looked up by name and
\* made at its first occurrence.
ArrDecl(t, n) ==
    /\ Running
    /\ VarSection
    /\ Declared(1)
    /\ IF ResolvesToType(t)
       THEN LET known == {a \in Elements(arrayTypes) : a.name = t}
                type  == IF known # {} THEN CHOOSE a \in known : TRUE
                         ELSE [Resolve(t).type EXCEPT !.array = TRUE]
            IN  /\ arrayTypes' = IF known # {} THEN arrayTypes
                                 ELSE Append(arrayTypes, type)
                /\ DefineValue(n, type)
       ELSE Unresolved

\* MethodVisitor up to the arguments.  The method has no name yet: it gets
\* one from EnterMethod, and is not in the vector of the program before.
EnterArguments(r) ==
    /\ Running
    /\ CurrentScope = "program"
    /\ section \in {"const", "class", "var", "method"}
    /\ Declared(1)
    /\ section' = "method"
    /\ IF ResolvesToType(r)
       THEN /\ scopes' = Append(scopes, "args")
            /\ table' = [table EXCEPT !["args"] = EmptyTable]
            /\ methods' = Append(methods, [name |-> "", ret |-> Resolve(r).type,
                                           args |-> << >>])
            /\ UNCHANGED <<classes, arrayTypes, prototypes, dirty, failed>>
       ELSE Unresolved

\* The signature of the method whose arguments have been declared.
Declaring == Signature(methods[Len(methods)].args, methods[Len(methods)].ret)

DefineMethod(n, newScopes, newPrototypes) ==
    /\ Running
    /\ CurrentScope = "args"
    /\ prototypes' = newPrototypes
    /\ IF table["program"][n].kind # "none"
       THEN failed' = TRUE /\ UNCHANGED <<scopes, table, methods>>
       ELSE /\ table' = [table EXCEPT !["program"][n] =
                              [kind |-> "method", type |-> methods[Len(methods)].ret],
                           !["method"] = EmptyTable]
            /\ methods' = [methods EXCEPT ![Len(methods)].name = n]
            /\ scopes' = newScopes
            /\ UNCHANGED failed
    /\ UNCHANGED <<section, classes, arrayTypes, dirty, decls>>

\* Mutants of EnterMethod: the scope of the arguments is not left; a type is
\* made for every method.
EnterMethodInArguments(n) ==
    DefineMethod(n, Append(scopes, "method"), prototypes)
EnterMethodUnresolved(n) ==
    DefineMethod(n, <<"global", "program", "method">>, Append(prototypes, Declaring))

\* MethodVisitor from the arguments to the locals: leaveScope, then
\* Symbols::enterMethodScope.
EnterMethod(n) ==
    DefineMethod(n, <<"global", "program", "method">>,
                 IF Declaring \in Elements(prototypes) \cup BuiltinSignatures
                 THEN prototypes ELSE Append(prototypes, Declaring))

LeaveMethod ==
    /\ Running
    /\ CurrentScope = "method"
    /\ scopes' = <<"global", "program">>
    /\ UNCHANGED <<table, section, classes, methods, arrayTypes, prototypes,
                   dirty, failed, decls>>

\* The test of main at the end of ProgramVisitor: reported only if main takes
\* arguments and is not void.
BadMain ==
    \/ Resolve("main").kind # "method"
    \/ \E i \in 1..Len(methods) : methods[i].name = "main"
                                  /\ methods[i].args # << >>
                                  /\ methods[i].ret.name # "void"

LeaveProgram ==
    /\ Running
    /\ CurrentScope = "program"
    /\ section' = "end"
    /\ scopes' = <<"global">>
    /\ dirty' = (dirty \/ BadMain)
    /\ UNCHANGED <<table, classes, methods, arrayTypes, prototypes, failed, decls>>

\* The walk is over, or an exception has left it.
Over == ~Running /\ UNCHANGED symVars

\* void is a keyword: only a method can be declared with it.
Identifier == Name \ {"void"}

SymNext ==
    \/ \E n \in Identifier : EnterProgram(n) \/ EnterClass(n) \/ EnterMethod(n)
    \/ \E t, n \in Identifier : ConstDecl(t, n) \/ VarDecl(t, n) \/ ArrDecl(t, n)
    \/ \E r \in Name : EnterArguments(r)
    \/ LeaveClass
    \/ LeaveMethod
    \/ LeaveProgram
    \/ Over

SymSpec == SymInit /\ [][SymNext]_symVars

-----------------------------------------------------------------------------
Accepted == section = "end" /\ ~failed /\ ~dirty

\* The types of everything that code is generated for.
ValueTypes ==
    {table[s][n].type : s \in ScopeName \ {"global"}, n \in Name}
    \cup (UNION {Elements(classes[i].fields) : i \in 1..Len(classes)})
    \cup (UNION {Elements(methods[i].args) : i \in 1..Len(methods)})

\* Every array type that a variable, field, argument or local of the program
\* has is in the list initTypes goes through, once by name, whichever scope
\* it was first met in, and after the class of its elements.
ArrayTypesListed ==
    /\ \A t \in ValueTypes : t.array => t \in Elements(arrayTypes)
    /\ \A i, j \in 1..Len(arrayTypes) :
         arrayTypes[i].name = arrayTypes[j].name => i = j
    /\ \A a \in Elements(arrayTypes) :
         a.home = "program" => \E i \in 1..Len(classes) : classes[i].name = a.name

\* The order that initTypes relies on (InitTypes!DeclarationOrder): a class
\* uses itself and earlier classes, and the array types listed up to one that
\* it uses are arrays of earlier classes, or of itself if it has an array of
\* itself.
TypesInOrder ==
    ~failed =>
    \A c \in 1..Len(classes) :
        LET later(t) == t.home = "program" /\ \A i \in 1..c : classes[i].name # t.name
            own(t) == t.home = "program" /\ t.name = classes[c].name
            fields == Elements(classes[c].fields)
        IN  \A t \in fields :
              /\ ~later(t)
              /\ t.array => \E p \in 1..Len(arrayTypes) :
                               /\ arrayTypes[p] = t
                               /\ \A q \in 1..p :
                                    /\ ~later(arrayTypes[q])
                                    /\ own(arrayTypes[q]) => arrayTypes[q] \in fields

\* The signature of every method is in the list initMethods goes through,
\* once, or is one of those GlobalScope defines for ord and chr.
MethodTypesListed ==
    /\ \A i \in 1..Len(methods) :
         methods[i].name # "" =>
           Signature(methods[i].args, methods[i].ret)
             \in Elements(prototypes) \cup BuiltinSignatures
    /\ \A i, j \in 1..Len(prototypes) : prototypes[i] = prototypes[j] => i = j

\* implementation.tex:63: the type of a method is used to make the equivalent
\* LLVM type.  initMethods makes one for the signatures in prototypes only.
MethodTypesGenerated ==
    Accepted => \A i \in 1..Len(methods) :
        Signature(methods[i].args, methods[i].ret) \in Elements(prototypes)

\* implementation.tex:92, appendix.tex:222-223: a program that is accepted has
\* a method main that is void and takes no arguments.
MainIsVoidWithoutArguments ==
    Accepted => \E i \in 1..Len(methods) :
        /\ methods[i].name = "main"
        /\ methods[i].args = << >>
        /\ methods[i].ret = Base("void", "global")
=============================================================================
