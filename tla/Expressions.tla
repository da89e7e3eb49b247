---------------------------- MODULE Expressions -----------------------------
(***************************************************************************)
(* Expressions, designators and the statements made of them, in both       *)
(* passes: the type that src/src/semantics/semantics.cpp gives a node, and *)
(* the LLVM value that src/src/codegen/mjmodule.cpp makes of it.           *)
(*                                                                         *)
(* A visitor uses only what its children have left on their nodes, so the  *)
(* tree is built from its leaves: "operands" are the nodes visited whose   *)
(* parent is not.  Each action is one visitor of each pass on one node.    *)
(* The generator runs only if the whole program has passed the semantic    *)
(* pass, so what it does with a node counts as long as nothing is dirty.   *)
(*                                                                         *)
(* ArrDesVisitor and NewArrVisitor of the semantic pass do not visit the   *)
(* index and the size (semantics.cpp:363-377, 392-404), while those of the *)
(* generator do: below a "mark" on the stack only the generator runs.      *)
(*                                                                         *)
(* A name is the symbol it resolves to (Symbols and Binding say which).    *)
(* An LLVM type is a sequence read from the outside: <<"*", "i8">> is a    *)
(* pointer, <<"array", "i32">> the structure {i32, i32*}, << >> the NULL   *)
(* that is passed around when there is no value.                           *)
(***************************************************************************)
EXTENDS Naturals, Sequences

CONSTANTS
    Class,       \* the classes of the program
    Prototype,   \* the method types, ...
    ArgTypes,    \* ... the types of their arguments
    ReturnType,  \* ... and their return types
    MaxOperands  \* bound: nodes that wait for their parent

VARIABLES
    operands,   \* nodes whose parent has not been visited, last one last
    dirty,      \* SemanticNodeVisitor::dirty
    unchecked,  \* the semantic pass has walked past a subtree
    outcome     \* "running", or how a pass was left

exprVars == <<operands, dirty, unchecked, outcome>>

Plain(t) == [kind |-> "plain", of |-> t]
ArrayOf(t) == [kind |-> "array", of |-> t]
MethodOf(p) == [kind |-> "method", of |-> p]

IntType == Plain("int")
CharType == Plain("char")
Void == Plain("void")
Null == Plain("null")
Unknown == Plain("unknown")     \* UNKNOWN_TYPE: no type was set on the node
AnyArray == Plain("anyarray")   \* the argument of len

Element == {"int", "char"} \cup Class
ValueType == {Plain(t) : t \in Element} \cup {ArrayOf(t) : t \in Element}
MethodType == {MethodOf(p) : p \in Prototype}
NodeType == {Null, Void, Unknown, ArrayOf("void")} \cup ValueType \cup MethodType

ASSUME ExpressionAssumption ==
    /\ MaxOperands \in Nat
    /\ Class \cap {"int", "char", "void", "null", "unknown", "anyarray",
                   "i32", "i8", "*", "array", "function"} = {}
    /\ ArgTypes \in [Prototype -> Seq(ValueType \cup {AnyArray})]
    /\ ReturnType \in [Prototype -> {Plain(t) : t \in Element \cup {"void"}}]

\* NamedValues: eol and other constants, null, variables, and methods.
Symbol == {[kind |-> "const", type |-> t] : t \in {IntType, CharType, Null}}
          \cup {[kind |-> "var", type |-> t] : t \in ValueType}
          \cup {[kind |-> "method", type |-> t] : t \in MethodType}
NoSymbol == [kind |-> "none", type |-> Unknown]

IsClass(t) == t.kind = "plain" /\ t.of \in Class
IsReference(t) == t.kind = "array" \/ IsClass(t) \/ t = AnyArray

\* Type::compatible, ReferenceType::compatible, AnyArrayType::compatible
Compatible(l, r) == \/ l = r
                    \/ IsReference(l) /\ r = Null
                    \/ l = AnyArray /\ r.kind = "array"

\* Mutant of MatchArguments: the numbers are not compared.
MatchPrefix(args, types) ==
    \A i \in 1..Len(types) : i <= Len(args) => Compatible(args[i], types[i])

\* MethodArguments::matchArguments
MatchArguments(args, types) ==
    /\ Len(args) = Len(types)
    /\ \A i \in 1..Len(types) : Compatible(args[i], types[i])

\* Values::types, filled by initPrimitives, initClass and initArrayType.
LowerPlain(t) == CASE t = "int"      -> <<"i32">>
                   [] t = "char"     -> <<"i8">>
                   [] t = "void"     -> <<"void">>
                   [] t = "null"     -> <<"*", "i8">>
                   [] t = "anyarray" -> <<"array", "i8">>
                   [] t \in Class    -> <<"*", t>>
Lower(t) == IF t.kind = "array" THEN <<"array">> \o LowerPlain(t.of)
            ELSE LowerPlain(t.of)

Pointer(llvm) == <<"*">> \o llvm
Pointee(llvm) == IF llvm = << >> THEN << >> ELSE Tail(llvm)
Is(what, llvm) == llvm # << >> /\ llvm[1] = what
IsInteger(llvm) == llvm \in {<<"i32">>, <<"i8">>}

Fine == "running"

\* What goes wrong when the generator uses a value for its contents.  As long
\* as nothing else has gone wrong, the only NULL is that of a name without value.
UseFault(llvm) ==
    CASE llvm = << >>         -> "undeclared"
      [] Is("function", llvm) -> "function value"
      [] Is("void", llvm)     -> "void value"
      [] OTHER                -> Fine

\* CodegenVisitor::cast: nothing if the types are equal, else a bitcast.  Of
\* the types here, LLVM defines it between pointers alone.
CastFault(from, to) ==
    IF UseFault(from) # Fine                           THEN UseFault(from)
    ELSE IF from = to \/ (Is("*", from) /\ Is("*", to)) THEN Fine
    ELSE IF IsInteger(from) \/ IsInteger(to)           THEN "integer cast"
    ELSE "aggregate"

FirstFault(faults) ==
    LET bad == {i \in 1..Len(faults) : faults[i] # Fine}
    IN  IF bad = {} THEN Fine
        ELSE faults[CHOOSE i \in bad : \A j \in bad : i <= j]

\* A mark stands for a child that the semantic pass does not visit.
Mark == [des |-> "mark", type |-> Unknown, llvm |-> << >>]

Last(k) == operands[Len(operands) + 1 - k]    \* Last(1) is the last operand
Below(k) == SubSeq(operands, 1, Len(operands) - k)
Skipping(nodes) == \E i \in 1..Len(nodes) : nodes[i].des = "mark"

\* The last operands are of these syntactic kinds.
Are(kinds) ==
    /\ Len(kinds) <= Len(operands)
    /\ \A i \in 1..Len(kinds) : operands[Len(operands) - Len(kinds) + i].des = kinds[i]

\* A visitor of each pass takes k children from the stack and leaves "nodes".
\* error: the semantic visitor calls setDirty, and sets no type.  fault: what
\* goes wrong in the generator.
Visit(k, error, fault, nodes) ==
    LET checked == ~Skipping(Below(k))
    IN  /\ outcome = Fine
        /\ Len(Below(k)) + Len(nodes) <= MaxOperands
        /\ dirty' = (dirty \/ (checked /\ error))
        /\ outcome' = IF dirty' THEN Fine ELSE fault
        /\ operands' = Below(k) \o
             [i \in 1..Len(nodes) |->
                IF checked /\ ~error THEN nodes[i]
                ELSE [nodes[i] EXCEPT !.type = Unknown]]
        /\ UNCHANGED unchecked

Expr(type, llvm) == << [des |-> "expr", type |-> type, llvm |-> llvm] >>
Designator(type, llvm) == << [des |-> "designator", type |-> type, llvm |-> llvm] >>

\* The semantic pass is left by an exception, or by undefined behaviour.
LeaveWalk(how) == outcome = Fine /\ outcome' = how /\ UNCHANGED <<operands, dirty, unchecked>>

ExprInit ==
    /\ operands = << >>
    /\ dirty = FALSE
    /\ unchecked = FALSE
    /\ outcome = Fine

\* The value the generator has for a symbol (Values::value).
ValueOf(s) == CASE s.kind = "none"   -> << >>
                [] s.kind = "method" -> <<"function", s.type.of>>
                [] OTHER             -> Pointer(Lower(s.type))

\* IntLiteralVisitor and CharLiteralVisitor.
Literal == \E t \in {IntType, CharType} : Visit(0, FALSE, Fine, Expr(t, Lower(t)))

\* NamedValueVisitor; VarDesVisitor.
VarDes(s) == Visit(0, s.kind = "none", Fine, Designator(s.type, ValueOf(s)))

\* FieldDesVisitor.  f is the type of the field; Unknown: there is no such
\* field, and Values::index is -1.
FieldDes(s, f) ==
    IF s.kind # "none" /\ ~IsClass(s.type) /\ ~Skipping(operands)
    THEN LeaveWalk("rejected")    \* std::bad_cast
    ELSE Visit(0, s.kind = "none" \/ f = Unknown,
               CASE s.kind = "none"                   -> "undeclared"
                 [] ~IsClass(s.type) \/ f = Unknown -> "no value"
                 [] OTHER                             -> Fine,
               Designator(f, IF f = Unknown THEN << >> ELSE Pointer(Lower(f))))

\* The index of ArrDes or the size of NewArr follows, which is generated only.
\* (The bound leaves room for it.)
EnterUnchecked ==
    /\ outcome = Fine
    /\ Len(operands) + 1 < MaxOperands
    /\ operands' = Append(operands, Mark)
    /\ unchecked' = TRUE
    /\ UNCHANGED <<dirty, outcome>>

\* ArrDesVisitor.
ArrDes(s) ==
    /\ Are(<<"mark", "expr">>)
    /\ IF s.kind # "none" /\ s.type.kind # "array" /\ ~Skipping(Below(2))
       THEN LeaveWalk("rejected")    \* std::bad_cast
       ELSE Visit(2, s.kind = "none",
                  FirstFault(<<CASE s.kind = "none"       -> "undeclared"
                                 [] s.type.kind = "array" -> Fine
                                 [] OTHER                 -> "no value",
                               UseFault(Last(1).llvm),
                               IF IsInteger(Last(1).llvm) THEN Fine ELSE "no value">>),
                  Designator(Plain(s.type.of),
                             IF s.type.kind = "array" THEN Pointer(LowerPlain(s.type.of))
                             ELSE << >>))

\* Mutant of Deref: the address is passed on for the value.
DerefNoLoad ==
    /\ Are(<<"designator">>)
    /\ Visit(1, FALSE, UseFault(Last(1).llvm), Expr(Last(1).type, Last(1).llvm))

\* DerefVisitor: a load.
Deref ==
    /\ Are(<<"designator">>)
    /\ Visit(1, FALSE, UseFault(Last(1).llvm),
             Expr(Last(1).type, Pointee(Last(1).llvm)))

\* NewVisitor.  t: a class, a type that is no class, or a name that is no type.
New(t) ==
    Visit(0, ~IsClass(t), IF IsClass(t) THEN Fine ELSE "no value",
          Expr(t, IF IsClass(t) THEN Lower(t) ELSE << >>))

\* Mutant of NewArr: an unknown element type is not reported.
NewArrUnreported(t) ==
    /\ Are(<<"mark", "expr">>)
    /\ Visit(2, FALSE, CastFault(Last(1).llvm, <<"i32">>),
             Expr(ArrayOf(t.of), <<"array">>))

\* NewArrVisitor.  The size is multiplied in the width of size_t and then
\* stored as int; LLVM truncates or bit-casts, and does not extend.  void is
\* a type like any other for the semantic pass.
NewArr(t) ==
    /\ Are(<<"mark", "expr">>)
    /\ Visit(2, t = Unknown,
             CASE t = Unknown -> "no value"
               [] t = Void    -> "void value"
               [] OTHER       -> CastFault(Last(1).llvm, <<"i32">>),
             Expr(IF t = Unknown THEN t ELSE ArrayOf(t.of),
                  IF t = Unknown THEN << >> ELSE <<"array">> \o LowerPlain(t.of)))

\* BinopVisitor: the right value is cast to the type of the left one.
BinopFault == FirstFault(<<UseFault(Last(2).llvm), CastFault(Last(1).llvm, Last(2).llvm)>>)
ArithmeticFault ==
    FirstFault(<<BinopFault, IF IsInteger(Last(2).llvm) THEN Fine ELSE "no value">>)

\* Mutant of Arithmetic: the operands need only be of one type, or either int.
ArithmeticOnAny ==
    /\ Are(<<"expr", "expr">>)
    /\ Visit(2, Last(2).type # IntType /\ Last(1).type # IntType, ArithmeticFault,
             Expr(IntType, Last(2).llvm))

\* IntOpVisitor; AddVisitor, SubVisitor, MulVisitor, DivVisitor, ModVisitor.
Arithmetic ==
    /\ Are(<<"expr", "expr">>)
    /\ Visit(2, Last(2).type # IntType \/ Last(1).type # IntType, ArithmeticFault,
             Expr(IntType, Last(2).llvm))

\* UnOpVisitor; NegOpVisitor.
Negate ==
    /\ Are(<<"expr">>)
    /\ Visit(1, Last(1).type # IntType,
             FirstFault(<<UseFault(Last(1).llvm),
                          IF IsInteger(Last(1).llvm) THEN Fine ELSE "no value">>),
             Expr(IntType, Last(1).llvm))

\* CallVisitor on a designator and n expressions.  The generator takes the
\* parameters one by one with the arguments, without looking for their end.
\* used: the value it returns is left for a parent.
Call(n, used) ==
    LET callee == Last(n + 1)
        args   == [i \in 1..n |-> Last(n + 1 - i)]
        types  == [i \in 1..n |-> args[i].type]
        checked == ~Skipping(Below(n + 1))
        p      == IF Is("function", callee.llvm) THEN callee.llvm[2] ELSE callee.type.of
        left(type, llvm) == IF used THEN Expr(type, llvm) ELSE << >>
        error  == ~MatchArguments(ArgTypes[p], types)
        casts  == [i \in 1..n |-> IF i > Len(ArgTypes[p]) THEN "arguments"
                                  ELSE CastFault(args[i].llvm, Lower(ArgTypes[p][i]))]
    IN  /\ Are(<<"designator">> \o [i \in 1..n |-> "expr"])
        /\ IF checked /\ callee.type.kind # "method"
           THEN LeaveWalk("undefined")    \* mt is NULL
           ELSE IF ~Is("function", callee.llvm)
           THEN Visit(n + 1, FALSE, IF callee.llvm = << >> THEN "undeclared" ELSE "no value",
                      left(Unknown, << >>))
           ELSE Visit(n + 1, error,
                      FirstFault(casts \o <<IF n < Len(ArgTypes[p]) THEN "arguments" ELSE Fine>>),
                      left(ReturnType[p], Lower(ReturnType[p])))

\* As an expression, and as a statement.
CallExpr(n) == Call(n, TRUE)
CallStatement(n) == Len(operands) = n + 1 /\ Call(n, FALSE)

\* The other statements are made of all operands there are.
Statement(kinds, error, fault) ==
    /\ Len(operands) = Len(kinds)
    /\ Are(kinds)
    /\ Visit(Len(kinds), error, fault, << >>)

\* CheckCompatibleVisitor (for SET too: SetVisitor is never registered);
\* AssignVisitor.
Assign ==
    Statement(<<"designator", "expr">>, ~Compatible(Last(2).type, Last(1).type),
              FirstFault(<<UseFault(Last(2).llvm),
                           CastFault(Last(1).llvm, Pointee(Last(2).llvm))>>))

\* CheckCompatibleVisitor; BinopVisitor of a relation, in a condition.
Compare ==
    Statement(<<"expr", "expr">>, ~Compatible(Last(2).type, Last(1).type),
              FirstFault(<<BinopFault,
                           IF Is("array", Last(2).llvm) THEN "aggregate" ELSE Fine>>))

\* UnOpVisitor; IncVisitor and DecVisitor.
Increment ==
    Statement(<<"designator">>, Last(1).type # IntType, CastFault(Pointee(Last(1).llvm), <<"i32">>))

\* PrintVisitor.
PrintExpr ==
    Statement(<<"expr">>, Last(1).type \notin {IntType, CharType},
              FirstFault(<<UseFault(Last(1).llvm),
                           IF IsInteger(Last(1).llvm) THEN Fine ELSE "no value">>))

\* ReadVisitor.
ReadDes ==
    Statement(<<"designator">>, Last(1).type \notin {IntType, CharType},
              FirstFault(<<UseFault(Last(1).llvm),
                           IF IsInteger(Pointee(Last(1).llvm)) THEN Fine ELSE "no value">>))

\* ReturnVisitor with an expression; RetVisitor.
ReturnExpr(r) ==
    Statement(<<"expr">>, ~Compatible(r, Last(1).type), CastFault(Last(1).llvm, Lower(r)))

\* The program ends, or a pass has been left.
ExprStopped == outcome # Fine /\ UNCHANGED exprVars

FieldType == ValueType \cup {Unknown}
TypeName == {Plain(t) : t \in Element} \cup {Void, Unknown}

ExprNext ==
    \/ Literal
    \/ \E s \in Symbol \cup {NoSymbol} :
         VarDes(s) \/ ArrDes(s) \/ \E f \in FieldType : FieldDes(s, f)
    \/ EnterUnchecked
    \/ Deref
    \/ \E t \in TypeName : New(t) \/ NewArr(t)
    \/ Arithmetic
    \/ Negate
    \/ \E n \in 0..(MaxOperands - 1) : CallExpr(n) \/ CallStatement(n)
    \/ Assign
    \/ Compare
    \/ Increment
    \/ PrintExpr
    \/ ReadDes
    \/ \E t \in Element \cup {"void"} : ReturnExpr(Plain(t))
    \/ ExprStopped

ExprSpec == ExprInit /\ [][ExprNext]_exprVars

-----------------------------------------------------------------------------
ExprTypeOK ==
    /\ \A i \in 1..Len(operands) :
         /\ operands[i].des \in {"designator", "expr", "mark"}
         /\ operands[i].type \in NodeType
    /\ Len(operands) <= MaxOperands
    /\ dirty \in BOOLEAN
    /\ unchecked \in BOOLEAN
    /\ outcome \in {"running", "rejected", "undefined", "undeclared", "no value",
                    "function value", "void value", "aggregate", "integer cast", "arguments"}

\* As long as nothing was reported, the value the generator has for a node is
\* of the LLVM type of the type the semantic pass gave it, or its address:
\* both passes agree on every expression, however it is nested.
ValuesHaveTheirType ==
    outcome = Fine /\ ~dirty =>
        \A i \in 1..Len(operands) :
            LET o == operands[i]
            IN  ~Skipping(SubSeq(operands, 1, i)) =>
                  o.llvm = IF o.type.kind = "method"    THEN <<"function", o.type.of>>
                           ELSE IF o.des = "designator" THEN Pointer(Lower(o.type))
                           ELSE Lower(o.type)

\* In a program that is accepted and was checked entirely, no bit pattern of
\* an int or a char is taken for anything else: cast, which inserts a bitcast
\* wherever two types differ, never has to cast a number.
NumbersAreNotCast == ~dirty /\ ~unchecked => outcome # "integer cast"

\* ... and the generator finds a value for every name, field and type it
\* looks up, and as many arguments as parameters.
LookupsSucceed == ~dirty /\ ~unchecked => outcome \notin {"undeclared", "no value", "arguments"}

\* implementation.tex:87: all names are declared before they are used.  The
\* names in an index or a size are not looked up by the semantic pass, and the
\* generator uses the value of one that is not declared.
NamesAreDeclared == ~dirty => outcome # "undeclared"
=============================================================================
