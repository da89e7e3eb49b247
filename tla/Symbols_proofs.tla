--------------------------- MODULE Symbols_proofs ---------------------------
(***************************************************************************)
(* The lists of types that the symbol table leaves to the code generator,  *)
(* for programs with any identifiers and any number of declarations.       *)
(***************************************************************************)
EXTENDS Binding, SequenceTheorems, TLAPS

-----------------------------------------------------------------------------
(* The inductive invariant.                                                *)

Entry == [kind : Kinds, type : TypeSet \cup {NoType}]
ClassRecord == [name : Name, fields : Seq(TypeSet)]
MethodRecord == [name : Name \cup {""}, ret : TypeSet, args : Seq(TypeSet)]

Arrays == Elements(arrayTypes)
ClassNames == {classes[i].name : i \in 1..Len(classes)}

\* A name that is a type names the type of that name, which is no array, and
\* belongs to the program only if it is a class of the program; an array type
\* is one of those listed.
GoodEntry(e, n, arrays, names) ==
    /\ IsType(e) => /\ e.type \in TypeSet /\ e.type.name = n /\ ~e.type.array
                    /\ e.type.home = "program" => n \in names
    /\ e.type.array => e.type \in arrays
GoodTypes(ts, arrays) == \A t \in Elements(ts) : t.array => t \in arrays

\* Which scopes are open, and whose declaration is at the end of its list.
WhereOK ==
    /\ scopes \in {<<"global">>, <<"global", "program">>}
                  \cup {<<"global", "program", s>> : s \in {"class", "args", "method"}}
    /\ section \in {"start", "const", "class", "var", "method", "end"}
    /\ section = "start" => scopes = <<"global">>
    /\ CurrentScope = "class" => classes # << >>
    /\ CurrentScope = "args" => methods # << >> /\ methods[Len(methods)].name = ""

FlagsOK == dirty \in BOOLEAN /\ failed \in BOOLEAN /\ decls \in 0..MaxDecls

TableOK ==
    /\ table \in [ScopeName -> [Name -> Entry]]
    /\ \A s \in ScopeName : \A n \in Name :
         GoodEntry(table[s][n], n, Arrays, ClassNames)

ClassesOK ==
    /\ classes \in Seq(ClassRecord)
    /\ \A i \in 1..Len(classes) : GoodTypes(classes[i].fields, Arrays)

MethodsOK ==
    /\ methods \in Seq(MethodRecord)
    /\ \A i \in 1..Len(methods) :
         ~methods[i].ret.array /\ GoodTypes(methods[i].args, Arrays)

\* The list of array types itself.
ListOK ==
    /\ arrayTypes \in Seq(TypeSet)
    /\ \A i, j \in 1..Len(arrayTypes) :
         arrayTypes[i].name = arrayTypes[j].name => i = j
    /\ \A a \in Arrays : a.home = "program" => a.name \in ClassNames

\* The list of signatures.
Signatures == {Signature(args, ret) : args \in Seq(TypeSet), ret \in TypeSet}
PrototypesOK == prototypes \in Seq(Signatures) /\ MethodTypesListed

SymInv ==
    /\ WhereOK /\ FlagsOK
    /\ TableOK /\ ClassesOK /\ MethodsOK /\ ListOK
    /\ PrototypesOK

-----------------------------------------------------------------------------
(* Lists.                                                                  *)

LEMMA AppendFacts ==
    ASSUME NEW S, NEW s \in Seq(S), NEW e \in S
    PROVE  /\ Append(s, e) \in Seq(S) /\ Len(s) \in Nat
           /\ Len(Append(s, e)) = Len(s) + 1
           /\ Append(s, e)[Len(s) + 1] = e
           /\ \A i \in 1..Len(s) : Append(s, e)[i] = s[i]
           /\ Elements(Append(s, e)) = Elements(s) \cup {e}
<1> DEFINE t == Append(s, e)
<1>1. /\ t \in Seq(S) /\ Len(s) \in Nat /\ Len(t) = Len(s) + 1
      /\ t[Len(s) + 1] = e /\ \A i \in 1..Len(s) : t[i] = s[i]
  OBVIOUS
<1> HIDE DEF t
<1>2. ASSUME NEW x \in Elements(t) PROVE x \in Elements(s) \cup {e}
  <2>1. PICK i \in 1..Len(t) : x = t[i]
    BY <1>2 DEF Elements
  <2>2. CASE i = Len(s) + 1
    BY <1>1, <2>1, <2>2
  <2>3. CASE i # Len(s) + 1
    <3>1. i \in 1..Len(s)
      BY <1>1, <2>3
    <3>2. QED
      BY <1>1, <2>1, <3>1 DEF Elements
  <2>4. QED
    BY <2>2, <2>3
<1>3. ASSUME NEW x \in Elements(s) \cup {e} PROVE x \in Elements(t)
  <2>1. CASE x = e
    <3>1. Len(s) + 1 \in 1..Len(t)
      BY <1>1
    <3>2. QED
      BY <1>1, <2>1, <3>1 DEF Elements
  <2>2. CASE x \in Elements(s)
    <3>1. PICK i \in 1..Len(s) : x = s[i]
      BY <2>2 DEF Elements
    <3>2. i \in 1..Len(t) /\ x = t[i]
      BY <1>1, <3>1
    <3>3. QED
      BY <3>2 DEF Elements
  <2>3. QED
    BY <1>3, <2>1, <2>2
<1>4. QED
  BY <1>1, <1>2, <1>3 DEF t

\* The last element of a list is exchanged.
LEMMA LastChanged ==
    ASSUME NEW S, NEW s \in Seq(S), s # << >>, NEW e \in S
    PROVE  /\ Len(s) \in Nat \ {0} /\ s[Len(s)] \in S
           /\ [s EXCEPT ![Len(s)] = e] \in Seq(S)
           /\ Len([s EXCEPT ![Len(s)] = e]) = Len(s)
           /\ \A i \in 1..Len(s) :
                [s EXCEPT ![Len(s)] = e][i] = IF i = Len(s) THEN e ELSE s[i]
<1>1. Len(s) \in Nat \ {0}
  BY EmptySeq
<1>2. Len(s) \in 1..Len(s)
  BY <1>1
<1>3. QED
  BY <1>1, <1>2, ExceptSeq, ElementOfSeq

\* An empty list has no elements.
LEMMA NoElements == Elements(<< >>) = {} /\ Len(<< >>) = 0
<1>1. Len(<< >>) = 0
  BY EmptySeq
<1>2. QED
  BY <1>1 DEF Elements

\* Two and three scopes, one after the other.
LEMMA AppendSecond ==
    ASSUME NEW S, NEW x \in S, NEW y \in S
    PROVE  Append(<<x>>, y) = <<x, y>>
<1> DEFINE s == Append(<<x>>, y)
<1> DEFINE t == <<x, y>>
<1>1. t \in Seq(S) /\ Len(t) = 2 /\ t[1] = x /\ t[2] = y
  OBVIOUS
<1>2. s \in Seq(S) /\ Len(s) = 2 /\ s[1] = x /\ s[2] = y
  OBVIOUS
<1>3. \A i \in 1..2 : i = 1 \/ i = 2
  OBVIOUS
<1> HIDE DEF s, t
<1>4. \A i \in 1..Len(s) : s[i] = t[i]
  BY <1>1, <1>2, <1>3
<1>5. s = t
  BY <1>1, <1>2, <1>4, SeqEqual
<1>6. QED
  BY <1>5 DEF s, t

LEMMA AppendThird ==
    ASSUME NEW S, NEW x \in S, NEW y \in S, NEW z \in S
    PROVE  Append(<<x, y>>, z) = <<x, y, z>>
<1> DEFINE s == Append(<<x, y>>, z)
<1> DEFINE t == <<x, y, z>>
<1>1. t \in Seq(S) /\ Len(t) = 3 /\ t[1] = x /\ t[2] = y /\ t[3] = z
  OBVIOUS
<1>2. s \in Seq(S) /\ Len(s) = 3 /\ s[1] = x /\ s[2] = y /\ s[3] = z
  OBVIOUS
<1>3. \A i \in 1..3 : i = 1 \/ i = 2 \/ i = 3
  OBVIOUS
<1> HIDE DEF s, t
<1>4. \A i \in 1..Len(s) : s[i] = t[i]
  BY <1>1, <1>2, <1>3
<1>5. s = t
  BY <1>1, <1>2, <1>4, SeqEqual
<1>6. QED
  BY <1>5 DEF s, t

\* A scope is opened.
LEMMA OneMore ==
    /\ Append(<<"global">>, "program") = <<"global", "program">>
    /\ \A x \in {"class", "args"} :
         Append(<<"global", "program">>, x) = <<"global", "program", x>>
<1>1. Append(<<"global">>, "program") = <<"global", "program">>
  <2>1. "global" \in ScopeName /\ "program" \in ScopeName
    BY DEF ScopeName
  <2>2. QED
    BY <2>1, AppendSecond
<1>2. ASSUME NEW x \in {"class", "args"}
      PROVE  Append(<<"global", "program">>, x) = <<"global", "program", x>>
  <2>1. "global" \in ScopeName /\ "program" \in ScopeName /\ x \in ScopeName
    BY DEF ScopeName
  <2>2. QED
    BY <2>1, AppendThird
<1>3. QED
  BY <1>1, <1>2

-----------------------------------------------------------------------------
(* Names.                                                                  *)

LEMMA ScopeForms ==
    ASSUME WhereOK
    PROVE  /\ CurrentScope \in ScopeName
           /\ CurrentScope = "program" => scopes = <<"global", "program">>
           /\ Len(Chain) \in 1..4
           /\ \A i \in 1..Len(Chain) : Chain[i] \in ScopeName
<1>1. CASE scopes = <<"global">>
  <2>1. CurrentScope = "global"
    BY <1>1 DEF CurrentScope
  <2>2. Chain = <<"global">>
    BY <2>1 DEF Chain
  <2>3. QED
    BY <2>1, <2>2 DEF ScopeName
<1>2. CASE scopes = <<"global", "program">>
  <2>1. CurrentScope = "program"
    BY <1>2 DEF CurrentScope
  <2>2. Chain = <<"program", "global">>
    BY <2>1 DEF Chain
  <2>3. QED
    BY <1>2, <2>1, <2>2 DEF ScopeName
<1>3. CASE scopes = <<"global", "program", "class">>
  <2>1. CurrentScope = "class"
    BY <1>3 DEF CurrentScope
  <2>2. Chain = <<"class", "program", "global">>
    BY <2>1 DEF Chain
  <2>3. QED
    BY <2>1, <2>2 DEF ScopeName
<1>4. CASE scopes = <<"global", "program", "args">>
  <2>1. CurrentScope = "args"
    BY <1>4 DEF CurrentScope
  <2>2. Chain = <<"args", "program", "global">>
    BY <2>1 DEF Chain
  <2>3. QED
    BY <2>1, <2>2 DEF ScopeName
<1>5. CASE scopes = <<"global", "program", "method">>
  <2>1. CurrentScope = "method"
    BY <1>5 DEF CurrentScope
  <2>2. Chain = <<"method", "args", "program", "global">>
    BY <2>1 DEF Chain
  <2>3. QED
    BY <2>1, <2>2 DEF ScopeName
<1>6. QED
  BY <1>1, <1>2, <1>3, <1>4, <1>5 DEF WhereOK

\* A small set of positions has a first one.
LEMMA FirstOf ==
    ASSUME NEW H \in SUBSET (1..4), H # {}
    PROVE  \E i \in H : \A j \in H : i <= j
<1>1. CASE 1 \in H
  BY <1>1
<1>2. CASE 1 \notin H /\ 2 \in H
  <2>1. \A j \in H : 2 <= j
    BY <1>2
  <2>2. QED
    BY <1>2, <2>1
<1>3. CASE 1 \notin H /\ 2 \notin H /\ 3 \in H
  <2>1. \A j \in H : 3 <= j
    BY <1>3
  <2>2. QED
    BY <1>3, <2>1
<1>4. CASE 1 \notin H /\ 2 \notin H /\ 3 \notin H
  <2>1. \A j \in H : j = 4
    BY <1>4
  <2>2. PICK i \in H : TRUE
    OBVIOUS
  <2>3. \A j \in H : i <= j
    BY <2>1, <2>2
  <2>4. QED
    BY <2>2, <2>3
<1>5. QED
  BY <1>1, <1>2, <1>3, <1>4

\* What a name resolves to is in one of the tables, or nothing.
LEMMA ResolveFacts ==
    ASSUME WhereOK, NEW n \in Name
    PROVE  Resolve(n) = None \/ \E s \in ScopeName : Resolve(n) = table[s][n]
<1>1. Len(Chain) \in 1..4
  BY ScopeForms
<1>2. \A i \in 1..Len(Chain) : Chain[i] \in ScopeName
  BY ScopeForms
<1> DEFINE hits == {i \in 1..Len(Chain) : table[Chain[i]][n].kind # "none"}
<1>3. CASE CurrentScope = "class" /\ n = classes[Len(classes)].name
  <2>1. Home(n) = "program"
    BY <1>3 DEF Home
  <2>2. QED
    BY <2>1 DEF Resolve, ScopeName
<1>4. CASE ~(CurrentScope = "class" /\ n = classes[Len(classes)].name) /\ hits = {}
  <2>1. Home(n) = "none"
    BY <1>4 DEF Home
  <2>2. QED
    BY <2>1 DEF Resolve
<1>5. CASE ~(CurrentScope = "class" /\ n = classes[Len(classes)].name) /\ hits # {}
  <2>1. Home(n) = Chain[CHOOSE i \in hits : \A j \in hits : i <= j]
    BY <1>5 DEF Home
  <2>2. hits \in SUBSET (1..4)
    BY <1>1
  <2>3. hits \in SUBSET (1..Len(Chain))
    OBVIOUS
  <2>4. (CHOOSE i \in hits : \A j \in hits : i <= j) \in hits
    <3> HIDE DEF hits
    <3>1. \E i \in hits : \A j \in hits : i <= j
      BY <1>5, <2>2, FirstOf
    <3>2. QED
      BY <3>1
  <2>5. Home(n) \in ScopeName
    <3> HIDE DEF hits
    <3>1. QED
      BY <1>2, <2>1, <2>3, <2>4
  <2>6. Home(n) # "none"
    BY <2>5 DEF ScopeName
  <2>7. QED
    BY <2>5, <2>6 DEF Resolve
<1>6. QED
  BY <1>3, <1>4, <1>5

\* A name that resolves to a type has the type of that name.
LEMMA TypeFacts ==
    ASSUME WhereOK, TableOK, NEW n \in Name, ResolvesToType(n)
    PROVE  /\ Resolve(n).type \in TypeSet /\ Resolve(n).type.name = n
           /\ ~Resolve(n).type.array
           /\ Resolve(n).type.home = "program" => n \in ClassNames
<1>1. IsType(Resolve(n))
  BY DEF ResolvesToType
<1>2. Resolve(n) # None
  BY <1>1 DEF IsType, None
<1>3. PICK s \in ScopeName : Resolve(n) = table[s][n]
  BY <1>2, ResolveFacts
<1>4. GoodEntry(table[s][n], n, Arrays, ClassNames)
  BY <1>3 DEF TableOK
<1>5. QED
  BY <1>1, <1>3, <1>4 DEF GoodEntry

-----------------------------------------------------------------------------
(* What holds of an entry or a list of types still holds when more array   *)
(* types are listed and more classes declared.                             *)

LEMMA TableGrows ==
    ASSUME TableOK, Arrays \subseteq Arrays', ClassNames \subseteq ClassNames',
           table' \in [ScopeName -> [Name -> Entry]],
           \A s \in ScopeName : \A n \in Name :
             \/ table'[s][n] = table[s][n]
             \/ GoodEntry(table'[s][n], n, Arrays', ClassNames')
    PROVE  TableOK'
<1>1. ASSUME NEW s \in ScopeName, NEW n \in Name
      PROVE  GoodEntry(table'[s][n], n, Arrays', ClassNames')
  <2>1. GoodEntry(table[s][n], n, Arrays, ClassNames)
    BY DEF TableOK
  <2>2. GoodEntry(table[s][n], n, Arrays', ClassNames')
    BY <2>1 DEF GoodEntry
  <2>3. QED
    BY <2>2
<1>2. QED
  BY <1>1 DEF TableOK

LEMMA RecordsGrow ==
    ASSUME ClassesOK, MethodsOK, Arrays \subseteq Arrays'
    PROVE  /\ UNCHANGED classes => ClassesOK'
           /\ UNCHANGED methods => MethodsOK'
<1>1. ASSUME NEW ts, GoodTypes(ts, Arrays) PROVE GoodTypes(ts, Arrays')
  BY <1>1 DEF GoodTypes
<1>2. QED
  BY <1>1 DEF ClassesOK, MethodsOK

LEMMA TypesAppended ==
    ASSUME NEW A, NEW B, A \subseteq B, NEW ts \in Seq(TypeSet), GoodTypes(ts, A),
           NEW t \in TypeSet, t.array => t \in B
    PROVE  Append(ts, t) \in Seq(TypeSet) /\ GoodTypes(Append(ts, t), B)
<1>1. Append(ts, t) \in Seq(TypeSet) /\ Elements(Append(ts, t)) = Elements(ts) \cup {t}
  BY AppendFacts
<1>2. QED
  BY <1>1 DEF GoodTypes

-----------------------------------------------------------------------------
(* The operations, one at a time.                                          *)

LEMMA SymInvInit == ASSUME NameAssumption PROVE SymInit => SymInv
<1> SUFFICES ASSUME SymInit PROVE SymInv
  OBVIOUS
<1> USE DEF SymInit
<1>1. Len(<< >>) = 0 /\ Elements(<< >>) = {}
  BY NoElements
<1>2. WhereOK
  <2>1. CurrentScope = "global"
    BY DEF CurrentScope
  <2>2. QED
    BY <2>1 DEF WhereOK
<1>3. TableOK
  <2>1. ASSUME NEW n \in Name PROVE GlobalTable[n] \in Entry
    BY DEF GlobalTable, Entry, Kinds, TypeSet, Base, Primitives, BuiltinMethods,
           BuiltinConstants, None
  <2>2. ASSUME NEW n \in Name PROVE GoodEntry(GlobalTable[n], n, Arrays, ClassNames)
    BY DEF GlobalTable, GoodEntry, IsType, TypeSet, Base, NoType, Primitives,
           BuiltinMethods, BuiltinConstants, None
  <2>3. None \in Entry
    BY DEF None, Entry, Kinds
  <2>4. ASSUME NEW n \in Name PROVE GoodEntry(None, n, Arrays, ClassNames)
    BY DEF None, GoodEntry, IsType, NoType
  <2>5. ASSUME NEW s \in ScopeName, NEW n \in Name
        PROVE  table[s][n] = GlobalTable[n] \/ table[s][n] = None
    BY DEF EmptyTable
  <2>6. table \in [ScopeName -> [Name -> Entry]]
    BY <2>1, <2>3 DEF EmptyTable, GlobalTable
  <2>7. QED
    BY <2>2, <2>4, <2>5, <2>6 DEF TableOK
<1>4. ClassesOK /\ MethodsOK /\ ListOK
  BY <1>1 DEF ClassesOK, MethodsOK, ListOK, Arrays
<1>5. PrototypesOK
  BY <1>1 DEF PrototypesOK, MethodTypesListed
<1>6. FlagsOK
  <2>1. decls \in 0..MaxDecls
    BY NameAssumption
  <2>2. dirty \in BOOLEAN /\ failed \in BOOLEAN
    BY Zenon
  <2>3. QED
    BY <2>1, <2>2 DEF FlagsOK
<1>7. QED
  BY <1>2, <1>3, <1>4, <1>5, <1>6 DEF SymInv

\* What Define leaves in the tables, if the new entry is in order.
LEMMA DefineKeeps ==
    ASSUME TableOK, failed \in BOOLEAN, Arrays \subseteq Arrays',
           ClassNames \subseteq ClassNames',
           NEW s \in ScopeName, NEW n \in Name, NEW e \in Entry,
           GoodEntry(e, n, Arrays', ClassNames'), Define(s, n, e)
    PROVE  TableOK' /\ failed' \in BOOLEAN
<1>1. failed' \in BOOLEAN
  BY DEF Define
<1>2. /\ table' \in [ScopeName -> [Name -> Entry]]
      /\ \A r \in ScopeName : \A m \in Name :
           table'[r][m] = table[r][m] \/ (m = n /\ table'[r][m] = e)
  <2>1. CASE UNCHANGED table
    BY <2>1 DEF TableOK
  <2>2. CASE table' = [table EXCEPT ![s][n] = e]
    BY <2>2 DEF TableOK
  <2>3. QED
    BY <2>1, <2>2 DEF Define
<1>3. \A r \in ScopeName : \A m \in Name :
        \/ table'[r][m] = table[r][m]
        \/ GoodEntry(table'[r][m], m, Arrays', ClassNames')
  BY <1>2
<1>4. QED
  BY <1>1, <1>2, <1>3, TableGrows

\* The bound on declarations; dirty is raised or left alone.
LEMMA DeclaredOnce ==
    ASSUME FlagsOK, Declared(1), failed' \in BOOLEAN, dirty' \in {dirty, TRUE},
           NameAssumption
    PROVE  FlagsOK'
<1>1. decls' \in 0..MaxDecls
  BY NameAssumption DEF FlagsOK, Declared
<1>2. dirty' \in BOOLEAN
  BY DEF FlagsOK
<1>3. QED
  BY <1>1, <1>2 DEF FlagsOK

LEMMA EnterProgramKeeps ==
    ASSUME SymInv, NEW n \in Name, EnterProgram(n), NameAssumption
    PROVE  SymInv'
<1> USE DEF EnterProgram
<1>1. UNCHANGED <<Arrays, ClassNames, classes, methods>>
  BY DEF Arrays, ClassNames
<1>2. TableOK' /\ failed' \in BOOLEAN
  <2> DEFINE e == [kind |-> "program", type |-> NoType]
  <2>1. e \in Entry /\ GoodEntry(e, n, Arrays', ClassNames')
    BY DEF Entry, Kinds, GoodEntry, IsType, NoType
  <2>2. "global" \in ScopeName
    BY DEF ScopeName
  <2>3. QED
    BY <1>1, <2>1, <2>2, DefineKeeps DEF SymInv, FlagsOK
<1>3. WhereOK'
  <2>1. scopes' = <<"global", "program">>
    <3>1. scopes = <<"global">>
      BY DEF SymInv, WhereOK
    <3>2. scopes' = Append(scopes, "program")
      OBVIOUS
    <3>3. QED
      BY <3>1, <3>2, OneMore
  <2>2. CurrentScope' = "program"
    BY <2>1 DEF CurrentScope
  <2>3. QED
    BY <2>1, <2>2 DEF WhereOK
<1>4. ClassesOK' /\ MethodsOK'
  BY <1>1, RecordsGrow DEF SymInv
<1>5. ListOK'
  BY <1>1 DEF SymInv, ListOK
<1>6. PrototypesOK'
  BY DEF SymInv, PrototypesOK, MethodTypesListed
<1>7. FlagsOK'
  BY <1>2, DeclaredOnce DEF SymInv
<1>8. QED
  BY <1>2, <1>3, <1>4, <1>5, <1>6, <1>7 DEF SymInv

\* What is declared in a scope that stays open leaves the place as it was.
LEMMA WhereKeeps ==
    ASSUME WhereOK, UNCHANGED scopes, section' \in {section, "class", "var", "method"},
           section # "start",
           CurrentScope = "class" => classes' # << >>,
           CurrentScope = "args" => methods' # << >> /\ methods'[Len(methods')].name = ""
    PROVE  WhereOK'
<1>1. CurrentScope' = CurrentScope
  BY DEF CurrentScope
<1>2. QED
  BY <1>1 DEF WhereOK

\* The tables and lists are not touched.
LEMMA ListsUntouched ==
    ASSUME SymInv, UNCHANGED <<table, classes, methods, arrayTypes, prototypes>>
    PROVE  TableOK' /\ ClassesOK' /\ MethodsOK' /\ ListOK' /\ PrototypesOK'
<1>1. UNCHANGED <<Arrays, ClassNames>>
  BY DEF Arrays, ClassNames
<1>2. QED
  BY <1>1 DEF SymInv, TableOK, ClassesOK, MethodsOK, ListOK, PrototypesOK, MethodTypesListed

\* In the scope of a program or a declaration the program has begun.
LEMMA Begun ==
    ASSUME WhereOK, CurrentScope # "global"
    PROVE  section # "start"
<1>1. scopes = <<"global">> => CurrentScope = "global"
  BY DEF CurrentScope
<1>2. QED
  BY <1>1 DEF WhereOK

LEMMA UnresolvedKeeps ==
    ASSUME SymInv, NameAssumption, Unresolved, Declared(1), section # "start",
           section' \in {section, "class", "var", "method"}
    PROVE  SymInv'
<1> USE DEF Unresolved
<1>1. WhereOK'
  <2>1. CurrentScope = "class" => classes' # << >>
    BY DEF SymInv, WhereOK
  <2>2. CurrentScope = "args" => methods' # << >> /\ methods'[Len(methods')].name = ""
    BY DEF SymInv, WhereOK
  <2>3. QED
    BY <2>1, <2>2, WhereKeeps DEF SymInv
<1>2. FlagsOK'
  <2>1. failed' \in BOOLEAN
    BY DEF SymInv, FlagsOK
  <2>2. QED
    BY <2>1, DeclaredOnce DEF SymInv
<1>3. TableOK' /\ ClassesOK' /\ MethodsOK' /\ ListOK' /\ PrototypesOK'
  BY ListsUntouched
<1>4. QED
  BY <1>1, <1>2, <1>3 DEF SymInv

LEMMA ConstDeclKeeps ==
    ASSUME SymInv, NameAssumption, NEW t \in Name, NEW n \in Name, ConstDecl(t, n)
    PROVE  SymInv'
<1>1. CASE ~ResolvesToType(t)
  BY <1>1, UnresolvedKeeps DEF ConstDecl
<1>2. CASE ResolvesToType(t)
  <2> DEFINE e == [kind |-> "const", type |-> Resolve(t).type]
  <2>1. Define("program", n, e)
    BY <1>2 DEF ConstDecl
  <2>2. UNCHANGED <<scopes, section, classes, methods, arrayTypes, prototypes, dirty>>
    BY <1>2 DEF ConstDecl
  <2>3. section # "start" /\ Declared(1)
    BY DEF ConstDecl
  <2>4. UNCHANGED <<Arrays, ClassNames>>
    BY <2>2 DEF Arrays, ClassNames
  <2>5. Resolve(t).type \in TypeSet /\ ~Resolve(t).type.array
    BY <1>2, TypeFacts DEF SymInv
  <2>6. e \in Entry /\ GoodEntry(e, n, Arrays', ClassNames')
    BY <2>5 DEF Entry, Kinds, GoodEntry, IsType
  <2>7. "program" \in ScopeName
    BY DEF ScopeName
  <2>8. TableOK' /\ failed' \in BOOLEAN
    <3> HIDE DEF e
    <3>1. QED
      BY <2>1, <2>4, <2>6, <2>7, DefineKeeps DEF SymInv, FlagsOK
  <2>9. WhereOK'
    <3>1. CurrentScope = "class" => classes' # << >>
      BY <2>2 DEF SymInv, WhereOK
    <3>2. CurrentScope = "args" => methods' # << >> /\ methods'[Len(methods')].name = ""
      BY <2>2 DEF SymInv, WhereOK
    <3>3. QED
      BY <2>2, <2>3, <3>1, <3>2, WhereKeeps DEF SymInv
  <2>10. FlagsOK'
    BY <2>2, <2>3, <2>8, DeclaredOnce DEF SymInv
  <2>11. ClassesOK' /\ MethodsOK'
    BY <2>2, <2>4, RecordsGrow DEF SymInv
  <2>12. ListOK' /\ PrototypesOK'
    BY <2>2, <2>4 DEF SymInv, ListOK, PrototypesOK, MethodTypesListed
  <2>13. QED
    BY <2>8, <2>9, <2>10, <2>11, <2>12 DEF SymInv
<1>3. QED
  BY <1>1, <1>2

LEMMA EnterClassKeeps ==
    ASSUME SymInv, NameAssumption, NEW n \in Name, EnterClass(n)
    PROVE  SymInv'
<1>1. section # "start" /\ section' = "class" /\ Declared(1) /\ CurrentScope = "program"
  BY DEF EnterClass
<1>2. UNCHANGED <<methods, arrayTypes, prototypes, dirty>>
  BY DEF EnterClass
<1>3. UNCHANGED Arrays
  BY <1>2 DEF Arrays
<1>4. CASE UNCHANGED <<scopes, table, classes>> /\ failed' = TRUE
  <2>1. WhereOK'
    BY <1>1, <1>4, WhereKeeps DEF SymInv
  <2>2. FlagsOK'
    BY <1>1, <1>2, <1>4, DeclaredOnce DEF SymInv
  <2>3. QED
    BY <1>2, <1>4, <2>1, <2>2, ListsUntouched DEF SymInv
<1>5. CASE table["program"][n].kind = "none"
  <2> DEFINE e == [kind |-> "class", type |-> Base(n, "program")]
  <2> DEFINE c == [name |-> n, fields |-> << >>]
  <2>1. /\ table' = [table EXCEPT !["program"][n] = e, !["class"] = EmptyTable]
        /\ classes' = Append(classes, c)
        /\ scopes' = Append(scopes, "class")
        /\ UNCHANGED failed
    BY <1>5 DEF EnterClass
  <2>2. scopes' = <<"global", "program", "class">> /\ CurrentScope' = "class"
    <3>1. scopes = <<"global", "program">>
      BY <1>1, ScopeForms DEF SymInv
    <3>2. scopes' = <<"global", "program", "class">>
      BY <2>1, <3>1, OneMore
    <3>3. QED
      BY <3>2 DEF CurrentScope
  <2>3. /\ c \in ClassRecord /\ c.name = n
        /\ Elements(c.fields) = {}
    BY NoElements DEF ClassRecord
  <2>4. /\ classes' \in Seq(ClassRecord) /\ Len(classes) \in Nat
        /\ Len(classes') = Len(classes) + 1
        /\ classes'[Len(classes) + 1] = c
        /\ \A j \in 1..Len(classes) : classes'[j] = classes[j]
    <3> HIDE DEF c
    <3>1. QED
      BY <2>1, <2>3, AppendFacts DEF SymInv, ClassesOK
  <2>5. n \in ClassNames' /\ ClassNames \subseteq ClassNames'
    <3>1. \A j \in 1..Len(classes) : j \in 1..Len(classes')
      BY <2>4
    <3>2. Len(classes) + 1 \in 1..Len(classes')
      BY <2>4
    <3> HIDE DEF c
    <3>3. QED
      BY <2>3, <2>4, <3>1, <3>2 DEF ClassNames
  <2>6. WhereOK'
    <3>1. Len(classes') # 0
      BY <2>4
    <3>2. classes' # << >>
      BY <3>1, NoElements
    <3>3. QED
      BY <1>1, <2>2, <3>2 DEF WhereOK
  <2>7. FlagsOK'
    <3>1. failed' \in BOOLEAN
      BY <2>1 DEF SymInv, FlagsOK
    <3>2. QED
      BY <1>1, <1>2, <3>1, DeclaredOnce DEF SymInv
  <2>8. TableOK'
    <3>1. e \in Entry /\ GoodEntry(e, n, Arrays', ClassNames')
      BY <2>5 DEF Entry, Kinds, TypeSet, GoodEntry, IsType, Base
    <3>2. \A m \in Name : EmptyTable[m] = None
      BY DEF EmptyTable
    <3>3. None \in Entry /\ \A m \in Name : GoodEntry(None, m, Arrays', ClassNames')
      BY DEF None, Entry, Kinds, GoodEntry, IsType, NoType
    <3>4. EmptyTable \in [Name -> Entry]
      BY <3>3 DEF EmptyTable
    <3> HIDE DEF e
    <3>5. table' \in [ScopeName -> [Name -> Entry]]
      BY <2>1, <3>1, <3>4 DEF SymInv, TableOK
    <3>6. ASSUME NEW s \in ScopeName, NEW m \in Name
          PROVE  \/ table'[s][m] = table[s][m]
                 \/ m = n /\ table'[s][m] = e
                 \/ table'[s][m] = EmptyTable[m]
      BY <2>1 DEF SymInv, TableOK, ScopeName
    <3>7. \A s \in ScopeName : \A m \in Name :
            \/ table'[s][m] = table[s][m]
            \/ GoodEntry(table'[s][m], m, Arrays', ClassNames')
      BY <3>1, <3>2, <3>3, <3>6
    <3>8. QED
      BY <1>3, <2>5, <3>5, <3>7, TableGrows DEF SymInv
  <2>9. ClassesOK'
    <3>1. GoodTypes(c.fields, Arrays)
      BY <2>3 DEF GoodTypes
    <3> HIDE DEF c
    <3>2. ASSUME NEW j \in 1..Len(classes')
          PROVE  GoodTypes(classes'[j].fields, Arrays)
      <4>1. CASE j = Len(classes) + 1
        BY <2>4, <3>1, <4>1
      <4>2. CASE j # Len(classes) + 1
        <5>1. j \in 1..Len(classes)
          BY <2>4, <4>2
        <5>2. QED
          BY <2>4, <5>1 DEF SymInv, ClassesOK
      <4>3. QED
        BY <4>1, <4>2
    <3>3. QED
      BY <1>3, <2>4, <3>2 DEF ClassesOK
  <2>10. MethodsOK'
    BY <1>2, <1>3, RecordsGrow DEF SymInv
  <2>11. ListOK'
    BY <1>2, <1>3, <2>5 DEF SymInv, ListOK
  <2>12. PrototypesOK'
    BY <1>2 DEF SymInv, PrototypesOK, MethodTypesListed
  <2>13. QED
    BY <2>6, <2>7, <2>8, <2>9, <2>10, <2>11, <2>12 DEF SymInv
<1>6. QED
  BY <1>4, <1>5 DEF EnterClass

LEMMA LeaveKeeps ==
    ASSUME SymInv, LeaveClass \/ LeaveMethod
    PROVE  SymInv'
<1>1. /\ scopes' = <<"global", "program">> /\ CurrentScope # "global"
      /\ UNCHANGED <<table, section, classes, methods, arrayTypes, prototypes,
                     dirty, failed, decls>>
  BY DEF LeaveClass, LeaveMethod
<1>2. CurrentScope' = "program"
  BY <1>1 DEF CurrentScope
<1>3. section # "start"
  BY <1>1, Begun DEF SymInv
<1>4. WhereOK'
  BY <1>1, <1>2, <1>3 DEF SymInv, WhereOK
<1>5. FlagsOK'
  BY <1>1 DEF SymInv, FlagsOK
<1>6. QED
  BY <1>1, <1>4, <1>5, ListsUntouched DEF SymInv

LEMMA LeaveProgramKeeps ==
    ASSUME SymInv, LeaveProgram
    PROVE  SymInv'
<1>1. /\ scopes' = <<"global">> /\ section' = "end" /\ dirty' = (dirty \/ BadMain)
      /\ UNCHANGED <<table, classes, methods, arrayTypes, prototypes, failed, decls>>
  BY DEF LeaveProgram
<1>2. CurrentScope' = "global"
  BY <1>1 DEF CurrentScope
<1>3. WhereOK'
  BY <1>1, <1>2 DEF WhereOK
<1>4. FlagsOK'
  <2>1. dirty' \in BOOLEAN
    BY <1>1
  <2>2. failed' \in BOOLEAN /\ decls' \in 0..MaxDecls
    BY <1>1 DEF SymInv, FlagsOK
  <2>3. QED
    BY <2>1, <2>2 DEF FlagsOK
<1>5. QED
  BY <1>1, <1>3, <1>4, ListsUntouched DEF SymInv

\* A field is added to the class that is being declared.
LEMMA FieldAdded ==
    ASSUME SymInv, Arrays \subseteq Arrays', CurrentScope = "class",
           NEW type \in TypeSet, type.array => type \in Arrays',
           classes' = [classes EXCEPT ![Len(classes)].fields = Append(@, type)]
    PROVE  ClassesOK' /\ ClassNames' = ClassNames /\ classes' # << >>
<1> DEFINE c == classes[Len(classes)]
<1> DEFINE d == [c EXCEPT !.fields = Append(c.fields, type)]
<1>1. classes \in Seq(ClassRecord) /\ classes # << >>
  BY DEF SymInv, WhereOK, ClassesOK
<1>2. Len(classes) \in 1..Len(classes) /\ c \in ClassRecord
  BY <1>1, LastChanged
<1>3. Append(c.fields, type) \in Seq(TypeSet) /\ GoodTypes(Append(c.fields, type), Arrays')
  <2>1. c.fields \in Seq(TypeSet) /\ GoodTypes(c.fields, Arrays)
    BY <1>2 DEF SymInv, ClassesOK, ClassRecord
  <2> HIDE DEF c
  <2>2. QED
    BY <2>1, TypesAppended
<1>4. d \in ClassRecord /\ d.name = c.name /\ GoodTypes(d.fields, Arrays')
  BY <1>2, <1>3 DEF ClassRecord
<1>5. classes' = [classes EXCEPT ![Len(classes)] = d]
  OBVIOUS
<1> HIDE DEF c, d
<1>6. /\ classes' \in Seq(ClassRecord) /\ Len(classes') = Len(classes)
      /\ \A j \in 1..Len(classes) :
           classes'[j] = IF j = Len(classes) THEN d ELSE classes[j]
  <2>1. d \in ClassRecord /\ classes \in Seq(ClassRecord) /\ Len(classes) \in 1..Len(classes)
    BY <1>1, <1>2, <1>4
  <2>2. /\ [classes EXCEPT ![Len(classes)] = d] \in Seq(ClassRecord)
        /\ Len([classes EXCEPT ![Len(classes)] = d]) = Len(classes)
        /\ \A j \in 1..Len(classes) :
             [classes EXCEPT ![Len(classes)] = d][j] = IF j = Len(classes) THEN d ELSE classes[j]
    BY <2>1, ExceptSeq
  <2>3. QED
    BY <1>5, <2>2
<1>7. \A j \in 1..Len(classes) :
        /\ classes'[j].name = classes[j].name
        /\ GoodTypes(classes'[j].fields, Arrays')
  <2>1. \A j \in 1..Len(classes) : GoodTypes(classes[j].fields, Arrays')
    BY DEF SymInv, ClassesOK, GoodTypes
  <2>2. QED
    BY <1>4, <1>6, <2>1 DEF c
<1>8. ClassesOK'
  BY <1>6, <1>7 DEF ClassesOK
<1>9. ClassNames' = ClassNames
  BY <1>6, <1>7 DEF ClassNames
<1>10. classes' # << >>
  <2>1. Len(classes') # 0
    BY <1>2, <1>6
  <2>2. QED
    BY <2>1, NoElements
<1>11. QED
  BY <1>8, <1>9, <1>10

\* An argument is added to the method that is being declared, which has no
\* name yet.
LEMMA ArgumentAdded ==
    ASSUME SymInv, Arrays \subseteq Arrays', CurrentScope = "args", UNCHANGED prototypes,
           NEW type \in TypeSet, type.array => type \in Arrays',
           methods' = [methods EXCEPT ![Len(methods)].args = Append(@, type)]
    PROVE  /\ MethodsOK' /\ PrototypesOK'
           /\ methods' # << >> /\ methods'[Len(methods')].name = ""
<1> DEFINE c == methods[Len(methods)]
<1> DEFINE d == [c EXCEPT !.args = Append(c.args, type)]
<1>1. methods \in Seq(MethodRecord) /\ methods # << >>
  BY DEF SymInv, WhereOK, MethodsOK
<1>2. Len(methods) \in 1..Len(methods) /\ c \in MethodRecord
  BY <1>1, LastChanged
<1>12. c.name = ""
  BY DEF SymInv, WhereOK
<1>3. Append(c.args, type) \in Seq(TypeSet) /\ GoodTypes(Append(c.args, type), Arrays')
  <2>1. c.args \in Seq(TypeSet) /\ GoodTypes(c.args, Arrays)
    BY <1>2 DEF SymInv, MethodsOK, MethodRecord
  <2> HIDE DEF c
  <2>2. QED
    BY <2>1, TypesAppended
<1>4. /\ d \in MethodRecord /\ d.name = "" /\ d.ret = c.ret
      /\ GoodTypes(d.args, Arrays')
  BY <1>2, <1>3, <1>12 DEF MethodRecord
<1>5. methods' = [methods EXCEPT ![Len(methods)] = d]
  OBVIOUS
<1> HIDE DEF c, d
<1>6. /\ methods' \in Seq(MethodRecord) /\ Len(methods') = Len(methods)
      /\ \A j \in 1..Len(methods) :
           methods'[j] = IF j = Len(methods) THEN d ELSE methods[j]
  <2>1. d \in MethodRecord /\ methods \in Seq(MethodRecord) /\ Len(methods) \in 1..Len(methods)
    BY <1>1, <1>2, <1>4
  <2>2. /\ [methods EXCEPT ![Len(methods)] = d] \in Seq(MethodRecord)
        /\ Len([methods EXCEPT ![Len(methods)] = d]) = Len(methods)
        /\ \A j \in 1..Len(methods) :
             [methods EXCEPT ![Len(methods)] = d][j] = IF j = Len(methods) THEN d ELSE methods[j]
    BY <2>1, ExceptSeq
  <2>3. QED
    BY <1>5, <2>2
<1>7. \A j \in 1..Len(methods) :
        ~methods'[j].ret.array /\ GoodTypes(methods'[j].args, Arrays')
  <2>1. \A j \in 1..Len(methods) :
          ~methods[j].ret.array /\ GoodTypes(methods[j].args, Arrays')
    BY DEF SymInv, MethodsOK, GoodTypes
  <2>2. QED
    BY <1>2, <1>4, <1>6, <2>1 DEF c
<1>8. MethodsOK'
  BY <1>6, <1>7 DEF MethodsOK
<1>9. PrototypesOK'
  <2>1. \A j \in 1..Len(methods) : methods'[j] = methods[j] \/ methods'[j].name = ""
    BY <1>4, <1>6
  <2>2. \A j \in 1..Len(methods') :
          methods'[j].name # "" =>
            Signature(methods'[j].args, methods'[j].ret)
              \in Elements(prototypes) \cup BuiltinSignatures
    BY <1>6, <2>1 DEF SymInv, PrototypesOK, MethodTypesListed
  <2>3. QED
    BY <2>2 DEF SymInv, PrototypesOK, MethodTypesListed
<1>10. methods' # << >>
  <2>1. Len(methods') # 0
    BY <1>2, <1>6
  <2>2. QED
    BY <2>1, NoElements
<1>11. methods'[Len(methods')].name = ""
  BY <1>2, <1>4, <1>6
<1>13. QED
  BY <1>8, <1>9, <1>10, <1>11

\* A variable, field, argument or local of a listed type.
LEMMA DefineValueKeeps ==
    ASSUME SymInv, Arrays \subseteq Arrays', NEW n \in Name,
           NEW type \in TypeSet, type.array => type \in Arrays',
           VarSection, DefineValue(n, type), section # "start"
    PROVE  /\ WhereOK' /\ TableOK' /\ ClassesOK' /\ MethodsOK' /\ PrototypesOK'
           /\ ClassNames' = ClassNames /\ failed' \in BOOLEAN
<1> DEFINE e == [kind |-> "var", type |-> type]
<1>1. /\ Define(CurrentScope, n, e)
      /\ UNCHANGED <<scopes, prototypes, dirty>>
  BY DEF DefineValue
<1>2. /\ ClassesOK' /\ ClassNames' = ClassNames
      /\ CurrentScope = "class" => classes' # << >>
  <2>1. CASE CurrentScope = "class"
    <3>1. classes' = [classes EXCEPT ![Len(classes)].fields = Append(@, type)]
      BY <2>1 DEF DefineValue
    <3>2. QED
      BY <2>1, <3>1, FieldAdded
  <2>2. CASE CurrentScope # "class"
    <3>1. UNCHANGED classes
      BY <2>2 DEF DefineValue
    <3>2. QED
      BY <2>2, <3>1, RecordsGrow DEF SymInv, ClassNames
  <2>3. QED
    BY <2>1, <2>2
<1>3. /\ MethodsOK' /\ PrototypesOK'
      /\ CurrentScope = "args" => methods' # << >> /\ methods'[Len(methods')].name = ""
  <2>1. CASE CurrentScope = "args"
    <3>1. methods' = [methods EXCEPT ![Len(methods)].args = Append(@, type)]
      BY <2>1 DEF DefineValue
    <3>2. QED
      BY <1>1, <2>1, <3>1, ArgumentAdded
  <2>2. CASE CurrentScope # "args"
    <3>1. UNCHANGED methods
      BY <2>2 DEF DefineValue
    <3>2. MethodsOK'
      BY <3>1, RecordsGrow DEF SymInv
    <3>3. PrototypesOK'
      BY <1>1, <3>1 DEF SymInv, PrototypesOK, MethodTypesListed
    <3>4. QED
      BY <2>2, <3>2, <3>3
  <2>3. QED
    BY <2>1, <2>2
<1>4. TableOK' /\ failed' \in BOOLEAN
  <2>1. e \in Entry /\ GoodEntry(e, n, Arrays', ClassNames')
    BY DEF Entry, Kinds, GoodEntry, IsType
  <2>2. CurrentScope \in ScopeName
    BY ScopeForms DEF SymInv
  <2> HIDE DEF e
  <2>3. QED
    BY <1>1, <1>2, <2>1, <2>2, DefineKeeps DEF SymInv, FlagsOK
<1>5. WhereOK'
  <2>1. section' \in {section, "class", "var", "method"}
    BY DEF VarSection
  <2>2. QED
    BY <1>1, <1>2, <1>3, <2>1, WhereKeeps DEF SymInv
<1>6. QED
  BY <1>2, <1>3, <1>4, <1>5

\* Variables are declared in a program that has begun.
LEMMA VarSectionBegun ==
    ASSUME SymInv, VarSection
    PROVE  section # "start" /\ section' \in {section, "class", "var", "method"}
<1>1. CurrentScope # "global"
  BY DEF VarSection
<1>2. QED
  BY <1>1, Begun DEF SymInv, VarSection

LEMMA VarDeclKeeps ==
    ASSUME SymInv, NameAssumption, NEW t \in Name, NEW n \in Name, VarDecl(t, n)
    PROVE  SymInv'
<1>1. VarSection /\ Declared(1)
  BY DEF VarDecl
<1>2. section # "start" /\ section' \in {section, "class", "var", "method"}
  BY <1>1, VarSectionBegun
<1>3. CASE ~ResolvesToType(t)
  BY <1>1, <1>2, <1>3, UnresolvedKeeps DEF VarDecl
<1>4. CASE ResolvesToType(t)
  <2>1. DefineValue(n, Resolve(t).type) /\ UNCHANGED arrayTypes
    BY <1>4 DEF VarDecl
  <2>2. UNCHANGED Arrays
    BY <2>1 DEF Arrays
  <2>3. PICK type \in TypeSet : type = Resolve(t).type /\ ~type.array
    BY <1>4, TypeFacts DEF SymInv
  <2>4. /\ WhereOK' /\ TableOK' /\ ClassesOK' /\ MethodsOK' /\ PrototypesOK'
        /\ ClassNames' = ClassNames /\ failed' \in BOOLEAN
    BY <1>1, <1>2, <2>1, <2>2, <2>3, DefineValueKeeps
  <2>5. FlagsOK'
    <3>1. UNCHANGED dirty
      BY <2>1 DEF DefineValue
    <3>2. QED
      BY <1>1, <2>4, <3>1, DeclaredOnce DEF SymInv
  <2>6. ListOK'
    BY <2>1, <2>2, <2>4 DEF SymInv, ListOK
  <2>7. QED
    BY <2>4, <2>5, <2>6 DEF SymInv
<1>5. QED
  BY <1>3, <1>4

\* The array type is listed already, by its name, or is listed now.
LEMMA ArrDeclKeeps ==
    ASSUME SymInv, NameAssumption, NEW t \in Name, NEW n \in Name, ArrDecl(t, n)
    PROVE  SymInv'
<1>1. VarSection /\ Declared(1)
  BY DEF ArrDecl
<1>2. section # "start" /\ section' \in {section, "class", "var", "method"}
  BY <1>1, VarSectionBegun
<1>3. CASE ~ResolvesToType(t)
  BY <1>1, <1>2, <1>3, UnresolvedKeeps DEF ArrDecl
<1>4. CASE ResolvesToType(t)
  <2> DEFINE known == {a \in Arrays : a.name = t}
  <2> DEFINE new == [Resolve(t).type EXCEPT !.array = TRUE]
  <2>1. /\ arrayTypes' = IF known # {} THEN arrayTypes ELSE Append(arrayTypes, new)
        /\ DefineValue(n, IF known # {} THEN CHOOSE a \in known : TRUE ELSE new)
    BY <1>4 DEF ArrDecl, Arrays
  <2>2. arrayTypes \in Seq(TypeSet) /\ Arrays \subseteq TypeSet
    BY DEF SymInv, ListOK, Arrays, Elements
  <2>3. PICK type \in TypeSet :
          /\ DefineValue(n, type)
          /\ type.array => type \in Arrays'
          /\ Arrays \subseteq Arrays'
          /\ arrayTypes' \in Seq(TypeSet)
          /\ \A i, j \in 1..Len(arrayTypes') :
               arrayTypes'[i].name = arrayTypes'[j].name => i = j
          /\ \A a \in Arrays' : a.home = "program" => a.name \in ClassNames
    <3>1. CASE known # {}
      <4>1. (CHOOSE a \in known : TRUE) \in known
        BY <3>1
      <4>2. PICK type : type = (CHOOSE a \in known : TRUE)
        OBVIOUS
      <4>3. type \in Arrays /\ DefineValue(n, type)
        BY <2>1, <3>1, <4>1, <4>2
      <4>4. UNCHANGED arrayTypes
        BY <2>1, <3>1
      <4>5. UNCHANGED Arrays
        BY <4>4 DEF Arrays
      <4>6. /\ arrayTypes' \in Seq(TypeSet)
            /\ \A i, j \in 1..Len(arrayTypes') :
                 arrayTypes'[i].name = arrayTypes'[j].name => i = j
            /\ \A a \in Arrays' : a.home = "program" => a.name \in ClassNames
        BY <4>4, <4>5 DEF SymInv, ListOK
      <4>7. QED
        BY <2>2, <4>3, <4>5, <4>6
    <3>2. CASE known = {}
      <4>1. /\ Resolve(t).type \in TypeSet /\ Resolve(t).type.name = t
            /\ Resolve(t).type.home = "program" => t \in ClassNames
        BY <1>4, TypeFacts DEF SymInv
      <4>2. PICK type : type = new
        OBVIOUS
      <4>3. /\ type \in TypeSet /\ type.name = t
            /\ type.home = "program" => t \in ClassNames
        BY <4>1, <4>2 DEF TypeSet
      <4>4. arrayTypes' = Append(arrayTypes, type) /\ DefineValue(n, type)
        BY <2>1, <3>2, <4>2
      <4>5. /\ arrayTypes' \in Seq(TypeSet) /\ Len(arrayTypes) \in Nat
            /\ Len(arrayTypes') = Len(arrayTypes) + 1
            /\ arrayTypes'[Len(arrayTypes) + 1] = type
            /\ \A i \in 1..Len(arrayTypes) : arrayTypes'[i] = arrayTypes[i]
            /\ Arrays' = Arrays \cup {type}
        BY <2>2, <4>3, <4>4, AppendFacts DEF Arrays
      <4>6. \A i \in 1..Len(arrayTypes) : arrayTypes[i].name # t
        BY <3>2 DEF Arrays, Elements
      <4>7. ASSUME NEW i \in 1..Len(arrayTypes'), NEW j \in 1..Len(arrayTypes'),
                   arrayTypes'[i].name = arrayTypes'[j].name
            PROVE  i = j
        <5>1. CASE i \in 1..Len(arrayTypes) /\ j \in 1..Len(arrayTypes)
          BY <4>5, <4>7, <5>1 DEF SymInv, ListOK
        <5>2. CASE i \notin 1..Len(arrayTypes) /\ j \notin 1..Len(arrayTypes)
          BY <4>5, <5>2
        <5>3. CASE i \in 1..Len(arrayTypes) /\ j \notin 1..Len(arrayTypes)
          <6>1. j = Len(arrayTypes) + 1
            BY <4>5, <5>3
          <6>2. QED
            BY <4>3, <4>5, <4>6, <4>7, <5>3, <6>1
        <5>4. CASE i \notin 1..Len(arrayTypes) /\ j \in 1..Len(arrayTypes)
          <6>1. i = Len(arrayTypes) + 1
            BY <4>5, <5>4
          <6>2. QED
            BY <4>3, <4>5, <4>6, <4>7, <5>4, <6>1
        <5>5. QED
          BY <5>1, <5>2, <5>3, <5>4
      <4>8. \A a \in Arrays' : a.home = "program" => a.name \in ClassNames
        BY <4>3, <4>5 DEF SymInv, ListOK
      <4>9. QED
        BY <4>3, <4>4, <4>5, <4>7, <4>8
    <3>3. QED
      BY <3>1, <3>2
  <2>4. /\ WhereOK' /\ TableOK' /\ ClassesOK' /\ MethodsOK' /\ PrototypesOK'
        /\ ClassNames' = ClassNames /\ failed' \in BOOLEAN
    BY <1>1, <1>2, <2>3, DefineValueKeeps
  <2>5. FlagsOK'
    <3>1. UNCHANGED dirty
      BY <2>3 DEF DefineValue
    <3>2. QED
      BY <1>1, <2>4, <3>1, DeclaredOnce DEF SymInv
  <2>6. ListOK'
    BY <2>3, <2>4 DEF ListOK
  <2>7. QED
    BY <2>4, <2>5, <2>6 DEF SymInv
<1>5. QED
  BY <1>3, <1>4

\* The scope of the arguments is opened, for a method without a name.
LEMMA EnterArgumentsKeeps ==
    ASSUME SymInv, NameAssumption, NEW t \in Name, EnterArguments(t)
    PROVE  SymInv'
<1>1. section # "start" /\ section' = "method" /\ Declared(1) /\ CurrentScope = "program"
  BY DEF EnterArguments
<1>2. CASE ~ResolvesToType(t)
  BY <1>1, <1>2, UnresolvedKeeps DEF EnterArguments
<1>3. CASE ResolvesToType(t)
  <2>1. PICK ret \in TypeSet : ret = Resolve(t).type /\ ~ret.array
    BY <1>3, TypeFacts DEF SymInv
  <2> DEFINE c == [name |-> "", ret |-> ret, args |-> << >>]
  <2>2. /\ scopes' = Append(scopes, "args")
        /\ table' = [table EXCEPT !["args"] = EmptyTable]
        /\ methods' = Append(methods, c)
        /\ UNCHANGED <<classes, arrayTypes, prototypes, dirty, failed>>
    BY <1>3, <2>1 DEF EnterArguments
  <2>3. UNCHANGED <<Arrays, ClassNames>>
    BY <2>2 DEF Arrays, ClassNames
  <2>4. c \in MethodRecord /\ c.name = "" /\ ~c.ret.array /\ GoodTypes(c.args, Arrays')
    BY <2>1, NoElements DEF MethodRecord, GoodTypes
  <2> HIDE DEF c
  <2>5. /\ methods' \in Seq(MethodRecord) /\ Len(methods) \in Nat
        /\ Len(methods') = Len(methods) + 1
        /\ methods'[Len(methods) + 1] = c
        /\ \A j \in 1..Len(methods) : methods'[j] = methods[j]
    <3>1. methods \in Seq(MethodRecord) /\ c \in MethodRecord
      BY <2>4 DEF SymInv, MethodsOK
    <3>2. methods' = Append(methods, c)
      BY <2>2
    <3>3. QED
      BY <3>1, <3>2, AppendFacts
  <2>6. \A j \in 1..Len(methods') :
          j \in 1..Len(methods) \/ methods'[j] = c
    BY <2>5
  <2>7. WhereOK'
    <3>1. scopes = <<"global", "program">>
      BY <1>1, ScopeForms DEF SymInv
    <3>2. scopes' = <<"global", "program", "args">>
      BY <2>2, <3>1, OneMore
    <3>3. CurrentScope' = "args"
      BY <3>2 DEF CurrentScope
    <3>4. Len(methods') # 0
      BY <2>5
    <3>5. methods' # << >> /\ methods'[Len(methods')].name = ""
      BY <2>4, <2>5, <3>4, NoElements
    <3>6. QED
      BY <1>1, <3>2, <3>3, <3>5 DEF WhereOK
  <2>8. FlagsOK'
    <3>1. failed' \in BOOLEAN
      BY <2>2 DEF SymInv, FlagsOK
    <3>2. QED
      BY <1>1, <2>2, <3>1, DeclaredOnce DEF SymInv
  <2>9. TableOK'
    <3>1. \A m \in Name : EmptyTable[m] = None
      BY DEF EmptyTable
    <3>2. None \in Entry /\ \A m \in Name : GoodEntry(None, m, Arrays', ClassNames')
      BY DEF None, Entry, Kinds, GoodEntry, IsType, NoType
    <3>3. EmptyTable \in [Name -> Entry]
      BY <3>2 DEF EmptyTable
    <3>4. table' \in [ScopeName -> [Name -> Entry]]
      BY <2>2, <3>3 DEF SymInv, TableOK
    <3>5. \A s \in ScopeName : \A m \in Name :
            table'[s][m] = table[s][m] \/ table'[s][m] = EmptyTable[m]
      BY <2>2 DEF SymInv, TableOK
    <3>6. \A s \in ScopeName : \A m \in Name :
            \/ table'[s][m] = table[s][m]
            \/ GoodEntry(table'[s][m], m, Arrays', ClassNames')
      BY <3>1, <3>2, <3>5
    <3>7. QED
      BY <2>3, <3>4, <3>6, TableGrows DEF SymInv
  <2>10. MethodsOK'
    <3>1. ASSUME NEW j \in 1..Len(methods')
          PROVE  ~methods'[j].ret.array /\ GoodTypes(methods'[j].args, Arrays')
      <4>1. CASE j \in 1..Len(methods)
        <5>1. ~methods[j].ret.array /\ GoodTypes(methods[j].args, Arrays)
          BY <4>1 DEF SymInv, MethodsOK
        <5>2. QED
          BY <2>3, <2>5, <4>1, <5>1
      <4>2. CASE methods'[j] = c
        BY <2>4, <4>2
      <4>3. QED
        BY <2>6, <4>1, <4>2
    <3>2. QED
      BY <2>5, <3>1 DEF MethodsOK
  <2>11. ClassesOK'
    BY <2>2, <2>3, RecordsGrow DEF SymInv
  <2>12. ListOK'
    BY <2>2, <2>3 DEF SymInv, ListOK
  <2>13. PrototypesOK'
    <3>1. \A j \in 1..Len(methods') :
            methods'[j].name # "" =>
              Signature(methods'[j].args, methods'[j].ret)
                \in Elements(prototypes) \cup BuiltinSignatures
      BY <2>4, <2>5, <2>6 DEF SymInv, PrototypesOK, MethodTypesListed
    <3>2. QED
      BY <2>2, <3>1 DEF SymInv, PrototypesOK, MethodTypesListed
  <2>14. QED
    BY <2>7, <2>8, <2>9, <2>10, <2>11, <2>12, <2>13 DEF SymInv
<1>4. QED
  BY <1>2, <1>3

\* The method gets its name and its signature is listed, unless it is already.
LEMMA EnterMethodKeeps ==
    ASSUME SymInv, NEW n \in Name, EnterMethod(n)
    PROVE  SymInv'
<1> DEFINE c == methods[Len(methods)]
<1>1. /\ CurrentScope = "args"
      /\ UNCHANGED <<section, classes, arrayTypes, dirty, decls>>
      /\ prototypes' = IF Declaring \in Elements(prototypes) \cup BuiltinSignatures
                       THEN prototypes ELSE Append(prototypes, Declaring)
  BY DEF EnterMethod, DefineMethod
<1>2. /\ methods \in Seq(MethodRecord) /\ methods # << >>
      /\ prototypes \in Seq(Signatures)
  BY <1>1 DEF SymInv, WhereOK, MethodsOK, PrototypesOK
<1>3. Len(methods) \in 1..Len(methods) /\ c \in MethodRecord
  BY <1>2, LastChanged
<1>4. ~c.ret.array /\ GoodTypes(c.args, Arrays)
  BY <1>3 DEF SymInv, MethodsOK
<1>5. Declaring \in Signatures
  <2>1. c.args \in Seq(TypeSet) /\ c.ret \in TypeSet
    BY <1>3 DEF MethodRecord
  <2>2. QED
    BY <2>1 DEF Declaring, Signatures
<1>6. /\ prototypes' \in Seq(Signatures)
      /\ Elements(prototypes) \subseteq Elements(prototypes')
      /\ Declaring \in Elements(prototypes') \cup BuiltinSignatures
      /\ \A i, j \in 1..Len(prototypes') : prototypes'[i] = prototypes'[j] => i = j
  <2>1. CASE Declaring \in Elements(prototypes) \cup BuiltinSignatures
    BY <1>1, <1>2, <2>1 DEF SymInv, PrototypesOK, MethodTypesListed
  <2>2. CASE Declaring \notin Elements(prototypes) \cup BuiltinSignatures
    <3>1. prototypes' = Append(prototypes, Declaring)
      BY <1>1, <2>2
    <3>2. /\ prototypes' \in Seq(Signatures) /\ Len(prototypes) \in Nat
          /\ Len(prototypes') = Len(prototypes) + 1
          /\ prototypes'[Len(prototypes) + 1] = Declaring
          /\ \A i \in 1..Len(prototypes) : prototypes'[i] = prototypes[i]
          /\ Elements(prototypes') = Elements(prototypes) \cup {Declaring}
      BY <1>2, <1>5, <3>1, AppendFacts
    <3>3. \A i \in 1..Len(prototypes) : prototypes[i] # Declaring
      BY <2>2 DEF Elements
    <3>4. \A i, j \in 1..Len(prototypes) : prototypes[i] = prototypes[j] => i = j
      BY DEF SymInv, PrototypesOK, MethodTypesListed
    <3>5. ASSUME NEW i \in 1..Len(prototypes'), NEW j \in 1..Len(prototypes'),
                 prototypes'[i] = prototypes'[j]
          PROVE  i = j
      <4>1. i \in 1..Len(prototypes) \/ i = Len(prototypes) + 1
        BY <3>2
      <4>2. j \in 1..Len(prototypes) \/ j = Len(prototypes) + 1
        BY <3>2
      <4>3. QED
        BY <3>2, <3>3, <3>4, <3>5, <4>1, <4>2
    <3>6. QED
      BY <3>2, <3>5
  <2>3. QED
    BY <2>1, <2>2
<1>7. UNCHANGED <<Arrays, ClassNames>>
  BY <1>1 DEF Arrays, ClassNames
<1>8. ClassesOK' /\ ListOK'
  BY <1>1, <1>7 DEF SymInv, ClassesOK, ListOK
<1>9. CASE failed' = TRUE /\ UNCHANGED <<scopes, table, methods>>
  <2>1. WhereOK'
    <3>1. CurrentScope' = CurrentScope
      BY <1>9 DEF CurrentScope
    <3>2. QED
      BY <1>1, <1>9, <3>1 DEF SymInv, WhereOK
  <2>2. FlagsOK'
    BY <1>1, <1>9 DEF SymInv, FlagsOK
  <2>3. TableOK' /\ MethodsOK'
    BY <1>7, <1>9 DEF SymInv, TableOK, MethodsOK
  <2>4. PrototypesOK'
    BY <1>6, <1>9 DEF SymInv, PrototypesOK, MethodTypesListed
  <2>5. QED
    BY <1>8, <2>1, <2>2, <2>3, <2>4 DEF SymInv
<1>10. CASE table["program"][n].kind = "none"
  <2> DEFINE e == [kind |-> "method", type |-> c.ret]
  <2> DEFINE d == [c EXCEPT !.name = n]
  <2>1. /\ table' = [table EXCEPT !["program"][n] = e, !["method"] = EmptyTable]
        /\ methods' = [methods EXCEPT ![Len(methods)].name = n]
        /\ scopes' = <<"global", "program", "method">>
        /\ UNCHANGED failed
    BY <1>10 DEF EnterMethod, DefineMethod
  <2>2. methods' = [methods EXCEPT ![Len(methods)] = d]
    BY <2>1
  <2>3. d \in MethodRecord /\ d.ret = c.ret /\ d.args = c.args
    BY <1>3 DEF MethodRecord
  <2>4. Signature(d.args, d.ret) = Declaring
    BY <2>3 DEF Declaring
  <2>5. ~d.ret.array /\ GoodTypes(d.args, Arrays)
    BY <1>4, <2>3
  <2>6. e \in Entry /\ GoodEntry(e, n, Arrays', ClassNames')
    <3>1. c.ret \in TypeSet
      BY <1>3 DEF MethodRecord
    <3>2. QED
      BY <1>4, <3>1 DEF Entry, Kinds, GoodEntry, IsType
  <2> HIDE DEF c, d, e
  <2>7. /\ methods' \in Seq(MethodRecord) /\ Len(methods') = Len(methods)
        /\ \A j \in 1..Len(methods) :
             methods'[j] = IF j = Len(methods) THEN d ELSE methods[j]
    <3>1. /\ [methods EXCEPT ![Len(methods)] = d] \in Seq(MethodRecord)
          /\ Len([methods EXCEPT ![Len(methods)] = d]) = Len(methods)
          /\ \A j \in 1..Len(methods) :
               [methods EXCEPT ![Len(methods)] = d][j] =
                 IF j = Len(methods) THEN d ELSE methods[j]
      BY <1>2, <1>3, <2>3, ExceptSeq
    <3>2. QED
      BY <2>2, <3>1
  <2>8. WhereOK'
    <3>1. CurrentScope' = "method"
      BY <2>1 DEF CurrentScope
    <3>2. section # "start"
      BY <1>1, Begun DEF SymInv
    <3>3. QED
      BY <1>1, <2>1, <3>1, <3>2 DEF SymInv, WhereOK
  <2>9. FlagsOK'
    BY <1>1, <2>1 DEF SymInv, FlagsOK
  <2>10. TableOK'
    <3>1. \A m \in Name : EmptyTable[m] = None
      BY DEF EmptyTable
    <3>2. None \in Entry /\ \A m \in Name : GoodEntry(None, m, Arrays', ClassNames')
      BY DEF None, Entry, Kinds, GoodEntry, IsType, NoType
    <3>3. EmptyTable \in [Name -> Entry]
      BY <3>2 DEF EmptyTable
    <3>4. table' \in [ScopeName -> [Name -> Entry]]
      BY <2>1, <2>6, <3>3 DEF SymInv, TableOK
    <3>5. ASSUME NEW s \in ScopeName, NEW m \in Name
          PROVE  \/ table'[s][m] = table[s][m]
                 \/ m = n /\ table'[s][m] = e
                 \/ table'[s][m] = EmptyTable[m]
      BY <2>1 DEF SymInv, TableOK, ScopeName
    <3>6. \A s \in ScopeName : \A m \in Name :
            \/ table'[s][m] = table[s][m]
            \/ GoodEntry(table'[s][m], m, Arrays', ClassNames')
      BY <2>6, <3>1, <3>2, <3>5
    <3>7. QED
      BY <1>7, <3>4, <3>6, TableGrows DEF SymInv
  <2>11. MethodsOK'
    <3>1. ASSUME NEW j \in 1..Len(methods)
          PROVE  ~methods'[j].ret.array /\ GoodTypes(methods'[j].args, Arrays)
      <4>1. ~methods[j].ret.array /\ GoodTypes(methods[j].args, Arrays)
        BY DEF SymInv, MethodsOK
      <4>2. QED
        BY <2>5, <2>7, <4>1
    <3>2. QED
      BY <1>7, <2>7, <3>1 DEF MethodsOK
  <2>12. PrototypesOK'
    <3>1. ASSUME NEW j \in 1..Len(methods), methods'[j].name # ""
          PROVE  Signature(methods'[j].args, methods'[j].ret)
                   \in Elements(prototypes') \cup BuiltinSignatures
      <4>1. CASE j = Len(methods)
        BY <1>6, <2>4, <2>7, <4>1
      <4>2. CASE j # Len(methods)
        <5>1. methods'[j] = methods[j]
          BY <2>7, <4>2
        <5>2. QED
          BY <1>6, <3>1, <5>1 DEF SymInv, PrototypesOK, MethodTypesListed
      <4>3. QED
        BY <4>1, <4>2
    <3>2. QED
      BY <1>6, <2>7, <3>1 DEF PrototypesOK, MethodTypesListed
  <2>13. QED
    BY <1>8, <2>8, <2>9, <2>10, <2>11, <2>12 DEF SymInv
<1>11. QED
  BY <1>9, <1>10 DEF EnterMethod, DefineMethod

-----------------------------------------------------------------------------
(* The theorems.                                                           *)

LEMMA SymInvNext ==
    ASSUME SymInv, NameAssumption, [SymNext]_symVars
    PROVE  SymInv'
<1>1. CASE UNCHANGED symVars
  <2>1. /\ UNCHANGED <<scopes, section, dirty, failed, decls>>
        /\ UNCHANGED <<table, classes, methods, arrayTypes, prototypes>>
    BY <1>1 DEF symVars
  <2>2. WhereOK'
    <3>1. CurrentScope' = CurrentScope
      BY <2>1 DEF CurrentScope
    <3>2. QED
      BY <2>1, <3>1 DEF SymInv, WhereOK
  <2>3. FlagsOK'
    BY <2>1 DEF SymInv, FlagsOK
  <2>4. QED
    BY <2>1, <2>2, <2>3, ListsUntouched DEF SymInv
<1>2. CASE SymNext
  <2>1. Identifier \subseteq Name
    BY DEF Identifier
  <2>2. ASSUME NEW n \in Identifier, EnterProgram(n) \/ EnterClass(n) \/ EnterMethod(n)
        PROVE  SymInv'
    BY <2>1, <2>2, EnterProgramKeeps, EnterClassKeeps, EnterMethodKeeps
  <2>3. ASSUME NEW t \in Identifier, NEW n \in Identifier,
               ConstDecl(t, n) \/ VarDecl(t, n) \/ ArrDecl(t, n)
        PROVE  SymInv'
    BY <2>1, <2>3, ConstDeclKeeps, VarDeclKeeps, ArrDeclKeeps
  <2>4. ASSUME NEW t \in Name, EnterArguments(t) PROVE SymInv'
    BY <2>4, EnterArgumentsKeeps
  <2>5. CASE LeaveClass \/ LeaveMethod
    BY <2>5, LeaveKeeps
  <2>6. CASE LeaveProgram
    BY <2>6, LeaveProgramKeeps
  <2>7. CASE Over
    BY <1>1, <2>7 DEF Over
  <2>8. QED
    BY <1>2, <2>2, <2>3, <2>4, <2>5, <2>6, <2>7 DEF SymNext
<1>3. QED
  BY <1>1, <1>2

\* The inductive invariant holds for any identifiers and number of declarations.
THEOREM SymInvariant == SymSpec => []SymInv
<1>1. SymInit => SymInv
  BY SymInvInit, NameAssumption
<1>2. SymInv /\ [SymNext]_symVars => SymInv'
  BY SymInvNext, NameAssumption
<1>3. QED
  BY <1>1, <1>2, PTL DEF SymSpec

\* The scopes, the tables and the flags keep their types.
THEOREM SymTypeCorrect == SymSpec => []SymTypeOK
<1>1. SymInv => SymTypeOK
  <2> SUFFICES ASSUME SymInv PROVE SymTypeOK
    OBVIOUS
  <2>1. \A s \in ScopeName : \A n \in Name :
          table[s][n].kind \in Kinds /\ table[s][n].type \in TypeSet \cup {NoType}
    BY DEF SymInv, TableOK, Entry
  <2>2. QED
    BY <2>1 DEF SymInv, WhereOK, FlagsOK, ListOK, SymTypeOK
<1>2. QED
  BY <1>1, SymInvariant, PTL

\* Every array type of the program is in the list initTypes goes through, once,
\* and after its class, wherever it was met first.
THEOREM ArrayTypesInvariant == SymSpec => []ArrayTypesListed
<1>1. SymInv => ArrayTypesListed
  <2> SUFFICES ASSUME SymInv PROVE ArrayTypesListed
    OBVIOUS
  <2>1. ASSUME NEW t \in ValueTypes, t.array PROVE t \in Elements(arrayTypes)
    <3> DEFINE A == {table[s][n].type : s \in ScopeName \ {"global"}, n \in Name}
    <3> DEFINE B == UNION {Elements(classes[i].fields) : i \in 1..Len(classes)}
    <3> DEFINE C == UNION {Elements(methods[i].args) : i \in 1..Len(methods)}
    <3>1. ASSUME t \in A PROVE t \in Elements(arrayTypes)
      BY <2>1, <3>1 DEF SymInv, TableOK, GoodEntry, Arrays
    <3>2. ASSUME t \in B PROVE t \in Elements(arrayTypes)
      BY <2>1, <3>2 DEF SymInv, ClassesOK, GoodTypes, Arrays
    <3>3. ASSUME t \in C PROVE t \in Elements(arrayTypes)
      BY <2>1, <3>3 DEF SymInv, MethodsOK, GoodTypes, Arrays
    <3>4. ValueTypes = (A \cup B) \cup C
      BY DEF ValueTypes
    <3> HIDE DEF A, B, C
    <3>5. QED
      BY <3>1, <3>2, <3>3, <3>4
  <2>2. \A a \in Elements(arrayTypes) :
          a.home = "program" => \E i \in 1..Len(classes) : classes[i].name = a.name
    BY DEF SymInv, ListOK, Arrays, ClassNames
  <2>3. QED
    BY <2>1, <2>2 DEF SymInv, ListOK, ArrayTypesListed
<1>2. QED
  BY <1>1, SymInvariant, PTL

\* The signature of every method is in the list initMethods goes through, once,
\* or is one of the two that GlobalScope defines.
THEOREM MethodTypesInvariant == SymSpec => []MethodTypesListed
<1>1. SymInv => MethodTypesListed
  BY DEF SymInv, PrototypesOK
<1>2. QED
  BY <1>1, SymInvariant, PTL

-----------------------------------------------------------------------------
(* Which names the program scope holds, as long as nothing has been        *)
(* declared twice.                                                         *)

\* The methods that have their names.
Complete == IF CurrentScope = "args" THEN 1..(Len(methods) - 1) ELSE 1..Len(methods)
MethodNames == {methods[i].name : i \in Complete}

\* The global scope holds what GlobalScope put there, and the program.
GlobalsOK ==
    \A n \in Name :
        table["global"][n] = GlobalTable[n] \/ table["global"][n].kind = "program"

\* The table of the program scope agrees with the vectors of the program.
DeclaredOK ==
    /\ MethodNames \subseteq Name
    /\ \A n \in Name : /\ table["program"][n].kind = "method" <=> n \in MethodNames
                       /\ table["program"][n].kind = "class" <=> n \in ClassNames
    /\ \A i, j \in 1..Len(classes) : classes[i].name = classes[j].name => i = j

NamesOK == GlobalsOK /\ DeclaredOK

\* The same names, for the same declarations.
SameClassNames ==
    /\ Len(classes') = Len(classes)
    /\ \A i \in 1..Len(classes) : classes'[i].name = classes[i].name
SameMethodNames ==
    /\ Len(methods') = Len(methods)
    /\ \A i \in 1..Len(methods) : methods'[i].name = methods[i].name

LEMMA SameNames ==
    /\ SameClassNames => ClassNames' = ClassNames
    /\ /\ SameMethodNames /\ Len(methods) \in Nat
       /\ CurrentScope' = "args" <=> CurrentScope = "args"
       => MethodNames' = MethodNames
<1>1. ASSUME SameClassNames PROVE ClassNames' = ClassNames
  BY <1>1 DEF SameClassNames, ClassNames
<1>2. ASSUME SameMethodNames, Len(methods) \in Nat,
             CurrentScope' = "args" <=> CurrentScope = "args"
      PROVE  MethodNames' = MethodNames
  <2>1. Complete' = Complete /\ Complete \subseteq 1..Len(methods)
    BY <1>2 DEF SameMethodNames, Complete
  <2>2. QED
    BY <1>2, <2>1 DEF SameMethodNames, MethodNames
<1>3. QED
  BY <1>1, <1>2

\* Nothing is declared in the global and in the program scope.
LEMMA NamesKept ==
    ASSUME NamesOK, table'["program"] = table["program"],
           table'["global"] = table["global"],
           SameClassNames, MethodNames' = MethodNames
    PROVE  NamesOK'
<1>1. ClassNames' = ClassNames
  BY SameNames
<1>2. GlobalsOK'
  BY DEF NamesOK, GlobalsOK
<1>3. DeclaredOK'
  BY <1>1 DEF NamesOK, DeclaredOK, SameClassNames
<1>4. QED
  BY <1>2, <1>3 DEF NamesOK

\* A name is added to the program scope, and to the vector for its kind.
LEMMA NameAdded ==
    ASSUME NamesOK, TableOK, NEW n \in Name, NEW e,
           table["program"][n].kind = "none",
           \A m \in Name : table'["program"][m] = IF m = n THEN e ELSE table["program"][m],
           table'["global"] = table["global"],
           MethodNames' = IF e.kind = "method" THEN MethodNames \cup {n} ELSE MethodNames,
           ClassNames' = IF e.kind = "class" THEN ClassNames \cup {n} ELSE ClassNames,
           \A i, j \in 1..Len(classes') : classes'[i].name = classes'[j].name => i = j
    PROVE  NamesOK'
<1>1. GlobalsOK'
  BY DEF NamesOK, GlobalsOK
<1>2. n \notin MethodNames /\ n \notin ClassNames
  BY DEF NamesOK, DeclaredOK
<1>3. ASSUME NEW m \in Name
      PROVE  /\ table'["program"][m].kind = "method" <=> m \in MethodNames'
             /\ table'["program"][m].kind = "class" <=> m \in ClassNames'
  <2>1. CASE m = n
    BY <1>2, <2>1
  <2>2. CASE m # n
    <3>1. table'["program"][m] = table["program"][m]
      BY <2>2
    <3>2. (m \in MethodNames' <=> m \in MethodNames) /\ (m \in ClassNames' <=> m \in ClassNames)
      BY <2>2
    <3>3. QED
      BY <3>1, <3>2 DEF NamesOK, DeclaredOK
  <2>3. QED
    BY <2>1, <2>2
<1>4. MethodNames' \subseteq Name
  BY DEF NamesOK, DeclaredOK
<1>5. QED
  BY <1>1, <1>3, <1>4 DEF NamesOK, DeclaredOK

-----------------------------------------------------------------------------
(* The order of the types.                                                 *)

\* Type t is a class, or an array of a class, that the first c classes cs do
\* not have; it is the c-th class or an array of it.
Later(t, cs, c) == t.home = "program" /\ \A i \in 1..c : cs[i].name # t.name
Own(t, cs, c) == t.home = "program" /\ t.name = cs[c].name

\* The fields of the c-th class are in order, with the array types as.
UsesInOrder(c, cs, as) ==
    \A t \in Elements(cs[c].fields) :
        /\ ~Later(t, cs, c)
        /\ t.array => \E p \in 1..Len(as) :
                         /\ as[p] = t
                         /\ \A q \in 1..p :
                              /\ ~Later(as[q], cs, c)
                              /\ Own(as[q], cs, c) => as[q] \in Elements(cs[c].fields)

\* While a class is open, an array of it that is listed is one of its fields.
OwnListed ==
    CurrentScope = "class" =>
        \A a \in Arrays : Own(a, classes, Len(classes))
                            => a \in Elements(classes[Len(classes)].fields)

OrderOK ==
    /\ \A c \in 1..Len(classes) : UsesInOrder(c, classes, arrayTypes)
    /\ OwnListed

\* More classes and more array types do not matter to a class that is closed.
LEMMA OrderGrows ==
    ASSUME NEW c \in Nat, NEW cs, NEW ds, NEW as, NEW bs, UsesInOrder(c, cs, as),
           \A i \in 1..c : ds[i].name = cs[i].name,
           c # 0, ds[c].fields = cs[c].fields,
           Len(as) \in Nat, Len(bs) \in Nat, Len(as) <= Len(bs),
           \A p \in 1..Len(as) : bs[p] = as[p]
    PROVE  UsesInOrder(c, ds, bs)
<1>1. \A t : /\ Later(t, ds, c) <=> Later(t, cs, c)
             /\ Own(t, ds, c) <=> Own(t, cs, c)
  <2>1. c \in 1..c
    OBVIOUS
  <2>2. QED
    BY <2>1 DEF Later, Own
<1>2. ASSUME NEW t \in Elements(ds[c].fields)
      PROVE  /\ ~Later(t, ds, c)
             /\ t.array => \E p \in 1..Len(bs) :
                              /\ bs[p] = t
                              /\ \A q \in 1..p :
                                   /\ ~Later(bs[q], ds, c)
                                   /\ Own(bs[q], ds, c) => bs[q] \in Elements(ds[c].fields)
  <2>1. t \in Elements(cs[c].fields)
    OBVIOUS
  <2>2. ~Later(t, ds, c)
    BY <1>1, <2>1 DEF UsesInOrder
  <2>3. ASSUME t.array
        PROVE  \E p \in 1..Len(bs) :
                 /\ bs[p] = t
                 /\ \A q \in 1..p :
                      /\ ~Later(bs[q], ds, c)
                      /\ Own(bs[q], ds, c) => bs[q] \in Elements(ds[c].fields)
    <3>1. PICK p \in 1..Len(as) :
            /\ as[p] = t
            /\ \A q \in 1..p :
                 /\ ~Later(as[q], cs, c)
                 /\ Own(as[q], cs, c) => as[q] \in Elements(cs[c].fields)
      BY <2>1, <2>3 DEF UsesInOrder
    <3>2. p \in 1..Len(bs) /\ \A q \in 1..p : q \in 1..Len(as)
      <4> DEFINE k == Len(as)
                 l == Len(bs)
      <4>1. k \in Nat /\ l \in Nat /\ k <= l /\ p \in 1..k
        OBVIOUS
      <4> HIDE DEF k, l
      <4>2. p \in 1..l /\ \A q \in 1..p : q \in 1..k
        BY ONLY <4>1
      <4>3. QED
        BY ONLY <4>2 DEF k, l
    <3>3. \A q \in 1..p : bs[q] = as[q]
      BY <3>2
    <3>4. \A q \in 1..p :
            /\ ~Later(bs[q], ds, c)
            /\ Own(bs[q], ds, c) => bs[q] \in Elements(ds[c].fields)
      BY <1>1, <3>1, <3>3
    <3>5. bs[p] = t
      BY <3>1
    <3>6. QED
      BY <3>2, <3>4, <3>5
  <2>4. QED
    BY <2>2, <2>3
<1>3. QED
  BY <1>2 DEF UsesInOrder

\* A field is added to the open class c.
LEMMA OpenInOrder ==
    ASSUME NEW c \in Nat, NEW cs, NEW ds, NEW as, NEW bs \in Seq(TypeSet), UsesInOrder(c, cs, as),
           \A i \in 1..c : ds[i].name = cs[i].name,
           NEW type, Elements(ds[c].fields) = Elements(cs[c].fields) \cup {type},
           ~Later(type, cs, c),
           \A b \in Elements(bs) : ~Later(b, cs, c),
           \A b \in Elements(bs) : Own(b, ds, c) => b \in Elements(ds[c].fields),
           \A t \in Elements(ds[c].fields) : t.array => t \in Elements(bs)
    PROVE  UsesInOrder(c, ds, bs)
<1>1. \A t : Later(t, ds, c) <=> Later(t, cs, c)
  BY DEF Later
<1>2. ASSUME NEW t \in Elements(ds[c].fields)
      PROVE  ~Later(t, ds, c)
  <2>1. t \in Elements(cs[c].fields) \/ t = type
    BY <1>2
  <2>2. ~Later(t, cs, c)
    BY <2>1 DEF UsesInOrder
  <2>3. QED
    BY <1>1, <2>2
<1>3. ASSUME NEW t \in Elements(ds[c].fields), t.array
      PROVE  \E p \in 1..Len(bs) :
               /\ bs[p] = t
               /\ \A q \in 1..p :
                    /\ ~Later(bs[q], ds, c)
                    /\ Own(bs[q], ds, c) => bs[q] \in Elements(ds[c].fields)
  <2>1. PICK p \in 1..Len(bs) : bs[p] = t
    BY <1>3 DEF Elements
  <2>2. Len(bs) \in Nat /\ \A q \in 1..p : q \in 1..Len(bs)
    OBVIOUS
  <2>3. \A q \in 1..p : bs[q] \in Elements(bs)
    BY <2>2 DEF Elements
  <2>4. QED
    BY <1>1, <2>1, <2>3
<1>4. QED
  BY <1>2, <1>3 DEF UsesInOrder

LEMMA OrderIsTypesInOrder ==
    TypesInOrder <=> (~failed => \A c \in 1..Len(classes) : UsesInOrder(c, classes, arrayTypes))
BY DEF TypesInOrder, UsesInOrder, Later, Own

-----------------------------------------------------------------------------
(* The steps.                                                              *)

LEMMA OrderKept ==
    ASSUME OrderOK, UNCHANGED <<classes, arrayTypes>>,
           CurrentScope' = "class" => CurrentScope = "class"
    PROVE  OrderOK'
<1>1. Arrays' = Arrays
  BY DEF Arrays
<1>2. QED
  BY <1>1 DEF OrderOK, OwnListed

LEMMA Lengths ==
    ASSUME SymInv
    PROVE  /\ Len(classes) \in Nat /\ Len(methods) \in Nat /\ Len(arrayTypes) \in Nat
           /\ classes \in Seq(ClassRecord) /\ methods \in Seq(MethodRecord)
           /\ arrayTypes \in Seq(TypeSet)
           /\ table \in [ScopeName -> [Name -> Entry]]
           /\ CurrentScope \in ScopeName
<1>1. /\ classes \in Seq(ClassRecord) /\ methods \in Seq(MethodRecord)
      /\ arrayTypes \in Seq(TypeSet) /\ table \in [ScopeName -> [Name -> Entry]]
  BY DEF SymInv, ClassesOK, MethodsOK, ListOK, TableOK
<1>2. QED
  BY <1>1, ScopeForms DEF SymInv

\* Scopes are left, or an error is reported.
LEMMA QuietKeeps ==
    ASSUME SymInv, NamesOK, OrderOK, UNCHANGED <<table, classes, methods, arrayTypes>>,
           CurrentScope' = "args" <=> CurrentScope = "args",
           CurrentScope' = "class" => CurrentScope = "class"
    PROVE  NamesOK' /\ OrderOK'
<1>1. SameClassNames /\ SameMethodNames
  BY DEF SameClassNames, SameMethodNames
<1>2. MethodNames' = MethodNames
  BY <1>1, SameNames, Lengths
<1>3. NamesOK'
  BY <1>1, <1>2, NamesKept
<1>4. QED
  BY <1>3, OrderKept

LEMMA UnresolvedSame ==
    ASSUME SymInv, NamesOK, OrderOK, Unresolved
    PROVE  NamesOK' /\ OrderOK'
<1>1. CurrentScope' = CurrentScope
  BY DEF Unresolved, CurrentScope
<1>2. QED
  BY <1>1, QuietKeeps DEF Unresolved

LEMMA LeaveSame ==
    ASSUME SymInv, NamesOK, OrderOK, LeaveClass \/ LeaveMethod \/ LeaveProgram
    PROVE  NamesOK' /\ OrderOK'
<1>1. /\ UNCHANGED <<table, classes, methods, arrayTypes>>
      /\ CurrentScope # "args"
      /\ scopes' = <<"global", "program">> \/ scopes' = <<"global">>
  BY DEF LeaveClass, LeaveMethod, LeaveProgram
<1>2. CurrentScope' \in {"program", "global"}
  BY <1>1 DEF CurrentScope
<1>3. QED
  BY <1>1, <1>2, QuietKeeps

\* The entries of the other names and scopes stay.
LEMMA DefineFacts ==
    ASSUME TableOK, NEW s \in ScopeName, NEW n \in Name, NEW e, Define(s, n, e), ~failed'
    PROVE  /\ table[s][n].kind = "none"
           /\ \A r \in ScopeName : r # s => table'[r] = table[r]
           /\ \A m \in Name : table'[s][m] = IF m = n THEN e ELSE table[s][m]
<1>1. table[s][n].kind = "none" /\ table' = [table EXCEPT ![s][n] = e]
  BY DEF Define
<1>2. table \in [ScopeName -> [Name -> Entry]]
  BY DEF TableOK
<1>3. QED
  BY <1>1, <1>2

LEMMA EnterProgramNames ==
    ASSUME SymInv, SymInv', NamesOK, OrderOK, ~failed', NEW n \in Name, EnterProgram(n)
    PROVE  NamesOK' /\ OrderOK'
<1>1. /\ section = "start" /\ Define("global", n, [kind |-> "program", type |-> NoType])
      /\ scopes' = Append(scopes, "program")
      /\ UNCHANGED <<classes, methods, arrayTypes>>
  BY DEF EnterProgram
<1>2. scopes = <<"global">> /\ scopes' = <<"global", "program">>
  <2>1. scopes = <<"global">>
    BY <1>1 DEF SymInv, WhereOK
  <2>2. QED
    BY <1>1, <2>1, OneMore
<1>3. CurrentScope = "global" /\ CurrentScope' = "program"
  BY <1>2 DEF CurrentScope
<1>4. /\ table'["program"] = table["program"]
      /\ \A m \in Name : table'["global"][m] = IF m = n THEN [kind |-> "program", type |-> NoType]
                                               ELSE table["global"][m]
  <2>1. "global" \in ScopeName /\ "program" \in ScopeName
    BY DEF ScopeName
  <2>2. QED
    BY <1>1, <2>1, DefineFacts DEF SymInv
<1>5. MethodNames' = MethodNames /\ ClassNames' = ClassNames
  <2>1. SameClassNames /\ SameMethodNames
    BY <1>1 DEF SameClassNames, SameMethodNames
  <2>2. QED
    BY <1>3, <2>1, SameNames, Lengths
<1>6. GlobalsOK'
  <2>1. ASSUME NEW m \in Name
        PROVE  table'["global"][m] = GlobalTable[m] \/ table'["global"][m].kind = "program"
    BY <1>4 DEF NamesOK, GlobalsOK
  <2>2. QED
    BY <2>1 DEF GlobalsOK
<1>7. DeclaredOK'
  BY <1>1, <1>4, <1>5 DEF NamesOK, DeclaredOK
<1>8. OrderOK'
  BY <1>1, <1>3, OrderKept
<1>9. QED
  BY <1>6, <1>7, <1>8 DEF NamesOK

\* A constant or a variable of the program.
LEMMA ValueNames ==
    ASSUME SymInv, NamesOK, ~failed', NEW n \in Name, NEW e, e.kind \in {"const", "var"},
           Define("program", n, e), UNCHANGED <<scopes, classes, methods>>
    PROVE  NamesOK'
<1>1. CurrentScope' = CurrentScope
  BY DEF CurrentScope
<1>2. MethodNames' = MethodNames /\ ClassNames' = ClassNames
  <2>1. SameClassNames /\ SameMethodNames
    BY DEF SameClassNames, SameMethodNames
  <2>2. QED
    BY <1>1, <2>1, SameNames, Lengths
<1>3. /\ table["program"][n].kind = "none"
      /\ table'["global"] = table["global"]
      /\ \A m \in Name : table'["program"][m] = IF m = n THEN e ELSE table["program"][m]
  <2>1. "global" \in ScopeName /\ "program" \in ScopeName
    BY DEF ScopeName
  <2>2. QED
    BY <2>1, DefineFacts DEF SymInv
<1>4. TableOK /\ \A i, j \in 1..Len(classes') : classes'[i].name = classes'[j].name => i = j
  BY DEF SymInv, NamesOK, DeclaredOK
<1>5. e.kind # "method" /\ e.kind # "class"
  OBVIOUS
<1>6. QED
  BY <1>2, <1>3, <1>4, <1>5, NameAdded

LEMMA ConstDeclNames ==
    ASSUME SymInv, SymInv', NamesOK, OrderOK, ~failed', NEW t \in Name, NEW n \in Name,
           ConstDecl(t, n)
    PROVE  NamesOK' /\ OrderOK'
<1>1. CASE ~ResolvesToType(t)
  BY <1>1, UnresolvedSame DEF ConstDecl
<1>2. CASE ResolvesToType(t)
  <2> DEFINE e == [kind |-> "const", type |-> Resolve(t).type]
  <2>1. /\ Define("program", n, e) /\ UNCHANGED <<scopes, classes, methods, arrayTypes>>
    BY <1>2 DEF ConstDecl
  <2>2. e.kind \in {"const", "var"}
    OBVIOUS
  <2> HIDE DEF e
  <2>3. NamesOK'
    BY <2>1, <2>2, ValueNames
  <2>4. CurrentScope' = CurrentScope
    BY <2>1 DEF CurrentScope
  <2>5. QED
    BY <2>1, <2>3, <2>4, OrderKept
<1>3. QED
  BY <1>1, <1>2

LEMMA EnterClassNames ==
    ASSUME SymInv, SymInv', NamesOK, OrderOK, ~failed', NEW n \in Name, EnterClass(n)
    PROVE  NamesOK' /\ OrderOK'
<1> DEFINE e == [kind |-> "class", type |-> Base(n, "program")]
           c == [name |-> n, fields |-> << >>]
<1>1. /\ CurrentScope = "program" /\ table["program"][n].kind = "none"
      /\ table' = [table EXCEPT !["program"][n] = e, !["class"] = EmptyTable]
      /\ classes' = Append(classes, c)
      /\ scopes' = Append(scopes, "class")
      /\ UNCHANGED <<methods, arrayTypes>>
  BY DEF EnterClass
<1>2. CurrentScope' = "class"
  <2>1. scopes = <<"global", "program">>
    BY <1>1, ScopeForms DEF SymInv
  <2>2. scopes' = <<"global", "program", "class">>
    BY <1>1, <2>1, OneMore
  <2>3. QED
    BY <2>2 DEF CurrentScope
<1>3. c \in ClassRecord /\ c.name = n /\ Elements(c.fields) = {}
  BY NoElements DEF ClassRecord
<1>4. e.kind = "class"
  OBVIOUS
<1>5. /\ table'["global"] = table["global"]
      /\ \A m \in Name : table'["program"][m] = IF m = n THEN e ELSE table["program"][m]
  <2> HIDE DEF e
  <2>1. QED
    BY <1>1, Lengths DEF ScopeName
<1> HIDE DEF e, c
<1> DEFINE k == Len(classes)
<1>6. /\ k \in Nat /\ Len(classes') = k + 1 /\ classes'[k + 1] = c
      /\ \A i \in 1..k : classes'[i] = classes[i]
  BY <1>1, <1>3, Lengths, AppendFacts
<1>7. \A i \in 1..Len(classes') : i = k + 1 \/ i \in 1..k
  BY <1>6
<1>8. n \notin ClassNames /\ \A i \in 1..k : classes[i].name # n
  <2>1. n \notin ClassNames
    BY <1>1 DEF NamesOK, DeclaredOK
  <2>2. QED
    BY <2>1 DEF ClassNames
<1>9. ClassNames' = ClassNames \cup {n}
  <2>1. ASSUME NEW x PROVE x \in ClassNames' <=> x \in ClassNames \cup {n}
    <3>1. x \in ClassNames' <=> \E i \in 1..Len(classes') : x = classes'[i].name
      BY DEF ClassNames
    <3>2. x \in ClassNames <=> \E i \in 1..k : x = classes[i].name
      BY DEF ClassNames
    <3>3. k + 1 \in 1..Len(classes') /\ \A i \in 1..k : i \in 1..Len(classes')
      BY <1>6
    <3> HIDE DEF k
    <3>4. QED
      BY <1>3, <1>6, <1>7, <3>1, <3>2, <3>3
  <2>2. QED
    BY <2>1
<1>10. \A i, j \in 1..Len(classes') : classes'[i].name = classes'[j].name => i = j
  <2>1. \A i, j \in 1..k : classes[i].name = classes[j].name => i = j
    BY DEF NamesOK, DeclaredOK
  <2> HIDE DEF k
  <2>2. QED
    BY <1>3, <1>6, <1>7, <1>8, <2>1
<1>11. MethodNames' = MethodNames
  <2>1. SameMethodNames
    BY <1>1 DEF SameMethodNames
  <2>2. QED
    BY <1>1, <1>2, <2>1, SameNames, Lengths
<1>12. NamesOK'
  <2>1. TableOK
    BY DEF SymInv
  <2>2. QED
    BY <1>1, <1>4, <1>5, <1>9, <1>10, <1>11, <2>1, NameAdded, ZenonT(30)
<1>13. Arrays' = Arrays
  BY <1>1 DEF Arrays
<1>14. OwnListed'
  <2>1. ASSUME NEW a \in Arrays, Own(a, classes', Len(classes')) PROVE FALSE
    <3>1. a.home = "program" /\ a.name = n
      BY <1>3, <1>6, <2>1 DEF Own
    <3>2. a.name \in ClassNames
      BY <3>1 DEF SymInv, ListOK
    <3>3. QED
      BY <1>8, <3>1, <3>2
  <2>2. QED
    BY <1>13, <2>1 DEF OwnListed
<1>15. ASSUME NEW i \in 1..Len(classes')
       PROVE  UsesInOrder(i, classes', arrayTypes')
  <2>1. CASE i = k + 1
    <3>1. Elements(classes'[i].fields) = {}
      BY <1>3, <1>6, <2>1
    <3>2. QED
      BY <3>1 DEF UsesInOrder
  <2>2. CASE i \in 1..k
    <3>1. UsesInOrder(i, classes, arrayTypes)
      BY <2>2 DEF OrderOK
    <3>2. i \in Nat /\ i # 0 /\ (\A j \in 1..i : j \in 1..k)
      BY <1>6, <2>2
    <3>3. (\A j \in 1..i : classes'[j].name = classes[j].name) /\ classes'[i].fields = classes[i].fields
      BY <1>6, <2>2, <3>2
    <3>4. arrayTypes' = arrayTypes /\ Len(arrayTypes) \in Nat
      BY <1>1, Lengths
    <3> HIDE DEF k
    <3>5. QED
      BY <3>1, <3>2, <3>3, <3>4, OrderGrows
  <2>3. QED
    BY <1>7, <2>1, <2>2
<1>16. QED
  BY <1>12, <1>14, <1>15 DEF OrderOK

LEMMA EnterArgumentsNames ==
    ASSUME SymInv, SymInv', NamesOK, OrderOK, ~failed', NEW r \in Name, EnterArguments(r)
    PROVE  NamesOK' /\ OrderOK'
<1>1. CASE ~ResolvesToType(r)
  BY <1>1, UnresolvedSame DEF EnterArguments
<1>2. CASE ResolvesToType(r)
  <2> DEFINE m == [name |-> "", ret |-> Resolve(r).type, args |-> << >>]
             k == Len(methods)
  <2>1. /\ CurrentScope = "program" /\ scopes' = Append(scopes, "args")
        /\ table' = [table EXCEPT !["args"] = EmptyTable]
        /\ methods' = Append(methods, m)
        /\ UNCHANGED <<classes, arrayTypes>>
    BY <1>2 DEF EnterArguments
  <2>2. CurrentScope' = "args"
    <3>1. scopes = <<"global", "program">>
      BY <2>1, ScopeForms DEF SymInv
    <3>2. scopes' = <<"global", "program", "args">>
      BY <2>1, <3>1, OneMore
    <3>3. QED
      BY <3>2 DEF CurrentScope
  <2>3. /\ k \in Nat /\ Len(methods') = k + 1
        /\ \A i \in 1..k : methods'[i] = methods[i]
    <3>1. Resolve(r).type \in TypeSet
      BY <1>2, TypeFacts DEF SymInv
    <3>2. m \in MethodRecord
      BY <3>1 DEF MethodRecord
    <3> HIDE DEF m
    <3>3. QED
      BY <2>1, <3>2, Lengths, AppendFacts
  <2>4. MethodNames' = MethodNames
    <3>1. Complete = 1..k /\ Complete' = 1..(Len(methods') - 1)
      BY <2>1, <2>2 DEF Complete
    <3>2. Len(methods') - 1 = k
      BY <2>3
    <3> HIDE DEF k
    <3>3. QED
      BY <2>3, <3>1, <3>2 DEF MethodNames
  <2>5. table'["program"] = table["program"] /\ table'["global"] = table["global"]
    BY <2>1, Lengths DEF ScopeName
  <2>6. NamesOK'
    <3>1. SameClassNames
      BY <2>1 DEF SameClassNames
    <3>2. QED
      BY <2>4, <2>5, <3>1, NamesKept
  <2>7. OrderOK'
    BY <2>1, <2>2, OrderKept
  <2>8. QED
    BY <2>6, <2>7
<1>3. QED
  BY <1>1, <1>2

LEMMA EnterMethodNames ==
    ASSUME SymInv, SymInv', NamesOK, OrderOK, ~failed', NEW n \in Name, EnterMethod(n)
    PROVE  NamesOK' /\ OrderOK'
<1> DEFINE k == Len(methods)
           e == [kind |-> "method", type |-> methods[k].ret]
           m == [methods[k] EXCEPT !.name = n]
<1>1. /\ CurrentScope = "args" /\ table["program"][n].kind = "none"
      /\ table' = [table EXCEPT !["program"][n] = e, !["method"] = EmptyTable]
      /\ methods' = [methods EXCEPT ![k] = m]
      /\ scopes' = <<"global", "program", "method">>
      /\ UNCHANGED <<classes, arrayTypes>>
  BY DEF EnterMethod, DefineMethod
<1>2. CurrentScope' = "method"
  BY <1>1 DEF CurrentScope
<1>3. methods # << >> /\ methods \in Seq(MethodRecord)
  BY <1>1, Lengths DEF SymInv, WhereOK
<1>4. k \in Nat \ {0} /\ m \in MethodRecord /\ m.name = n
  <2>1. k \in Nat \ {0} /\ methods[k] \in MethodRecord
    BY <1>3, LastChanged
  <2>2. QED
    BY <2>1 DEF MethodRecord
<1>5. e.kind = "method"
  OBVIOUS
<1>6. /\ table'["global"] = table["global"]
      /\ \A x \in Name : table'["program"][x] = IF x = n THEN e ELSE table["program"][x]
  <2> HIDE DEF e
  <2>1. QED
    BY <1>1, Lengths DEF ScopeName
<1> HIDE DEF e, m
<1>7. /\ Len(methods') = k
      /\ \A i \in 1..k : methods'[i] = IF i = k THEN m ELSE methods[i]
  BY <1>1, <1>3, <1>4, LastChanged
<1>8. MethodNames' = MethodNames \cup {n}
  <2>1. Complete = 1..(k - 1) /\ Complete' = 1..k
    BY <1>1, <1>2, <1>7 DEF Complete
  <2>2. ASSUME NEW x PROVE x \in MethodNames' <=> x \in MethodNames \cup {n}
    <3>1. x \in MethodNames' <=> \E i \in 1..k : x = methods'[i].name
      BY <2>1 DEF MethodNames
    <3>2. x \in MethodNames <=> \E i \in 1..(k - 1) : x = methods[i].name
      BY <2>1 DEF MethodNames
    <3>3. /\ k \in 1..k /\ \A i \in 1..(k - 1) : i \in 1..k /\ i # k
          /\ \A i \in 1..k : i = k \/ i \in 1..(k - 1)
      BY <1>4
    <3> HIDE DEF k
    <3>4. (\A i \in 1..(k - 1) : methods'[i] = methods[i]) /\ methods'[k].name = n
      BY <1>4, <1>7, <3>3
    <3>5. QED
      BY <3>1, <3>2, <3>3, <3>4
  <2>3. QED
    BY <2>2
<1>9. ClassNames' = ClassNames
  BY <1>1 DEF ClassNames
<1>10. NamesOK'
  <2>1. TableOK /\ \A i, j \in 1..Len(classes') : classes'[i].name = classes'[j].name => i = j
    BY <1>1 DEF SymInv, NamesOK, DeclaredOK
  <2>2. /\ MethodNames' = IF e.kind = "method" THEN MethodNames \cup {n} ELSE MethodNames
        /\ ClassNames' = IF e.kind = "class" THEN ClassNames \cup {n} ELSE ClassNames
    BY <1>5, <1>8, <1>9
  <2>3. table["program"][n].kind = "none"
    BY <1>1
  <2>4. QED
    BY ONLY NamesOK, n \in Name, <1>6, <2>1, <2>2, <2>3, NameAdded
<1>11. OrderOK'
  BY <1>1, <1>2, OrderKept
<1>12. QED
  BY <1>10, <1>11

\* The type that a variable or an array declaration gives its name.
ListedFor(type) ==
    /\ type \in TypeSet
    /\ type.array => type \in Arrays'
    /\ type.home = "program" => type.name \in ClassNames
    /\ Arrays \subseteq Arrays' /\ Arrays' \subseteq Arrays \cup {type}
    /\ Len(arrayTypes) <= Len(arrayTypes')
    /\ \A p \in 1..Len(arrayTypes) : arrayTypes'[p] = arrayTypes[p]

LEMMA TypeChosen ==
    ASSUME SymInv, NEW t \in Name, NEW n \in Name, ResolvesToType(t),
           VarDecl(t, n) \/ ArrDecl(t, n)
    PROVE  \E type : ListedFor(type) /\ DefineValue(n, type)
<1>1. /\ Resolve(t).type \in TypeSet /\ Resolve(t).type.name = t
      /\ ~Resolve(t).type.array
      /\ Resolve(t).type.home = "program" => t \in ClassNames
  BY TypeFacts DEF SymInv
<1>2. CASE VarDecl(t, n)
  <2>1. DefineValue(n, Resolve(t).type) /\ UNCHANGED arrayTypes
    BY <1>2 DEF VarDecl
  <2>2. ListedFor(Resolve(t).type)
    BY <1>1, <2>1, Lengths DEF ListedFor, Arrays
  <2>3. QED
    BY <2>1, <2>2
<1>3. CASE ArrDecl(t, n)
  <2> DEFINE known == {a \in Arrays : a.name = t}
             new == [Resolve(t).type EXCEPT !.array = TRUE]
  <2>1. /\ arrayTypes' = IF known # {} THEN arrayTypes ELSE Append(arrayTypes, new)
        /\ DefineValue(n, IF known # {} THEN CHOOSE a \in known : TRUE ELSE new)
    BY <1>3 DEF ArrDecl, Arrays
  <2>2. CASE known # {}
    <3>1. PICK type \in known : type = CHOOSE a \in known : TRUE
      BY <2>2
    <3>2. DefineValue(n, type) /\ UNCHANGED arrayTypes
      BY <2>1, <2>2, <3>1
    <3>3. Arrays' = Arrays
      BY <3>2 DEF Arrays
    <3>4. type \in TypeSet /\ type \in Arrays
      <4>1. Arrays \subseteq TypeSet
        BY Lengths DEF Arrays, Elements
      <4>2. QED
        BY <3>1, <4>1
    <3>5. type.home = "program" => type.name \in ClassNames
      BY <3>4 DEF SymInv, ListOK
    <3> HIDE DEF known
    <3>6. ListedFor(type)
      BY <3>2, <3>3, <3>4, <3>5, Lengths DEF ListedFor
    <3>7. QED
      BY <3>2, <3>6
  <2>3. CASE known = {}
    <3>1. DefineValue(n, new) /\ arrayTypes' = Append(arrayTypes, new)
      BY <2>1, <2>3
    <3>2. new \in TypeSet /\ new.name = t /\ new.home = Resolve(t).type.home
      BY <1>1 DEF TypeSet
    <3> HIDE DEF new, known
    <3>3. /\ Len(arrayTypes) \in Nat /\ Len(arrayTypes') = Len(arrayTypes) + 1
          /\ \A p \in 1..Len(arrayTypes) : arrayTypes'[p] = arrayTypes[p]
          /\ Arrays' = Arrays \cup {new}
      BY <3>1, <3>2, Lengths, AppendFacts DEF Arrays
    <3>4. ListedFor(new)
      BY <1>1, <3>2, <3>3 DEF ListedFor
    <3>5. QED
      BY <3>1, <3>4
  <2>4. QED
    BY <2>2, <2>3
<1>4. QED
  BY <1>2, <1>3

\* The open class has one more field.
LEMMA FieldFacts ==
    ASSUME SymInv, CurrentScope = "class", NEW type \in TypeSet,
           classes' = [classes EXCEPT ![Len(classes)].fields = Append(@, type)]
    PROVE  /\ Len(classes) \in Nat \ {0} /\ SameClassNames
           /\ \A i \in 1..(Len(classes) - 1) : classes'[i] = classes[i]
           /\ Elements(classes'[Len(classes)].fields)
                = Elements(classes[Len(classes)].fields) \cup {type}
<1> DEFINE k == Len(classes)
           d == [classes[k] EXCEPT !.fields = Append(@, type)]
<1>1. classes # << >> /\ classes \in Seq(ClassRecord)
  BY Lengths DEF SymInv, WhereOK
<1>2. k \in Nat \ {0} /\ classes[k] \in ClassRecord
  BY <1>1, LastChanged
<1>3. /\ Append(classes[k].fields, type) \in Seq(TypeSet)
      /\ Elements(Append(classes[k].fields, type)) = Elements(classes[k].fields) \cup {type}
  <2>1. classes[k].fields \in Seq(TypeSet)
    BY <1>2 DEF ClassRecord
  <2>2. QED
    BY <2>1, AppendFacts
<1>4. /\ d \in ClassRecord /\ d.name = classes[k].name
      /\ d.fields = Append(classes[k].fields, type)
  BY <1>2, <1>3 DEF ClassRecord
<1>5. classes' = [classes EXCEPT ![k] = d]
  OBVIOUS
<1> HIDE DEF d
<1>6. Len(classes') = k /\ \A i \in 1..k : classes'[i] = IF i = k THEN d ELSE classes[i]
  <2>1. classes \in Seq(ClassRecord) /\ classes # << >> /\ d \in ClassRecord
    BY <1>1, <1>4
  <2>2. /\ Len([classes EXCEPT ![Len(classes)] = d]) = Len(classes)
        /\ \A i \in 1..Len(classes) :
             [classes EXCEPT ![Len(classes)] = d][i] = IF i = Len(classes) THEN d ELSE classes[i]
    BY ONLY <2>1, LastChanged
  <2>3. QED
    BY <1>5, <2>2
<1>7. k \in 1..k /\ \A i \in 1..(k - 1) : i \in 1..k /\ i # k
  BY <1>2
<1> HIDE DEF k
<1>8. SameClassNames
  BY <1>4, <1>6 DEF SameClassNames, k
<1>9. /\ \A i \in 1..(k - 1) : classes'[i] = classes[i]
      /\ Elements(classes'[k].fields) = Elements(classes[k].fields) \cup {type}
  BY <1>3, <1>4, <1>6, <1>7
<1>10. QED
  BY <1>2, <1>8, <1>9 DEF k

\* The method whose arguments are declared keeps its name.
LEMMA ArgumentFacts ==
    ASSUME SymInv, CurrentScope = "args", NEW type \in TypeSet,
           methods' = [methods EXCEPT ![Len(methods)].args = Append(@, type)]
    PROVE  SameMethodNames
<1> DEFINE k == Len(methods)
           d == [methods[k] EXCEPT !.args = Append(@, type)]
<1>1. methods # << >> /\ methods \in Seq(MethodRecord)
  BY Lengths DEF SymInv, WhereOK
<1>2. k \in Nat \ {0} /\ methods[k] \in MethodRecord
  BY <1>1, LastChanged
<1>3. Append(methods[k].args, type) \in Seq(TypeSet)
  <2>1. methods[k].args \in Seq(TypeSet)
    BY <1>2 DEF MethodRecord
  <2>2. QED
    BY <2>1, AppendFacts
<1>4. d \in MethodRecord /\ d.name = methods[k].name
  BY <1>2, <1>3 DEF MethodRecord
<1>5. methods' = [methods EXCEPT ![k] = d]
  OBVIOUS
<1> HIDE DEF d
<1>6. Len(methods') = k /\ \A i \in 1..k : methods'[i] = IF i = k THEN d ELSE methods[i]
  <2>1. methods \in Seq(MethodRecord) /\ methods # << >> /\ d \in MethodRecord
    BY <1>1, <1>4
  <2>2. /\ Len([methods EXCEPT ![Len(methods)] = d]) = Len(methods)
        /\ \A i \in 1..Len(methods) :
             [methods EXCEPT ![Len(methods)] = d][i] = IF i = Len(methods) THEN d ELSE methods[i]
    BY ONLY <2>1, LastChanged
  <2>3. QED
    BY <1>5, <2>2
<1>7. QED
  BY <1>4, <1>6 DEF SameMethodNames

LEMMA ValueDeclNames ==
    ASSUME SymInv, SymInv', NamesOK, OrderOK, ~failed', NEW t \in Name, NEW n \in Name,
           VarDecl(t, n) \/ ArrDecl(t, n)
    PROVE  NamesOK' /\ OrderOK'
<1>1. CASE ~ResolvesToType(t)
  BY <1>1, UnresolvedSame DEF VarDecl, ArrDecl
<1>2. CASE ResolvesToType(t)
  <2>1. PICK type : ListedFor(type) /\ DefineValue(n, type)
    BY <1>2, TypeChosen
  <2> DEFINE e == [kind |-> "var", type |-> type]
             k == Len(classes)
  <2>2. /\ Define(CurrentScope, n, e) /\ UNCHANGED scopes /\ CurrentScope' = CurrentScope
        /\ e.kind \in {"const", "var"}
    BY <2>1 DEF DefineValue, CurrentScope
  <2> HIDE DEF e
  <2>3. type \in TypeSet
    BY <2>1 DEF ListedFor
  <2>4. /\ CurrentScope = "class" =>
             classes' = [classes EXCEPT ![Len(classes)].fields = Append(@, type)]
        /\ CurrentScope # "class" => UNCHANGED classes
        /\ CurrentScope = "args" =>
             methods' = [methods EXCEPT ![Len(methods)].args = Append(@, type)]
        /\ CurrentScope # "args" => UNCHANGED methods
    BY <2>1 DEF DefineValue
  <2>5. SameClassNames /\ SameMethodNames
    <3>1. SameClassNames
      BY <2>3, <2>4, FieldFacts DEF SameClassNames
    <3>2. SameMethodNames
      BY <2>3, <2>4, ArgumentFacts DEF SameMethodNames
    <3>3. QED
      BY <3>1, <3>2
  <2>6. NamesOK'
    <3>1. CASE CurrentScope = "program"
      <4>1. UNCHANGED <<scopes, classes, methods>> /\ Define("program", n, e)
        BY <2>2, <2>4, <3>1
      <4>2. QED
        BY <2>2, <4>1, ValueNames
    <3>2. CASE CurrentScope # "program"
      <4>1. CurrentScope # "global"
        BY DEF VarDecl, ArrDecl, VarSection
      <4>2. table'["program"] = table["program"] /\ table'["global"] = table["global"]
        <5>1. "global" \in ScopeName /\ "program" \in ScopeName
          BY DEF ScopeName
        <5>2. QED
          BY <2>2, <3>2, <4>1, <5>1, Lengths, DefineFacts DEF SymInv
      <4>3. MethodNames' = MethodNames
        BY <2>2, <2>5, SameNames, Lengths
      <4>4. QED
        BY <2>5, <4>2, <4>3, NamesKept
    <3>3. QED
      BY <3>1, <3>2
  <2>7. /\ Len(arrayTypes) \in Nat /\ Len(arrayTypes') \in Nat
        /\ Len(arrayTypes) <= Len(arrayTypes')
        /\ \A p \in 1..Len(arrayTypes) : arrayTypes'[p] = arrayTypes[p]
        /\ arrayTypes' \in Seq(TypeSet) /\ k \in Nat
    <3>1. arrayTypes' \in Seq(TypeSet)
      BY DEF SymInv, ListOK
    <3>2. QED
      BY <2>1, <3>1, Lengths DEF ListedFor
  \* Classes that are closed.
  <2>8. ASSUME NEW i \in 1..k, classes'[i] = classes[i]
        PROVE  UsesInOrder(i, classes', arrayTypes')
    <3>1. UsesInOrder(i, classes, arrayTypes)
      BY DEF OrderOK
    <3>2. i \in Nat /\ i # 0 /\ \A j \in 1..i : j \in 1..k
      BY <2>7
    <3>3. \A j \in 1..i : classes'[j].name = classes[j].name
      BY <2>5, <3>2 DEF SameClassNames
    <3> HIDE DEF k
    <3>4. QED
      BY <2>7, <2>8, <3>1, <3>2, <3>3, OrderGrows
  <2>9. CASE CurrentScope # "class"
    <3>1. \A i \in 1..Len(classes') : i \in 1..k /\ classes'[i] = classes[i]
      BY <2>4, <2>9
    <3>2. OwnListed'
      BY <2>2, <2>9 DEF OwnListed
    <3> HIDE DEF k
    <3>3. QED
      BY <2>6, <2>8, <3>1, <3>2 DEF OrderOK
  <2>10. CASE CurrentScope = "class"
    <3>1. /\ k \in Nat \ {0} /\ Len(classes') = k
          /\ \A i \in 1..(k - 1) : classes'[i] = classes[i]
          /\ Elements(classes'[k].fields) = Elements(classes[k].fields) \cup {type}
      BY <2>3, <2>4, <2>5, <2>10, FieldFacts DEF SameClassNames
    <3>2. \A i \in 1..k : classes'[i].name = classes[i].name
      BY <2>5 DEF SameClassNames
    <3>3. k \in 1..k
      BY <3>1
    <3>4. \A b \in Arrays' : b \in Arrays \/ b = type
      BY <2>1 DEF ListedFor
    <3>5. \A b : b.home = "program" /\ b.name \in ClassNames => ~Later(b, classes, k)
      BY DEF Later, ClassNames
    <3>6. ~Later(type, classes, k)
      BY <2>1, <3>5 DEF ListedFor, Later
    <3>7. ASSUME NEW b \in Arrays'
          PROVE  ~Later(b, classes, k)
      <4>1. b \in Arrays => (b.home = "program" => b.name \in ClassNames)
        BY DEF SymInv, ListOK
      <4>2. b \in Arrays => ~Later(b, classes, k)
        BY <3>5, <4>1 DEF Later
      <4>3. QED
        BY <3>4, <3>6, <4>2
    <3>8. ASSUME NEW b \in Arrays', Own(b, classes', k)
          PROVE  b \in Elements(classes'[k].fields)
      <4>1. CASE b = type
        BY <3>1, <4>1
      <4>2. CASE b \in Arrays
        <5>1. Own(b, classes, k)
          BY <3>2, <3>3, <3>8 DEF Own
        <5>2. b \in Elements(classes[k].fields)
          BY <2>10, <4>2, <5>1 DEF OrderOK, OwnListed
        <5>3. QED
          BY <3>1, <5>2
      <4>3. QED
        BY <3>4, <4>1, <4>2
    <3>9. \A x \in Elements(classes'[k].fields) : x.array => x \in Arrays'
      <4>1. GoodTypes(classes'[k].fields, Arrays')
        BY <3>1, <3>3 DEF SymInv, ClassesOK
      <4>2. QED
        BY <4>1 DEF GoodTypes
    <3>10. UsesInOrder(k, classes', arrayTypes')
      <4>1. UsesInOrder(k, classes, arrayTypes)
        BY <3>3 DEF OrderOK
      <4>2. Arrays' = Elements(arrayTypes')
        BY DEF Arrays
      <4> HIDE DEF k
      <4>3. QED
        BY <2>7, <3>1, <3>2, <3>6, <3>7, <3>8, <3>9, <4>1, <4>2, OpenInOrder
    <3>11. OwnListed'
      BY <3>1, <3>8 DEF OwnListed
    <3>12. \A i \in 1..Len(classes') : i = k \/ (i \in 1..(k - 1) /\ i \in 1..k)
      BY <3>1
    <3> HIDE DEF k
    <3>13. \A i \in 1..Len(classes') : UsesInOrder(i, classes', arrayTypes')
      BY <2>8, <3>1, <3>10, <3>12
    <3>14. QED
      BY <2>6, <3>11, <3>13 DEF OrderOK
  <2>11. QED
    BY <2>9, <2>10
<1>3. QED
  BY <1>1, <1>2

-----------------------------------------------------------------------------
(* Names and types in order.                                               *)

TablesInv == SymInv /\ (~failed => NamesOK /\ OrderOK)

LEMMA TablesStep ==
    ASSUME TablesInv, NameAssumption, [SymNext]_symVars
    PROVE  TablesInv'
<1>1. SymInv'
  BY SymInvNext DEF TablesInv
<1>2. ASSUME ~failed' PROVE NamesOK' /\ OrderOK'
  <2>1. CASE UNCHANGED symVars
    <3>1. /\ UNCHANGED <<table, classes, methods, arrayTypes>> /\ UNCHANGED failed
          /\ CurrentScope' = CurrentScope
      BY <2>1 DEF symVars, CurrentScope
    <3>2. SymInv /\ NamesOK /\ OrderOK
      BY <1>2, <3>1 DEF TablesInv
    <3>3. QED
      BY <3>1, <3>2, QuietKeeps
  <2>2. CASE SymNext /\ ~UNCHANGED symVars
    <3>1. ~failed
      BY <2>2 DEF SymNext, Over, Running, EnterProgram, EnterClass, EnterMethod,
         DefineMethod, ConstDecl, VarDecl, ArrDecl, EnterArguments, LeaveClass,
         LeaveMethod, LeaveProgram
    <3>2. SymInv /\ NamesOK /\ OrderOK
      BY <3>1 DEF TablesInv
    <3>3. Identifier \subseteq Name
      BY DEF Identifier
    <3>4. ASSUME NEW n \in Identifier, EnterProgram(n) \/ EnterClass(n) \/ EnterMethod(n)
          PROVE  NamesOK' /\ OrderOK'
      BY <1>1, <1>2, <3>2, <3>3, <3>4, EnterProgramNames, EnterClassNames, EnterMethodNames
    <3>5. ASSUME NEW t \in Identifier, NEW n \in Identifier,
                 ConstDecl(t, n) \/ VarDecl(t, n) \/ ArrDecl(t, n)
          PROVE  NamesOK' /\ OrderOK'
      BY <1>1, <1>2, <3>2, <3>3, <3>5, ConstDeclNames, ValueDeclNames
    <3>6. ASSUME NEW r \in Name, EnterArguments(r) PROVE NamesOK' /\ OrderOK'
      BY <1>1, <1>2, <3>2, <3>6, EnterArgumentsNames
    <3>7. CASE LeaveClass \/ LeaveMethod \/ LeaveProgram
      BY <3>2, <3>7, LeaveSame
    <3>8. ~Over
      BY <2>2 DEF Over
    <3>9. QED
      BY <2>2, <3>4, <3>5, <3>6, <3>7, <3>8 DEF SymNext
  <2>3. QED
    BY <2>1, <2>2
<1>3. QED
  BY <1>1, <1>2 DEF TablesInv

LEMMA TablesInit == ASSUME NameAssumption PROVE SymInit => TablesInv
<1> SUFFICES ASSUME SymInit PROVE TablesInv
  OBVIOUS
<1>1. SymInv
  BY SymInvInit
<1>2. /\ scopes = <<"global">> /\ classes = << >> /\ methods = << >> /\ arrayTypes = << >>
      /\ table["global"] = GlobalTable
      /\ \A n \in Name : table["program"][n].kind = "none"
  BY DEF SymInit, ScopeName, EmptyTable, None
<1>3. CurrentScope = "global"
  BY <1>2 DEF CurrentScope
<1>4. ClassNames = {} /\ MethodNames = {}
  BY <1>2, <1>3, NoElements DEF ClassNames, MethodNames, Complete
<1>5. NamesOK
  BY <1>2, <1>4, NoElements DEF NamesOK, GlobalsOK, DeclaredOK
<1>6. OrderOK
  BY <1>2, <1>3, NoElements DEF OrderOK, OwnListed
<1>7. QED
  BY <1>1, <1>5, <1>6 DEF TablesInv

\* What is declared is in the table of its scope and in the vector of its kind,
\* and the array types are listed in an order that the classes can use.
THEOREM TablesInvariant == SymSpec => []TablesInv
<1>1. SymInit => TablesInv
  BY TablesInit, NameAssumption
<1>2. TablesInv /\ [SymNext]_symVars => TablesInv'
  BY TablesStep, NameAssumption
<1>3. QED
  BY <1>1, <1>2, PTL DEF SymSpec

\* Classes and array types are listed in the order that initTypes relies on,
\* for any declarations: the assumption of the module InitTypes is true of
\* every program that gets there.
THEOREM TypesInOrderInvariant == SymSpec => []TypesInOrder
<1>1. TablesInv => TypesInOrder
  BY OrderIsTypesInOrder DEF TablesInv, OrderOK
<1>2. QED
  BY <1>1, TablesInvariant, PTL

\* Where a name in the body of a method is found.
LEMMA HomeInMethod ==
    ASSUME CurrentScope = "method", NEW n
    PROVE  Home(n) = IF table["method"][n].kind # "none" THEN "method"
                     ELSE IF table["args"][n].kind # "none" THEN "args"
                     ELSE IF table["program"][n].kind # "none" THEN "program"
                     ELSE IF table["global"][n].kind # "none" THEN "global"
                     ELSE "none"
<1> DEFINE hits == {i \in 1..Len(Chain) : table[Chain[i]][n].kind # "none"}
           first == CHOOSE i \in hits : \A j \in hits : i <= j
<1>1. Chain = <<"method", "args", "program", "global">>
  BY DEF Chain
<1>2. /\ Len(Chain) = 4 /\ Chain[1] = "method" /\ Chain[2] = "args"
      /\ Chain[3] = "program" /\ Chain[4] = "global"
  BY <1>1
<1>3. Home(n) = IF hits = {} THEN "none" ELSE Chain[first]
  BY DEF Home
<1>4. /\ 1 \in hits <=> table["method"][n].kind # "none"
      /\ 2 \in hits <=> table["args"][n].kind # "none"
      /\ 3 \in hits <=> table["program"][n].kind # "none"
      /\ 4 \in hits <=> table["global"][n].kind # "none"
      /\ hits \in SUBSET (1..4)
  BY <1>2
<1> HIDE DEF hits
<1>5. hits # {} => first \in hits /\ \A j \in hits : first <= j
  BY <1>4, FirstOf
<1> HIDE DEF first
<1>6. hits # {} => first = IF 1 \in hits THEN 1 ELSE IF 2 \in hits THEN 2
                           ELSE IF 3 \in hits THEN 3 ELSE 4
  <2>1. \A i \in hits : i = 1 \/ i = 2 \/ i = 3 \/ i = 4
    BY <1>4
  <2>2. ASSUME hits # {} PROVE first \in hits /\ \A j \in hits : first <= j
    BY <1>5, <2>2
  <2>3. ASSUME hits # {}, 1 \in hits PROVE first = 1
    BY ONLY <2>1, <2>2, <2>3
  <2>4. ASSUME hits # {}, 1 \notin hits, 2 \in hits PROVE first = 2
    BY ONLY <2>1, <2>2, <2>4
  <2>5. ASSUME hits # {}, 1 \notin hits, 2 \notin hits, 3 \in hits PROVE first = 3
    BY ONLY <2>1, <2>2, <2>5
  <2>6. ASSUME hits # {}, 1 \notin hits, 2 \notin hits, 3 \notin hits PROVE first = 4
    BY ONLY <2>1, <2>2, <2>6
  <2>7. QED
    BY <2>3, <2>4, <2>5, <2>6
<1>7. hits = {} <=> 1 \notin hits /\ 2 \notin hits /\ 3 \notin hits /\ 4 \notin hits
  BY <1>4
<1>8. QED
  BY <1>2, <1>3, <1>4, <1>6, <1>7

\* The predefined names, by kind.
LEMMA Predefined ==
    ASSUME NEW n \in Name
    PROVE  /\ GlobalTable[n].kind = "method" <=> n \in BuiltinMethods
           /\ GlobalTable[n].kind = "const" <=> n \in BuiltinConstants
           /\ GlobalTable[n].kind # "var"
           /\ n \in BuiltinConstants => n \notin BuiltinMethods
BY DEF GlobalTable, Primitives, BuiltinMethods, BuiltinConstants, None

\* A name that the semantic pass resolves to a value is generated as that same
\* value, whatever hides or redefines what (NamedValueVisitor, Values::value).
THEOREM SameBindingInvariant == SymSpec => []SameBinding
<1>1. TablesInv => SameBinding
  <2> SUFFICES ASSUME TablesInv, NEW n \in Name, Names(n), ~Redeclares(n)
               PROVE  Value(n) = Home(n)
    BY DEF SameBinding
  <2>1. CurrentScope = "method" /\ ~failed /\ IsNamedValue(Resolve(n))
    BY DEF Names
  <2>2. NamesOK
    BY <2>1 DEF TablesInv
  <2>3. Home(n) = IF LocalValue(n) # "none" THEN LocalValue(n)
                  ELSE IF table["program"][n].kind # "none" THEN "program"
                  ELSE IF table["global"][n].kind # "none" THEN "global"
                  ELSE "none"
    BY <2>1, HomeInMethod DEF LocalValue
  <2>4. MethodNames = {methods[i].name : i \in 1..Len(methods)}
    BY <2>1 DEF MethodNames, Complete
  <2>5. (\E i \in 1..Len(methods) : methods[i].name = n)
          <=> table["program"][n].kind = "method"
    BY <2>2, <2>4 DEF NamesOK, DeclaredOK
  <2>6. CASE LocalValue(n) # "none"
    BY <2>3, <2>6 DEF Value
  <2>7. CASE LocalValue(n) = "none" /\ table["program"][n].kind # "none"
    <3>1. Home(n) = "program" /\ Resolve(n) = table["program"][n]
      BY <2>3, <2>7 DEF Resolve
    <3>2. table["program"][n].kind \in {"const", "var", "method"}
      BY <2>1, <3>1 DEF IsNamedValue
    <3>3. CASE table["program"][n].kind = "method"
      BY <2>5, <2>7, <3>1, <3>3 DEF Value, GlobalValue
    <3>4. CASE table["program"][n].kind \in {"const", "var"}
      <4>1. n \notin BuiltinMethods
        BY <3>4 DEF Redeclares
      <4>2. GlobalValue(n) = "program"
        BY <2>5, <3>4, <4>1 DEF GlobalValue
      <4>3. QED
        BY <2>7, <3>1, <4>2 DEF Value
    <3>5. QED
      BY <3>2, <3>3, <3>4
  <2>8. CASE LocalValue(n) = "none" /\ table["program"][n].kind = "none"
    <3>1. Home(n) = "global" /\ Resolve(n) = table["global"][n]
      BY <2>1, <2>3, <2>8 DEF Resolve, IsNamedValue, None
    <3>2. table["global"][n].kind \in {"const", "var", "method"}
      BY <2>1, <3>1 DEF IsNamedValue
    <3>3. table["global"][n] = GlobalTable[n]
      BY <2>2, <3>2 DEF NamesOK, GlobalsOK
    <3>4. n \in BuiltinMethods \/ n \in BuiltinConstants
      BY <3>2, <3>3, Predefined
    <3>5. ~\E i \in 1..Len(methods) : methods[i].name = n
      BY <2>5, <2>8
    <3>6. CASE n \in BuiltinMethods
      <4>1. GlobalValue(n) = "global"
        BY <3>5, <3>6 DEF GlobalValue
      <4>2. QED
        BY <2>8, <3>1, <4>1 DEF Value
    <3>7. CASE n \in BuiltinConstants
      <4>1. n \notin BuiltinMethods
        BY <3>7, Predefined
      <4>2. GlobalValue(n) = "global"
        BY <2>8, <3>5, <3>7, <4>1 DEF GlobalValue
      <4>3. QED
        BY <2>8, <3>1, <4>2 DEF Value
    <3>8. QED
      BY <3>4, <3>6, <3>7
  <2>9. QED
    BY <2>6, <2>7, <2>8
<1>2. QED
  BY <1>1, TablesInvariant, PTL

-----------------------------------------------------------------------------
(* What initTypes is given.                                                *)

\* Only array types are listed.
OnlyArrays == \A i \in 1..Len(arrayTypes) : arrayTypes[i].array

LEMMA OnlyArraysStep ==
    ASSUME SymInv, OnlyArrays, NameAssumption, [SymNext]_symVars
    PROVE  OnlyArrays'
<1>1. CASE UNCHANGED arrayTypes
  BY <1>1 DEF OnlyArrays
<1>2. ASSUME NEW t \in Name, NEW n \in Name, ArrDecl(t, n)
      PROVE  OnlyArrays'
  <2> DEFINE known == {a \in Elements(arrayTypes) : a.name = t}
             new == [Resolve(t).type EXCEPT !.array = TRUE]
  <2>1. CASE ~ResolvesToType(t) \/ known # {}
    BY <1>1, <1>2, <2>1 DEF ArrDecl, Unresolved
  <2>2. CASE ResolvesToType(t) /\ known = {}
    <3>1. arrayTypes' = Append(arrayTypes, new)
      BY <1>2, <2>2 DEF ArrDecl
    <3>2. new \in TypeSet /\ new.array
      BY <2>2, TypeFacts DEF SymInv, TypeSet
    <3>3. arrayTypes \in Seq(TypeSet)
      BY DEF SymInv, ListOK
    <3> HIDE DEF new
    <3>4. /\ Len(arrayTypes) \in Nat
          /\ Len(arrayTypes') = Len(arrayTypes) + 1
          /\ arrayTypes'[Len(arrayTypes) + 1] = new
          /\ \A i \in 1..Len(arrayTypes) : arrayTypes'[i] = arrayTypes[i]
      BY <3>1, <3>2, <3>3, AppendFacts
    <3>5. \A i \in 1..(Len(arrayTypes) + 1) : i \in 1..Len(arrayTypes) \/ i = Len(arrayTypes) + 1
      BY <3>4
    <3>6. QED
      BY <3>2, <3>4, <3>5 DEF OnlyArrays
  <2>3. QED
    BY <2>1, <2>2
<1>3. CASE UNCHANGED symVars
  BY <1>1, <1>3 DEF symVars
<1>4. ASSUME NEW n \in Name, EnterProgram(n) \/ EnterClass(n) \/ EnterMethod(n)
      PROVE  UNCHANGED arrayTypes
  BY <1>4 DEF EnterProgram, EnterClass, EnterMethod, DefineMethod
<1>5. ASSUME NEW t \in Name, NEW n \in Name, ConstDecl(t, n) \/ VarDecl(t, n)
      PROVE  UNCHANGED arrayTypes
  BY <1>5 DEF ConstDecl, VarDecl, Unresolved
<1>6. ASSUME NEW r \in Name, EnterArguments(r)
      PROVE  UNCHANGED arrayTypes
  BY <1>6 DEF EnterArguments, Unresolved
<1>7. CASE LeaveClass \/ LeaveMethod \/ LeaveProgram \/ Over
  BY <1>1, <1>7 DEF LeaveClass, LeaveMethod, LeaveProgram, Over, symVars
<1>8. QED
  BY <1>1, <1>2, <1>3, <1>4, <1>5, <1>6, <1>7 DEF SymNext, Identifier

\* The symbol table of the program as the module InitTypes sees it, the number N
\* of classes given: a class is its place in the list, and what is no class is
\* primitive.
ClassNumber(t) == IF t.home = "program"
                  THEN CHOOSE i \in 1..Len(classes) : classes[i].name = t.name
                  ELSE 0
FieldTypesOf(c) == {[of |-> ClassNumber(t), array |-> t.array] : t \in Elements(classes[c].fields)}

Making(N) == INSTANCE InitTypes WITH
    NumClasses <- N, MaxFields <- 2 * N + 2,
    fields <- [c \in 1..N |-> FieldTypesOf(c)],
    arrays <- [i \in 1..Len(arrayTypes) |-> ClassNumber(arrayTypes[i])],
    types <- {}, classIt <- 1, arrIt <- 1, structs <- {}

\* The order in which InitTypes starts is that of the symbol table.
ReadyForTypes == ~failed => \A N \in Nat : N = Len(classes) => Making(N)!DeclarationOrder

\* A class is numbered by its place, a class up to the c-th by no more than c.
LEMMA NumberFacts ==
    ASSUME SymInv, NamesOK, NEW t, NEW c \in 1..Len(classes), ~Later(t, classes, c)
    PROVE  /\ ClassNumber(t) \in 0..c
           /\ ClassNumber(t) = c => Own(t, classes, c)
<1>1. CASE t.home # "program"
  BY <1>1 DEF ClassNumber
<1>2. CASE t.home = "program"
  <2>1. PICK i \in 1..c : classes[i].name = t.name
    BY <1>2 DEF Later
  <2>2. Len(classes) \in Nat /\ i \in 1..Len(classes)
    BY DEF SymInv, ClassesOK
  <2>3. \A j \in 1..Len(classes) : classes[j].name = t.name => j = i
    BY <2>1, <2>2 DEF NamesOK, DeclaredOK
  <2>4. ClassNumber(t) = i
    BY <1>2, <2>1, <2>2, <2>3 DEF ClassNumber
  <2>5. QED
    BY <1>2, <2>1, <2>2, <2>4 DEF Own
<1>3. QED
  BY <1>1, <1>2

\* The symbol table of every program that is not given up lists its classes and
\* array types in the order that initTypes relies on: the states in which
\* InitTypes starts, and its theorems, are about the programs that Symbols
\* accepts.
THEOREM ReadyForTypesInvariant == SymSpec => []ReadyForTypes
<1>1. SymInit => OnlyArrays
  BY DEF SymInit, OnlyArrays
<1>2. SymInv /\ OnlyArrays /\ [SymNext]_symVars => OnlyArrays'
  BY OnlyArraysStep, NameAssumption
<1>3. TablesInv /\ OnlyArrays => ReadyForTypes
  <2> SUFFICES ASSUME TablesInv, OnlyArrays, ~failed, NEW N \in Nat, N = Len(classes)
               PROVE  Making(N)!DeclarationOrder
    BY DEF ReadyForTypes
  <2>1. SymInv /\ NamesOK /\ OrderOK
    BY DEF TablesInv
  <2> DEFINE arrays == [i \in 1..Len(arrayTypes) |-> ClassNumber(arrayTypes[i])]
             fields == [c \in 1..N |-> FieldTypesOf(c)]
  <2>2. Len(arrayTypes) \in Nat /\ Len(arrays) = Len(arrayTypes)
    BY <2>1 DEF SymInv, ListOK
  <2>3. ASSUME NEW c \in 1..N, NEW f \in FieldTypesOf(c)
        PROVE  /\ f.of <= c
               /\ f.array => \E p \in 1..Len(arrayTypes) :
                    /\ ClassNumber(arrayTypes[p]) = f.of
                    /\ \A q \in 1..p :
                         \/ ClassNumber(arrayTypes[q]) < c
                         \/ /\ ClassNumber(arrayTypes[q]) = c
                            /\ [of |-> c, array |-> TRUE] \in FieldTypesOf(c)
    <3>1. PICK t \in Elements(classes[c].fields) :
               f = [of |-> ClassNumber(t), array |-> t.array]
      BY <2>3 DEF FieldTypesOf
    <3>2. /\ ~Later(t, classes, c)
          /\ t.array => \E p \in 1..Len(arrayTypes) :
                /\ arrayTypes[p] = t
                /\ \A q \in 1..p :
                     /\ ~Later(arrayTypes[q], classes, c)
                     /\ Own(arrayTypes[q], classes, c) => arrayTypes[q] \in Elements(classes[c].fields)
      BY <2>1, <3>1 DEF OrderOK, UsesInOrder
    <3>3. f.of <= c
      BY <2>1, <3>1, <3>2, NumberFacts
    <3>4. ASSUME f.array
          PROVE  \E p \in 1..Len(arrayTypes) :
                    /\ ClassNumber(arrayTypes[p]) = f.of
                    /\ \A q \in 1..p :
                         \/ ClassNumber(arrayTypes[q]) < c
                         \/ /\ ClassNumber(arrayTypes[q]) = c
                            /\ [of |-> c, array |-> TRUE] \in FieldTypesOf(c)
      <4>1. PICK p \in 1..Len(arrayTypes) :
               /\ arrayTypes[p] = t
               /\ \A q \in 1..p :
                     /\ ~Later(arrayTypes[q], classes, c)
                     /\ Own(arrayTypes[q], classes, c) => arrayTypes[q] \in Elements(classes[c].fields)
        BY <3>1, <3>2, <3>4
      <4>2. ASSUME NEW q \in 1..p, ~(ClassNumber(arrayTypes[q]) < c)
            PROVE  /\ ClassNumber(arrayTypes[q]) = c
                   /\ [of |-> c, array |-> TRUE] \in FieldTypesOf(c)
        <5>1. /\ ClassNumber(arrayTypes[q]) \in 0..c
              /\ ClassNumber(arrayTypes[q]) = c => Own(arrayTypes[q], classes, c)
          BY <2>1, <4>1, NumberFacts
        <5>2. ClassNumber(arrayTypes[q]) = c
          BY <4>2, <5>1
        <5>3. arrayTypes[q] \in Elements(classes[c].fields)
          BY <4>1, <5>1, <5>2
        <5>4. arrayTypes[q].array = TRUE
          <6>1. q \in 1..Len(arrayTypes)
            BY <2>2
          <6>2. arrayTypes[q] \in TypeSet
            BY <2>1, <6>1 DEF SymInv, ListOK
          <6>3. QED
            BY <6>1, <6>2 DEF OnlyArrays, TypeSet
        <5>5. QED
          BY <5>2, <5>3, <5>4 DEF FieldTypesOf
      <4>3. QED
        BY <3>1, <4>1, <4>2
    <3>5. QED
      BY <3>3, <3>4
  <2>4. QED
    BY <2>2, <2>3 DEF Making!DeclarationOrder, Making!Class, Making!SelfArray, Making!ArrayOf
<1>4. QED
  BY <1>1, <1>2, <1>3, SymInvariant, TablesInvariant, PTL DEF SymSpec
=============================================================================
