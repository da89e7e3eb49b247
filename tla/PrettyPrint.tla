---------------------------- MODULE PrettyPrint -----------------------------
(***************************************************************************)
(* mjc -t ast: pretty_print (src/src/parser/ast-prettyprint.cpp) over      *)
(* AstWalker (parser.cpp:122-185).                                         *)
(*                                                                         *)
(* The tree is met in the order of the walk.  A node is special (its token *)
(* is in special_tokens; only BLOCK may have no children), inner (another  *)
(* token, with children) or a leaf.  A leaf prints a blank and its text,   *)
(* and the text of a character literal may be any printable character, the *)
(* blank included (MicroJava.g:171-172).  A tree without a root, for which *)
(* the visitor prints no parentheses (16-20), only comes from the error    *)
(* recovery of the parser and is left out.                                 *)
(***************************************************************************)
EXTENDS Naturals, Sequences, SequencesExt

CONSTANT Text   \* the texts of leaves

ASSUME TextAssumption == Text \cap {"special", "inner", "close"} = {}

Blank == "blank"   \* the character ' '

Unreadable == {"(", ")", Blank}

VARIABLES
    tree,      \* the events of the walk so far
    nodes,     \* AstWalker::stack, with what is left to do in each visitor
    text       \* what has been written

printVars == <<tree, nodes, text>>

INDENT_INC == 2

\* An item of the text: a new line and its blanks, a blank, or a piece without
\* any.
Line(n) == [is |-> "line", by |-> n]
Piece(s) == [is |-> "piece", by |-> s]

Node == [kind : {"special", "inner"}, indent : Nat, children : Nat]

PrintTypeOK ==
    /\ tree \in Seq({"special", "inner", "close"} \cup Text)
    /\ nodes \in Seq(Node)
    /\ \A i \in DOMAIN text : text[i].is \in {"line", "piece"}

PrintInit == tree = << >> /\ nodes = << >> /\ text = << >>

\* Mutant of NodeIndent: every child gets the indentation of the first.
NodeIndentFirst ==
    IF nodes = << >> THEN 0
    ELSE IF Last(nodes).kind = "special" THEN Last(nodes).indent + 2 * INDENT_INC
    ELSE Last(nodes).indent

\* What the parent leaves in the data of the node that it visits next: the
\* address of one of its own locals.
NodeIndent ==
    IF nodes = << >> THEN 0
    ELSE LET p == Last(nodes)
         IN  IF p.kind = "inner" THEN p.indent
             ELSE p.indent + INDENT_INC * (IF p.children = 0 THEN 2 ELSE 1)

\* What the parent writes before it.
Before == IF nodes # << >> /\ Last(nodes).kind = "special" /\ Last(nodes).children > 0
          THEN <<Line(NodeIndent)>> ELSE << >>

Counted == IF nodes = << >> THEN << >>
           ELSE [nodes EXCEPT ![Len(nodes)].children = @ + 1]

\* A visit is due: of the root, or of a child.
VisitDue == tree = << >> \/ nodes # << >>

\* PrintSpecialVisitor, or PrintVisitor with children, up to the first child.
OpenNode(kind) ==
    /\ VisitDue
    /\ text' = text \o Before \o <<IF kind = "special" THEN Line(NodeIndent) ELSE Piece(Blank),
                                    Piece("("), Piece(kind)>>
    /\ nodes' = Append(Counted, [kind |-> kind, indent |-> NodeIndent, children |-> 0])
    /\ tree' = Append(tree, kind)

\* Mutant of Leaf: no blank is printed.
LeafUnseparated(w) ==
    /\ nodes # << >>
    /\ text' = text \o Before \o <<Piece(w)>>
    /\ nodes' = Counted
    /\ tree' = Append(tree, w)

\* PrintVisitor without children.
Leaf(w) ==
    /\ nodes # << >>
    /\ text' = text \o Before \o <<Piece(Blank), Piece(w)>>
    /\ nodes' = Counted
    /\ tree' = Append(tree, w)

\* Mutant of CloseNode: the loop over the children starts behind the first, so
\* that without any it never meets the end.
CloseNodeAfterFirst ==
    /\ nodes # << >>
    /\ Last(nodes).children > 0
    /\ text' = Append(text, Piece(")"))
    /\ nodes' = Front(nodes)
    /\ tree' = Append(tree, "close")

\* The rest of the visitor, after the last child.
CloseNode ==
    /\ nodes # << >>
    /\ Last(nodes).kind = "inner" => Last(nodes).children > 0
    /\ text' = Append(text, Piece(")"))
    /\ nodes' = Front(nodes)
    /\ tree' = Append(tree, "close")

\* One more event of a walk with at most max of them.
Walk(max) ==
    \/ \E kind \in {"special", "inner"} :
          Len(tree) + Len(nodes) + (IF kind = "inner" THEN 3 ELSE 2) <= max /\ OpenNode(kind)
    \/ \E w \in Text : Len(tree) + Len(nodes) + 1 <= max /\ Leaf(w)
    \/ CloseNode

Printed == tree # << >> /\ nodes = << >>

-----------------------------------------------------------------------------
\* What a reader who takes lines and blanks for separators makes of the text:
\* "(" and the word after it open a node, any other word is a leaf, and words
\* that nothing separates run together.
Open == <<"open">>

IsWord(item) == item.is = "piece" /\ item.by \notin Unreadable

ReadItem(r, before, item) ==
    IF item.is = "line" \/ item.by = Blank THEN r
    ELSE IF r # << >> /\ Last(r) = Open THEN Append(Front(r), <<"node", item.by>>)
    ELSE IF IsWord(before) /\ IsWord(item) THEN Append(Front(r), <<"glued">>)
    ELSE Append(r, CASE item.by = "(" -> Open
                     [] item.by = ")" -> <<"close">>
                     [] OTHER -> <<"leaf", item.by>>)

ItemBefore(t, i) == IF i = 1 THEN Line(0) ELSE t[i - 1]

Read(t) == LET read[i \in 0..Len(t)] ==
                 IF i = 0 THEN << >> ELSE ReadItem(read[i - 1], ItemBefore(t, i), t[i])
           IN  read[Len(t)]

Walked == [i \in DOMAIN tree |->
              CASE tree[i] \in {"special", "inner"} -> <<"node", tree[i]>>
                [] tree[i] = "close" -> <<"close">>
                [] OTHER -> <<"leaf", tree[i]>>]

\* Such a reader gets back what was printed, node by node, unless a character
\* literal is a parenthesis or a blank: these are printed as they are, and
\* taken for structure or not seen, and then never read as the tree is.
ReadsBack ==
    Printed => (Read(text) = Walked <=> \A i \in DOMAIN tree : tree[i] \notin Unreadable)

\* The nodes around the k-th event.
Above(k) == LET open(j) == Cardinality({i \in 1..j : tree[i] \in {"special", "inner"}})
                           - Cardinality({i \in 1..j : tree[i] = "close"})
            IN  {i \in 1..(k - 1) : tree[i] \in {"special", "inner"}
                                     /\ \A j \in i..(k - 1) : open(j) >= open(i)}

\* A special node starts a line, moved in by two blanks for every special
\* node around it, and by two more where it is in the first child of one:
\* ordinary nodes in between do not count.
IndentFollowsNesting ==
    tree # << >> /\ Last(tree) = "special" =>
        LET k == Len(tree)
            special == {i \in Above(k) : tree[i] = "special"}
            first == {i \in special : i + 1 = k \/ i + 1 \in Above(k)}
        IN  text[Len(text) - 2] = Line(2 * Cardinality(special) + 2 * Cardinality(first))
=============================================================================
