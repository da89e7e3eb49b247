--------------------------- MODULE MCExpressions ----------------------------
EXTENDS Expressions

\* chr and len of the universe, a procedure, and cons of example.mj.
MCPrototype == {"chr", "len", "proc", "cons"}
MCClass == {"List"}
MCArgTypes ==
    [p \in MCPrototype |->
       CASE p = "chr"  -> <<[kind |-> "plain", of |-> "int"]>>
         [] p = "len"  -> <<[kind |-> "plain", of |-> "anyarray"]>>
         [] p = "proc" -> << >>
         [] p = "cons" -> <<[kind |-> "plain", of |-> "int"], [kind |-> "plain", of |-> "List"]>>]
MCReturnType ==
    [p \in MCPrototype |->
       [kind |-> "plain",
        of   |-> CASE p = "chr"  -> "char"
                   [] p = "len"  -> "int"
                   [] p = "proc" -> "void"
                   [] p = "cons" -> "List"]]
=============================================================================
