------------------------------ MODULE MCDriver ------------------------------
(* The driver with one stem, three kinds of output and short command lines. *)
EXTENDS Driver, TLC

MCWord == {"-h", "-t", "-O", "llvm", "ast", "7", "p.mj", "p.ll", "", "1", "3"}
Short == MCWord \ {"1", "3"}
MCNumeral == ("1" :> 1) @@ ("2" :> 2) @@ ("3" :> 3) @@ ("7" :> 7)

\* All command lines of mjc with up to three of the shorter list of words, some
\* with other levels or with four words, and those of mji with up to two.
Lines(tool, words, lengths) == {<<tool>> \o a : a \in UNION {[1..n -> words] : n \in lengths}}

MCArgvs == Lines("mjc", Short, 0..3)
           \cup Lines("mjc", {"-O", "1", "3", "p.mj"}, {3})
           \cup Lines("mjc", {"-h", "-O", "llvm", "p.mj"}, {4})
           \cup Lines("mji", {"-h", "-t", "p.mj"}, 0..2)
=============================================================================
