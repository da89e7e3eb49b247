---------------------------- MODULE Compilation -----------------------------
(***************************************************************************)
(* What a makefile may rely on, one mjc after the other: a complete output *)
(* of a program appears only when a process that has read this program     *)
(* closes it, and only where no complete output of the same type is left.  *)
(* In particular an output is never replaced by that of another program    *)
(* without having been gone in between, and nothing else destroys it.      *)
(* (executeCodegen, src/src/codegen/codegen.cpp:200-225)                   *)
(***************************************************************************)
CONSTANT Job   \* a type of output and a program: records with fields type and of

VARIABLES
    made,      \* the complete outputs
    working    \* the job of the running process, if there is one

CompilationInit == made = {} /\ working = {}

Begin ==
    /\ working = {}
    /\ UNCHANGED made
    /\ \E j \in Job : working' = {j}

Discard ==
    /\ \E j \in working : made' = {m \in made : m.type # j.type}
    /\ UNCHANGED working

Deliver ==
    /\ \A j \in working : \A m \in made : m.type # j.type
    /\ made' = made \cup working
    /\ working' = {}

GiveUp ==
    /\ working' = {}
    /\ UNCHANGED made

CompilationNext == Begin \/ Discard \/ Deliver \/ GiveUp

CompilationSpec == CompilationInit /\ [][CompilationNext]_<<made, working>>
=============================================================================
