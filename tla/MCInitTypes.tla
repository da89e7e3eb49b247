---------------------------- MODULE MCInitTypes -----------------------------
\* InitTypes on programs of up to three classes.
EXTENDS InitTypes
=============================================================================
