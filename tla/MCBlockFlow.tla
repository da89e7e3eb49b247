---------------------------- MODULE MCBlockFlow -----------------------------
\* BlockFlow on small methods.
EXTENDS BlockFlow
=============================================================================
