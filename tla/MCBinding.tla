----------------------------- MODULE MCBinding ------------------------------
\* Binding over identifiers that can hide one another.
EXTENDS Binding
=============================================================================
