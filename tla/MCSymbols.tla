----------------------------- MODULE MCSymbols ------------------------------
\* Symbols over small sets of identifiers.
EXTENDS Symbols
=============================================================================
