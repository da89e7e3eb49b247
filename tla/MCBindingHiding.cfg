CONSTANTS
    Name = {"int", "void", "len", "main"}
    MaxDecls = 3
SPECIFICATION SymSpec
INVARIANT
    InnerScopeHides
