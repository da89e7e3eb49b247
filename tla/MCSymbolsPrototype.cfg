CONSTANTS
    Name = {"int", "char", "void", "A", "main"}
    MaxDecls = 4
SPECIFICATION SymSpec
INVARIANT
    MethodTypesGenerated
