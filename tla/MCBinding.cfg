CONSTANTS
    Name = {"int", "void", "eol", "len", "main"}
    MaxDecls = 5
SPECIFICATION SymSpec
INVARIANTS
    SymTypeOK
    ArrayTypesListed
    MethodTypesListed
    SameBinding
    TypesInOrder
