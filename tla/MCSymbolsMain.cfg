CONSTANTS
    Name = {"int", "void", "A", "main"}
    MaxDecls = 3
SPECIFICATION SymSpec
INVARIANT
    MainIsVoidWithoutArguments
