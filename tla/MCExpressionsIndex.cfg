CONSTANTS
    Class <- MCClass
    Prototype <- MCPrototype
    ArgTypes <- MCArgTypes
    ReturnType <- MCReturnType
    MaxOperands = 3
SPECIFICATION ExprSpec
INVARIANT
    NamesAreDeclared
