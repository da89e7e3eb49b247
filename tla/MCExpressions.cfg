CONSTANTS
    Class <- MCClass
    Prototype <- MCPrototype
    ArgTypes <- MCArgTypes
    ReturnType <- MCReturnType
    MaxOperands = 3
SPECIFICATION ExprSpec
INVARIANTS
    ExprTypeOK
    ValuesHaveTheirType
    NumbersAreNotCast
    LookupsSucceed
