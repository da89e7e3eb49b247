CONSTANTS
    NumClasses = 3
    MaxFields = 2
SPECIFICATION FairInitTypesSpec
INVARIANTS
    InitTypesOK
    NeverStuck
    AllTypesMade
    SelfArrayHangs
PROPERTIES
    Terminates
    ImplementsResolution
