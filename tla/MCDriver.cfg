CONSTANTS
    Word <- MCWord
    Numeral <- MCNumeral
    Argvs <- MCArgvs
    Path = {"p.mj", "p.ast", "p.ll", "p.bc", "p.s", "p.o"}
    Source = "p.mj"
    Fate = {"accepted", "rejected", "undefined", "endless", "malformed"}
    MaxRuns = 2
    MaxEdits = 1
    Text = {"x", "(", "blank"}
    MaxTree = 6
SPECIFICATION FairDriverSpec
INVARIANTS
    DriverTypeOK
    ArgumentsDecide
    LevelsAgree
    CodeWasAccepted
    ReadsBack
    IndentFollowsNesting
PROPERTIES
    SuccessMeansOutput
    FailureLeavesNoWrongOutput
    ImplementsCompilation
    RunEnds
