CONSTANTS
    MaxEvents = 8
    MaxBlock = 25
    MaxSimple = 8
    MaxDepth = 8
SPECIFICATION PipeSpec
INVARIANTS
    PipeTypeOK
    BreakVisitorAlive
    AcceptedBreaks
    BreakHasTarget
    GeneratorFollowsSource
    AcceptedReturns
PROPERTIES
    BreakReported
