CONSTANTS
    MaxEvents = 4
    MaxBlock = 25
    MaxSimple = 8
    MaxDepth = 8
SPECIFICATION PipeSpec
INVARIANT
    ValueMethodsReturn
