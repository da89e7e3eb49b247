CONSTANTS
    MaxBlock = 10
    MaxSimple = 2
SPECIFICATION FlowSpec
INVARIANTS
    TypeOK
    BlocksTerminated
    BlocksAttachedOnce
    BranchTargets
    InnermostBreak
    LiveIffReachable
    OneTerminator
PROPERTIES
    SlotOnlyOffTheEnd
