CONSTANTS
    NumClasses = 1
    MaxFields = 1
SPECIFICATION FairInitTypesSpec
PROPERTIES
    ReadyForCodegen
