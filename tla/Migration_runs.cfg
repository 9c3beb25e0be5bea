CONSTANTS
    Scripts <- MCScripts
    NoFile = NoFile
    Torn = Torn
    MaxRows = 3
    MaxRuns = 6
SPECIFICATION Spec
INVARIANTS
    TypeOK
    OnlyPrefixOrAll
PROPERTIES
    DryAndRollbackKeepContent
CHECK_DEADLOCK FALSE
