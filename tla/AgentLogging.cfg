SPECIFICATION Spec
CONSTANTS
    Names <- MCNames
    Before <- MCBefore
    Settings <- MCSettings
    Severities = {10, 30}
    MaxRecords = 4
    MaxConfigs = 3
INVARIANTS
    TypeOK
    LevelsFollow
    OnceInOrder
PROPERTIES
    Drains
    ShutdownReturns
    ImplementsPipe
\* The process really exits.
CHECK_DEADLOCK FALSE
