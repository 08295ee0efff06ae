SPECIFICATION Spec
CONSTANTS
    NONE = NONE
    MaxU64 = 7
    Amounts = {3}
    LimitChoices <- MCLimitChoices
    MaxTime = 3
CHECK_DEADLOCK FALSE
INVARIANTS
    TypeOK
PROPERTIES
    ImplementsBuckets
