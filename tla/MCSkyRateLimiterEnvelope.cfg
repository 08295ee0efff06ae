SPECIFICATION Spec
CONSTANTS
    Eids = {e1}
    Amounts = {1, 3}
    Configs <- MCConfigs
    MaxUint = 8
    MaxTime = 4
    MaxUsed = 4
CHECK_DEADLOCK FALSE
INVARIANTS
    TypeOK
    UsageAccounted
    Envelope
PROPERTIES
    NoRetroactiveDecay
    TimeOnlyFreesCapacity
    ResetUnblocks
