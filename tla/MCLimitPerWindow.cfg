SPECIFICATION Spec
CONSTANTS
    Eids = {e1}
    Amounts = {0, 1, 3}
    Configs <- MCConfigs
    MaxUint = 40
    MaxTime = 4
    MaxUsed = 6
CHECK_DEADLOCK FALSE
INVARIANTS
    LimitIsMaximumPerWindow
