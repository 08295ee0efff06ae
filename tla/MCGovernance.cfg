SPECIFICATION FairSpec
CONSTANTS
    NONE = NONE
    pauseProxy = pauseProxy
    spell = spell
    contract = contract
    program = program
    Callers = {pauseProxy, spell}
    EvmTargets = {contract}
    SolanaTargets = {program}
    Wide = {program}
    MaxMessages = 2
CHECK_DEADLOCK FALSE
INVARIANTS
    TypeOK
    OriginClearOutside
PROPERTIES
    ImplementsCalls
    Delivered
