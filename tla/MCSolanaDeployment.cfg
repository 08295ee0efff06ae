SPECIFICATION Spec
CONSTANTS
    NONE = NONE
    wallet = wallet
    usds = usds
    Minters = {wallet}
    Wallet = wallet
    Token = usds
    TokenAuthority = NONE
    MaxTasks = 3
    MaxMints = 1
    MaxRunning = 2
CHECK_DEADLOCK FALSE
INVARIANTS
    TypeOK
    StoreKeepsMinting
    HandedOverTogether
    FileIsDeployed
PROPERTY
    AuthoritiesMoved
