SPECIFICATION RootSpec
CONSTANTS
    Key = {k1, k2}
    Serial = {s1}
    Coord = {c1, c2}
    Task = {t1, t2}
    Caller = {x1}
    None = none
    MaxStorageFailures = 0
    MaxCrashes = 0
    MaxKeyRejections = 1
    Operations = {"use", "mark", "close", "revoke"}
    Gateway = {"nonce", "renew", "ban"}
SYMMETRY Interchangeable
INVARIANTS
    LifecycleInv
    WipedStaysWiped
PROPERTIES
    KeyLeavesOnlyRetired
    VaultPromise
    
CHECK_DEADLOCK FALSE
