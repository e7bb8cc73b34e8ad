SPECIFICATION RootSpec
CONSTANTS
    Key = {k1}
    Serial = {s1, s2}
    Coord = {c1, c2}
    Task = {t1, t2}
    Caller = {x1, x2}
    None = none
    MaxStorageFailures = 1
    MaxCrashes = 1
    MaxKeyRejections = 0
    Operations = {"use", "refresh"}
    Gateway = {"fail"}
SYMMETRY Interchangeable
INVARIANTS
    ReplayOnlyAfterLoss

    
CHECK_DEADLOCK FALSE
