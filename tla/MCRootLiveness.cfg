SPECIFICATION RootFairSpec
CONSTANTS
    Key = {k1}
    Serial = {s1}
    Coord = {c1}
    Task = {t1, t2}
    Caller = {x1, x2}
    None = none
    MaxStorageFailures = 0
    MaxCrashes = 0
    MaxKeyRejections = 0
    Operations = {"use", "clear", "mark"}
    Gateway = {"fail"}
PROPERTIES
    CallsReturn
    
CHECK_DEADLOCK FALSE
