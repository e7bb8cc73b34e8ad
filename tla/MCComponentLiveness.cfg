SPECIFICATION ComponentFairSpec
CONSTANTS
    Key = {k1, k2}
    Component = {c1}
    Coord = {n1, n2}
    Caller = {x1, x2}
    None = None
    Use = {"authorize", "refresh", "revoke", "revokeById"}
    MaximumToken = 2
    MaximumFailures = 0
    MaximumCrashes = 0
    MaximumCancels = 0
PROPERTIES
    CallsEnd
CHECK_DEADLOCK FALSE
