SPECIFICATION ComponentSpec
CONSTANTS
    Key = {k1}
    Component = {c1}
    Coord = {n1, n2}
    Caller = {x1, x2}
    None = None
    Use = {"open", "authorize", "refresh", "clear", "family", "revokeById", "operator"}
    MaximumToken = 3
    MaximumFailures = 1
    MaximumCrashes = 1
    MaximumCancels = 1
SYMMETRY Interchangeable
INVARIANTS
    
    Tracked
CHECK_DEADLOCK FALSE
