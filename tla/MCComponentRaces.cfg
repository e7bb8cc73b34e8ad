SPECIFICATION ComponentSpec
CONSTANTS
    Key = {k1, k2}
    Component = {c1, c2}
    Coord = {n1, n2}
    Caller = {x1, x2}
    None = None
    Use = {"authorize", "refresh", "revoke", "revokeById"}
    MaximumToken = 2
    MaximumFailures = 0
    MaximumCrashes = 0
    MaximumCancels = 0
SYMMETRY Interchangeable
INVARIANTS
    ComponentInv
    RevokedGone
PROPERTIES
    ComponentKeySpared
    
CHECK_DEADLOCK FALSE
