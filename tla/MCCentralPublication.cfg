SPECIFICATION FairSpec
CONSTANTS
    OneBuild = r1
    OtherBuild = r2
    OneSigning = s1
    OtherSigning = s2
    OneKey = k1
    OneCommit = c1
    Build = {r1, r2}
    Signing = {s1, s2}
    Key = {k1}
    Commit = {c1}
    Supplied <- Workspaces
    Job = {j1, j2}
    MaximumUploads = 2
    Mishap = {"overlap", "lag", "lost answer", "invalid", "crash", "lost record", "rebuild"}
    MaximumMishaps = 2
    None = None
    Torn = Torn
INVARIANTS
    OneRequested
    OneUpload
    StatusIsTruth
    CompleteIsReviewed

    
CHECK_DEADLOCK FALSE
