SPECIFICATION FairSpec
CONSTANTS
    LastAsset = 2
    Build = {b1, b2}
    TagObject = {t1, t2, t3}
    Promoted = {t1, t2}
    Invocation = {draft, final}
    Drafting = {draft}
    Mishap = {"crash", "lost answer", "broken upload", "torn proof", "moved tag", "policy", "edit"}
    MaximumMishaps = 2
    None = None
    Partial = Partial
    Torn = Torn
    Foreign = Foreign
INVARIANTS
    SuccessIsExact
    VerifiedRelease
    FrozenFromOneBuild
    GuardClaimedOnce
PROPERTIES
    ResumedUnlessObstructed
CHECK_DEADLOCK FALSE
