SPECIFICATION Spec
CONSTANTS
    None = None
    Pin = "pinned"
    MaximumAge = 2
    MaximumClock = 3
    MaximumRuns = 2
    MaximumMishaps = 2
    Commit <- Commits
    Edit <- Edits
    Request <- Requests
    Report <- Reports
    Directory <- Directories
    Signatures <- SignatureFiles
    Advisory <- Advisories
INVARIANTS  PromotionIsRequested PromotionFresh   SignedByPinned
