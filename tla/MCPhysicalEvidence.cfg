SPECIFICATION Spec
CONSTANTS
    None = None
    MaxValidity = 2
    ClockSkew = 1
    RunLimit = 2
    PromptLimit = 1
    GrantLife = 1
    Offer <- Offers
    Pins <- PinSets
    Binary <- Binaries
    Outcome <- Outcomes
    MaximumAttempts = 2
    MaximumClock = 3
    MaximumMishaps = 2
INVARIANTS
    SealedIsOneRun
    SealedRanOnPinned
    SealedWithinValidity
    LatePipeRevivesNothing
CHECK_DEADLOCK FALSE
