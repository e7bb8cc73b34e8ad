SPECIFICATION IntegrityFairSpec
CONSTANTS
    Attestation = {a1, a2}
    MaximumAttempts = 3
INVARIANTS
    IntegrityInv
    OnlyRefusedReplaced
    ExhaustedSawTwo
PROPERTIES
    AttestationsEnd
CHECK_DEADLOCK FALSE
