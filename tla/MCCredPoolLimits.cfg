\* Two keys under a soft request limit and a token cap, one sticky session,
\* two concurrent attempts, round robin.
SPECIFICATION Spec
CONSTANTS
    N = 2
    Attempts = {a1, a2}
    Sessions = {s1}
    NoSession = NoSession
    Strategy = "round_robin"
    Batch = 1
    Threshold = 1
    Cooldown = 1
    Tiers <- MCShortTier
    OverloadPark = 1
    RetryAfters = {0}
    OutcomeKinds = {"answered", "rejected", "error"}
    SourceFails = FALSE
    RateLimit = 3
    SoftLimit = 1
    TpmLimit = 1
    TokenSizes = {0, 1}
    Window = 0
    StickyTTL = 1
    AffinityPrune = 0
    Persist = FALSE
SYMMETRY MCSymmetry
PROPERTIES RefusedOnlyWhenAllParked ParkedNotSelected RotatesBeforeLimit StickyUntilIneligible
