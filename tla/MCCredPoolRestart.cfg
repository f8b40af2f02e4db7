\* One key, two concurrent attempts, every outcome, the prober, the health
\* snapshot and restarts at any moment, under fairness.
SPECIFICATION FairSpec
CONSTANTS
    N = 1
    Attempts = {a1, a2}
    Sessions = {}
    NoSession = NoSession
    Strategy = "fallback"
    Batch = 1
    Threshold = 2
    Cooldown = 2
    Tiers <- MCTiers
    OverloadPark = 1
    RetryAfters = {0}
    OutcomeKinds = {"answered", "rejected", "unsent", "deadline", "error", "rateLimit",
                    "overload"}
    SourceFails = TRUE
    RateLimit = 0
    SoftLimit = 0
    TpmLimit = 0
    TokenSizes = {}
    Window = 0
    StickyTTL = 0
    AffinityPrune = 0
    Persist = TRUE
PROPERTIES EscalationOutlastsFailures EveryKeyComesBack
