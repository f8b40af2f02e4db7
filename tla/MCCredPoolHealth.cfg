\* Two keys, two concurrent attempts, every outcome, failing sources and the
\* prober under least_requests: in-flight accounting.
SPECIFICATION Spec
CONSTANTS
    N = 2
    Attempts = {a1, a2}
    Sessions = {}
    NoSession = NoSession
    Strategy = "least_requests"
    Batch = 1
    Threshold = 2
    Cooldown = 1
    Tiers <- MCTiers
    OverloadPark = 1
    RetryAfters = {0}
    OutcomeKinds = {"answered", "rejected", "unsent", "deadline", "error", "rateLimit",
                    "overload"}
    SourceFails = TRUE
    RateLimit = 0
    SoftLimit = 0
    TpmLimit = 0
    TokenSizes = {}
    Window = 0
    StickyTTL = 0
    AffinityPrune = 0
    Persist = FALSE
SYMMETRY MCSymmetry
INVARIANTS InFlightExact
PROPERTIES LeastLoadedChosen ImplementsContract
