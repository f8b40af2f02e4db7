\* One key and one attempt at a time, which is answered, rate limited or rejected:
\* a rejected request restarts the 429 schedule as an answered one does. (With a
\* token cap, the two are told apart by what the caller does next.)
SPECIFICATION Spec
CONSTANTS
    N = 1
    Attempts = {a1}
    Sessions = {}
    NoSession = NoSession
    Strategy = "fallback"
    Batch = 1
    Threshold = 2
    Cooldown = 2
    Tiers <- MCTiers
    OverloadPark = 1
    RetryAfters = {0}
    OutcomeKinds = {"answered", "rejected", "rateLimit"}
    SourceFails = FALSE
    RateLimit = 0
    SoftLimit = 0
    TpmLimit = 1
    TokenSizes = {0}
    Window = 0
    StickyTTL = 0
    AffinityPrune = 0
    Persist = FALSE
PROPERTIES EscalationOnlyResetBySuccess
