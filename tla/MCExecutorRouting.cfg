\* Two concurrent requests of one sticky session over two targets, every
\* strategy, failing sources, the prober and cool-downs at any moment.
SPECIFICATION ObservedSpec
CONSTANTS
    k1 = k1
    k2 = k2
    Requests = {r1, r2}
    Sessions = {s1}
    NoSession = NoSession
    T = 2
    Keys = {k1, k2}
    NoKey = NoKey
    KeysOf <- MCKeysOf
    Routings = {"fallback", "round_robin", "least_requests"}
    MaxRetries = 1
    OutcomeKinds = {"badRequest", "limited", "error"}
    SourceFails = TRUE
    SlotBound = 1
SYMMETRY MCSymmetry
INVARIANTS LoadExact SlotsCoverUses
PROPERTIES RefusalJustified FallbackKeepsPriority
