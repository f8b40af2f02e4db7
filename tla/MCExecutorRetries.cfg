\* One request through its whole retry loop, every strategy and outcome, with
\* and without a session, under fairness of the request alone.
SPECIFICATION ObservedSpec
CONSTANTS
    k1 = k1
    k2 = k2
    Requests = {r1}
    Sessions = {s1, NoSession}
    NoSession = NoSession
    T = 2
    Keys = {k1, k2}
    NoKey = NoKey
    KeysOf <- MCKeysOf
    Routings = {"fallback", "round_robin", "least_requests"}
    MaxRetries = 3
    OutcomeKinds = {"ok", "badRequest", "rejected", "limited", "overload", "error", "deadline"}
    SourceFails = TRUE
    SlotBound = 1
PROPERTIES EveryRequestEnds
