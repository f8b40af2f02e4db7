\* Two reloads after the first generation, by the loop and by a handler beside it;
\* three calls to stop or start, which is enough for a token that is left over from
\* the last stop; one request at a time, which need not end.
SPECIFICATION FairSpec
CONSTANTS
    Callers = {c1}
    Requests = {q1}
    Histories <- MCHistories
    Names <- MCNames
    MaxGen = 3
    MaxSignals = 3
CHECK_DEADLOCK FALSE
INVARIANTS ServedGenerationLives RoutedHasSelector MostSpecificRoute
PROPERTIES SignalsObeyed
