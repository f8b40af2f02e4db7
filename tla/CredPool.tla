------------------------------ MODULE CredPool ------------------------------
(***************************************************************************)
(* The credential pool (core/selector/credpool.go, affinity.go) with the   *)
(* callers that drive it: request attempts (UpstreamExecutor) and the      *)
(* background prober of the pool's selector (internal/server/prober.go).   *)
(*                                                                         *)
(* One action is one critical section of CredPool.mu.  Select drops the    *)
(* mutex before it asks the credential source for the secret, so an        *)
(* attempt passes through "fetching" and every other operation of the pool *)
(* can fall in between; the same holds for TakeRateLimited.                *)
(*                                                                         *)
(* Time is relative: coolLeft[c] is coolEnd - now in ticks, -1 once now is *)
(* past it, and the sliding windows hold how many entries have which age.  *)
(* Tick ages everything, so the state space needs no bound on time.        *)
(***************************************************************************)
EXTENDS Integers, Sequences, FiniteSets, FiniteSetsExt

CONSTANTS
    N,             \* number of credentials, listed 1 .. N
    Attempts,      \* concurrent upstream attempts
    Sessions,      \* sticky session keys that requests can carry
    NoSession,     \* a request that yields no session key
    Strategy,      \* "round_robin" | "least_requests" | "fallback"
    Batch,         \* RoundRobinBatch
    Threshold,     \* consecutive failures before circuit-break
    Cooldown,      \* circuit-break cool-down, in ticks
    Tiers,         \* escalating 429 cool-downs (rateLimitTiers)
    OverloadPark,  \* park time of a 5xx without RetryAfter
    RetryAfters,   \* RetryAfter values upstream may give; 0 is none
    OutcomeKinds,  \* how the attempts of this instance can end
    SourceFails,   \* can source.Credential fail? (a StaticSource cannot)
    RateLimit,     \* RateLimitRPM; 0 disables the request window
    SoftLimit,     \* RateSoftLimit
    TpmLimit,      \* RateLimitTPM; 0 disables the token window
    TokenSizes,    \* token counts a response can report
    Window,        \* RateWindow, in ticks
    StickyTTL,     \* idle expiry of a sticky binding, in ticks
    AffinityPrune, \* affinityPruneThreshold
    Persist        \* local_state.enabled: the health snapshot loop runs

Creds == 1 .. N
\* How an attempt ends. ErrorFree is what Release is told nothing of: the attempt
\* was answered, or its request was rejected (another 4xx), or could not be
\* converted, so that nothing was sent.
ErrorFree == {"answered", "rejected", "unsent"}
Kinds == ErrorFree \cup {"deadline", "error", "rateLimit", "overload"}
Strategies == {"round_robin", "least_requests", "fallback"}

ASSUME PoolAssumption ==
    /\ N \in Nat \ {0}
    /\ IsFiniteSet(Attempts)
    /\ NoSession \notin Sessions
    /\ Strategy \in Strategies
    /\ Batch \in Nat \ {0}
    /\ Threshold \in Nat \ {0}
    /\ Cooldown \in Nat \ {0}
    /\ Tiers \in Seq(Nat) /\ Tiers # <<>>
    /\ OverloadPark \in Nat
    /\ RetryAfters \subseteq Nat
    /\ OutcomeKinds \subseteq Kinds
    /\ SourceFails \in BOOLEAN
    /\ RateLimit \in Nat /\ SoftLimit \in Nat /\ TpmLimit \in Nat
    /\ TokenSizes \subseteq Nat
    /\ Window \in Nat
    /\ StickyTTL \in Nat
    /\ AffinityPrune \in Nat
    /\ Persist \in BOOLEAN

VARIABLES
    state,             \* [Creds -> "healthy" | "cooling_down" | "rate_limited"]
    inFlight,          \* [Creds -> Int]
    failures,          \* [Creds -> Nat], saturated at Threshold
    rateLimitFailures, \* [Creds -> Nat], saturated at Len(Tiers)
    coolLeft,          \* [Creds -> Int]
    requests,          \* [Creds -> [Ages -> Nat]], recentRequests by age
    tokens,            \* [Creds -> [Ages -> Nat]], recentTokens by age
    counter,           \* the round-robin counter, modulo a full rotation
    binding,           \* [Sessions -> sticky binding]
    attempt,           \* [Attempts -> where the attempt stands]
    prober,            \* the key prober of this pool's selector
    stored             \* [Creds -> health last written to the local store]

health == <<state, failures, rateLimitFailures, coolLeft>>
windows == <<requests, tokens>>
vars == <<state, inFlight, failures, rateLimitFailures, coolLeft, requests,
          tokens, counter, binding, attempt, prober, stored>>

CredStates == {"healthy", "cooling_down", "rate_limited"}

\* Every use of failures compares it with Threshold and every use of
\* rateLimitFailures clamps it to the last tier, so both saturate.
Bump(n, limit) == IF n < limit THEN n + 1 ELSE limit

\* Ages 0 .. Window are inside the sliding window (Before(cutoff) is strict),
\* Window + 1 is everything older that no Select has pruned yet.
Ages == 0 .. Window + 1
EmptyWindow == [age \in Ages |-> 0]

\* Counts only matter up to the limit they are compared with.
Capped(n, limit) == IF n < limit THEN n ELSE limit
Aged(w, limit) ==
    [age \in Ages |->
        IF age = 0 THEN 0
        ELSE IF age <= Window THEN w[age - 1]
        ELSE Capped(w[age] + w[age - 1], limit)]
Added(w, n, limit) == [w EXCEPT ![0] = Capped(w[0] + n, limit)]
Pruned(w) == [w EXCEPT ![Window + 1] = 0]
Total(w) == MapThenSumSet(LAMBDA age : w[age], Ages)

Idle == [pc |-> "idle", cred |-> 0]
Phases == {"idle", "fetching", "holding", "reporting", "refused"}
NoBinding == [cred |-> 0, idle |-> 0]
RestingProber(phase) ==
    [phase |-> phase, lifted |-> {}, plans |-> {}, success |-> FALSE]
ProberPhases == {"stopped", "waiting", "fetching", "probing", "stopping"}
HealthyEntry ==
    [state |-> "healthy", failures |-> 0, rateLimitFailures |-> 0,
     coolLeft |-> -1]

Outcomes ==
    [kind : OutcomeKinds \cap (ErrorFree \cup {"deadline", "error"}), retryAfter : {0}]
    \cup
    [kind : OutcomeKinds \cap {"rateLimit", "overload"},
     retryAfter : RetryAfters]
Answered == [kind |-> "answered", retryAfter |-> 0]
StillLimited == [kind |-> "rateLimit", retryAfter |-> 0]

Init ==
    /\ state = [c \in Creds |-> "healthy"]
    /\ inFlight = [c \in Creds |-> 0]
    /\ failures = [c \in Creds |-> 0]
    /\ rateLimitFailures = [c \in Creds |-> 0]
    /\ coolLeft = [c \in Creds |-> -1]
    /\ requests = [c \in Creds |-> EmptyWindow]
    /\ tokens = [c \in Creds |-> EmptyWindow]
    /\ counter = 0
    /\ binding = [s \in Sessions |-> NoBinding]
    /\ attempt = [a \in Attempts |-> Idle]
    /\ prober = RestingProber("stopped")
    /\ stored = [c \in Creds |-> HealthyEntry]

-----------------------------------------------------------------------------
(* Choosing a credential.                                                  *)

Expired(c) == state[c] # "healthy" /\ coolLeft[c] < 0
\* Mutant of Available: the state is never compared with the clock.
AlwaysAvailable(c) == TRUE
Available(c) == state[c] = "healthy" \/ coolLeft[c] < 0

UnderSoftLimit(c) == RateLimit = 0 \/ Total(Pruned(requests[c])) < SoftLimit
UnderTokenCap(c) == TpmLimit = 0 \/ Total(Pruned(tokens[c])) < TpmLimit
Eligible(c) == Available(c) /\ UnderSoftLimit(c) /\ UnderTokenCap(c)

Limited == RateLimit > 0 \/ TpmLimit > 0
Rotation == Batch * N

FirstListed(S) == Min(S)
\* Mutant of LeastRequests: the comparison is swapped.
MostRequests(S) ==
    Min({c \in S : \A d \in S : inFlight[c] >= inFlight[d]})
LeastRequests(S) ==
    Min({c \in S : \A d \in S : inFlight[c] <= inFlight[d]})

\* Distance from the credential whose turn it is, scanning forward.
TurnOffset(c, n) == (c - 1 - (n \div Batch)) % N
RoundRobin(S, n) ==
    CHOOSE c \in S : \A d \in S : TurnOffset(c, n) <= TurnOffset(d, n)

\* selectByCriteria over the non-empty set S; n is the round-robin counter.
SelectByCriteria(S, n) ==
    CASE Strategy = "least_requests" -> LeastRequests(S)
      [] Strategy = "fallback" -> FirstListed(S)
      [] OTHER -> RoundRobin(S, n)

\* The round-robin counter moves once per pass, found or not.
CounterAfter(passes) ==
    IF Strategy = "round_robin" THEN (counter + passes) % Rotation ELSE counter

\* affinityMap: Get drops an idle-expired binding, Set prunes a large map.
BindingExpired(b) == b.idle > StickyTTL
GetBinding(s) == IF BindingExpired(binding[s]) THEN NoBinding ELSE binding[s]
PrunedBindings(m) ==
    IF Cardinality({s \in Sessions : m[s] # NoBinding}) > AffinityPrune
    THEN [s \in Sessions |-> IF BindingExpired(m[s]) THEN NoBinding ELSE m[s]]
    ELSE m
SetBinding(m, s, c) ==
    IF s \in Sessions
    THEN PrunedBindings([m EXCEPT ![s] = [cred |-> c, idle |-> 0]])
    ELSE m
AfterGet(s) ==
    IF s \in Sessions THEN [binding EXCEPT ![s] = GetBinding(s)] ELSE binding

\* The candidates the request is finally chosen from, and the number of
\* passes over the pool that it took to find them.
\* Mutants of StickyChoice: the bound credential is used without looking at
\* its health, without looking at its limits, or never found.
StickyIgnoresHealth(s) ==
    IF s \in Sessions THEN {c \in Creds : c = GetBinding(s).cred} ELSE {}
StickyIgnoresLimits(s) ==
    IF s \in Sessions THEN {c \in Creds : c = GetBinding(s).cred /\ Available(c)}
    ELSE {}
StickyForgotten(s) == {}
StickyChoice(s) ==
    IF s \in Sessions THEN {c \in Creds : c = GetBinding(s).cred /\ Eligible(c)}
    ELSE {}
FirstPass == {c \in Creds : Eligible(c)}
\* Mutant of Backstop: the second pass is dropped.
NoBackstop == {}
Backstop == IF Limited THEN {c \in Creds : Available(c)} ELSE {}
Candidates(s) ==
    IF StickyChoice(s) # {} THEN StickyChoice(s)
    ELSE IF FirstPass # {} THEN FirstPass ELSE Backstop
Passes(s) ==
    IF StickyChoice(s) # {} THEN 0
    ELSE IF FirstPass # {} \/ ~Limited THEN 1 ELSE 2

\* Mutant of Recover: recovery also restarts the 429 schedule.
RecoverForgetsTier ==
    /\ state' = [c \in Creds |-> IF Expired(c) THEN "healthy" ELSE state[c]]
    /\ failures' = [c \in Creds |-> IF Expired(c) THEN 0 ELSE failures[c]]
    /\ rateLimitFailures' =
        [c \in Creds |-> IF Expired(c) THEN 0 ELSE rateLimitFailures[c]]
    /\ UNCHANGED coolLeft
\* Recovery and pruning at the head of Select.
Recover ==
    /\ state' = [c \in Creds |-> IF Expired(c) THEN "healthy" ELSE state[c]]
    /\ failures' = [c \in Creds |-> IF Expired(c) THEN 0 ELSE failures[c]]
    /\ UNCHANGED <<rateLimitFailures, coolLeft>>
PruneTokens == tokens' = [c \in Creds |-> Pruned(tokens[c])]
PrunedRequests == [c \in Creds |-> Pruned(requests[c])]

Chosen(s) ==
    SelectByCriteria(Candidates(s), (counter + Passes(s) - 1) % Rotation)

\* Select finds a credential, counts the attempt against it, and unlocks.
Select(a, s) ==
    /\ attempt[a].pc = "idle"
    /\ Candidates(s) # {}
    /\ Recover
    /\ PruneTokens
    /\ requests' =
        IF RateLimit > 0
        THEN [PrunedRequests EXCEPT ![Chosen(s)] = Added(@, 1, SoftLimit)]
        ELSE PrunedRequests
    /\ inFlight' = [inFlight EXCEPT ![Chosen(s)] = @ + 1]
    /\ counter' = CounterAfter(Passes(s))
    /\ binding' = SetBinding(AfterGet(s), s, Chosen(s))
    /\ attempt' =
        [attempt EXCEPT ![a] = [pc |-> "fetching", cred |-> Chosen(s)]]
    /\ UNCHANGED <<prober, stored>>

\* Select finds none: ErrNoSelection.
SelectNone(a, s) ==
    /\ attempt[a].pc = "idle"
    /\ Candidates(s) = {}
    /\ Recover
    /\ PruneTokens
    /\ requests' = PrunedRequests
    /\ counter' = CounterAfter(Passes(s))
    /\ binding' = AfterGet(s)
    /\ attempt' = [attempt EXCEPT ![a] = [pc |-> "refused", cred |-> 0]]
    /\ UNCHANGED <<inFlight, prober, stored>>

-----------------------------------------------------------------------------
(* The secret arrives, or the source fails, outside the mutex.             *)

Fetched(a) ==
    /\ attempt[a].pc = "fetching"
    /\ attempt' =
        [attempt EXCEPT ![a] = [pc |-> "holding", cred |-> attempt[a].cred]]
    /\ UNCHANGED <<health, inFlight, windows, counter, binding, prober, stored>>

\* Failure bookkeeping shared by a source error and a failed request: the
\* breaker opens from any state, and restarts the cool-down.
CountFailure(c) ==
    /\ failures' = [failures EXCEPT ![c] = Bump(@, Threshold)]
    /\ IF failures'[c] >= Threshold
       THEN /\ state' = [state EXCEPT ![c] = "cooling_down"]
            /\ coolLeft' = [coolLeft EXCEPT ![c] = Cooldown]
       ELSE UNCHANGED <<state, coolLeft>>
    /\ UNCHANGED rateLimitFailures

\* Mutant of FetchFailed: the error path does not give the slot back.
FetchFailedLeaks(a) ==
    /\ SourceFails
    /\ attempt[a].pc = "fetching"
    /\ CountFailure(attempt[a].cred)
    /\ attempt' = [attempt EXCEPT ![a] = Idle]
    /\ UNCHANGED <<inFlight, windows, counter, binding, prober, stored>>
FetchFailed(a) ==
    /\ SourceFails
    /\ attempt[a].pc = "fetching"
    /\ inFlight' = [inFlight EXCEPT ![attempt[a].cred] = @ - 1]
    /\ CountFailure(attempt[a].cred)
    /\ attempt' = [attempt EXCEPT ![a] = Idle]
    /\ UNCHANGED <<windows, counter, binding, prober, stored>>

-----------------------------------------------------------------------------
(* Release: the outcome of an attempt or of a probe.                       *)

RateLimitBackoff(n) == IF n < Len(Tiers) THEN Tiers[n + 1] ELSE Tiers[Len(Tiers)]

\* A 429 or a 5xx parks a healthy credential; a parked one keeps its time.
Park(c, ticks) ==
    IF state[c] = "healthy"
    THEN /\ state' = [state EXCEPT ![c] = "rate_limited"]
         /\ coolLeft' = [coolLeft EXCEPT ![c] = ticks]
    ELSE UNCHANGED <<state, coolLeft>>

RateLimited(c, after) ==
    /\ Park(c, IF after > 0 THEN after
               ELSE RateLimitBackoff(rateLimitFailures[c]))
    /\ rateLimitFailures' =
        [rateLimitFailures EXCEPT ![c] = Bump(@, Len(Tiers))]
    /\ UNCHANGED failures

Overloaded(c, after) ==
    /\ Park(c, IF after > 0 THEN after ELSE OverloadPark)
    /\ UNCHANGED <<failures, rateLimitFailures>>

\* Mutant of NoError: a release without an error puts the credential back to work.
NoErrorHeals(c) ==
    /\ state' = [state EXCEPT ![c] = "healthy"]
    /\ failures' = [failures EXCEPT ![c] = 0]
    /\ rateLimitFailures' = [rateLimitFailures EXCEPT ![c] = 0]
    /\ UNCHANGED coolLeft
\* err is nil: both counts start again, whatever the attempt came to.
NoError(c) ==
    /\ failures' = [failures EXCEPT ![c] = 0]
    /\ rateLimitFailures' = [rateLimitFailures EXCEPT ![c] = 0]
    /\ UNCHANGED <<state, coolLeft>>

Settle(c, o) ==
    /\ inFlight' =
        [inFlight EXCEPT ![c] = IF @ > 0 THEN @ - 1 ELSE @]
    /\ \/ o.kind = "deadline" /\ UNCHANGED health
       \/ o.kind = "rateLimit" /\ RateLimited(c, o.retryAfter)
       \/ o.kind = "overload" /\ Overloaded(c, o.retryAfter)
       \/ o.kind = "error" /\ CountFailure(c)
       \/ o.kind \in ErrorFree /\ NoError(c)

Release(a, o) ==
    /\ attempt[a].pc = "holding"
    /\ Settle(attempt[a].cred, o)
    /\ attempt' =
        [attempt EXCEPT ![a] =
            IF o.kind = "answered" /\ TpmLimit > 0
            THEN [pc |-> "reporting", cred |-> attempt[a].cred] ELSE Idle]
    /\ UNCHANGED <<windows, counter, binding, prober, stored>>

\* The caller of an answered attempt reports its token usage afterwards.
RecordTokens(a, n) ==
    /\ attempt[a].pc = "reporting"
    /\ tokens' = [tokens EXCEPT ![attempt[a].cred] = Added(@, n, TpmLimit)]
    /\ attempt' = [attempt EXCEPT ![a] = Idle]
    /\ UNCHANGED <<health, inFlight, requests, counter, binding, prober, stored>>

-----------------------------------------------------------------------------
(* The key prober (one per selector).  ErrNoSelection triggers it; it      *)
(* waits, lifts every rate-limited credential, fetches their secrets one   *)
(* by one, probes them one by one, and stops at the first round in which   *)
(* one of them answered or in which there was nothing to probe.  A trigger *)
(* that finds it still "stopping" is lost: running is cleared last.        *)

\* The caller answers 503 and triggers the prober unless one is running.
AnswerRefusal(a) ==
    /\ attempt[a].pc = "refused"
    /\ attempt' = [attempt EXCEPT ![a] = Idle]
    /\ prober' = IF prober.phase = "stopped"
                 THEN RestingProber("waiting")
                 ELSE prober
    /\ UNCHANGED <<health, inFlight, windows, counter, binding, stored>>

\* Where the prober goes when a phase has emptied its work list.
ProberAfter(phase, lifted, plans, success) ==
    IF lifted # {}
    THEN [phase |-> "fetching", lifted |-> lifted, plans |-> plans,
          success |-> FALSE]
    ELSE IF plans # {}
    THEN [phase |-> "probing", lifted |-> {}, plans |-> plans,
          success |-> success]
    ELSE IF phase = "probing" /\ ~success
    THEN RestingProber("waiting")
    ELSE RestingProber("stopping")

\* TakeRateLimited, first half: under the mutex.
TakeRateLimited ==
    LET lifted == {c \in Creds : state[c] = "rate_limited"} IN
    /\ prober.phase = "waiting"
    /\ state' = [c \in Creds |-> IF c \in lifted THEN "healthy" ELSE state[c]]
    /\ inFlight' =
        [c \in Creds |-> IF c \in lifted THEN inFlight[c] + 1 ELSE inFlight[c]]
    /\ prober' = ProberAfter("fetching", lifted, {}, FALSE)
    /\ UNCHANGED <<failures, rateLimitFailures, coolLeft, windows, counter,
                   binding, attempt, stored>>

\* TakeRateLimited, second half: the next lifted credential's secret.
ProbeFetched ==
    LET c == Min(prober.lifted) IN
    /\ prober.phase = "fetching"
    /\ prober' = ProberAfter("fetching", prober.lifted \ {c},
                             prober.plans \cup {c}, FALSE)
    /\ UNCHANGED <<health, inFlight, windows, counter, binding, attempt, stored>>

\* Its source fails: the entry is put back to rate-limited, whatever its
\* state has become since it was lifted.
ProbeFetchFailed ==
    LET c == Min(prober.lifted) IN
    /\ SourceFails
    /\ prober.phase = "fetching"
    /\ state' = [state EXCEPT ![c] = "rate_limited"]
    /\ inFlight' = [inFlight EXCEPT ![c] = @ - 1]
    /\ prober' = ProberAfter("fetching", prober.lifted \ {c}, prober.plans, FALSE)
    /\ UNCHANGED <<failures, rateLimitFailures, coolLeft, windows, counter,
                   binding, attempt, stored>>

\* The probe of the next plan is over: Release(nil) or Release(429).
ProbeReleased(o) ==
    LET c == Min(prober.plans) IN
    /\ prober.phase = "probing"
    /\ Settle(c, o)
    /\ prober' = ProberAfter("probing", {}, prober.plans \ {c},
                             prober.success \/ o = Answered)
    /\ UNCHANGED <<windows, counter, binding, attempt, stored>>

\* run returns, and its deferred function clears running.
ProberStops ==
    /\ prober.phase = "stopping"
    /\ prober' = RestingProber("stopped")
    /\ UNCHANGED <<health, inFlight, windows, counter, binding, attempt, stored>>

-----------------------------------------------------------------------------
(* Persistence and time.                                                   *)

\* One flush of the health snapshot loop.
FlushHealth ==
    /\ Persist
    /\ stored' =
        [c \in Creds |->
            [state |-> state[c], failures |-> failures[c],
             rateLimitFailures |-> rateLimitFailures[c],
             coolLeft |-> coolLeft[c]]]
    /\ UNCHANGED <<health, inFlight, windows, counter, binding, attempt, prober>>

\* The process dies and starts again: a new pool, health from the store.
Restart ==
    /\ Persist
    /\ state' = [c \in Creds |-> stored[c].state]
    /\ failures' = [c \in Creds |-> stored[c].failures]
    /\ rateLimitFailures' = [c \in Creds |-> stored[c].rateLimitFailures]
    /\ coolLeft' = [c \in Creds |-> stored[c].coolLeft]
    /\ inFlight' = [c \in Creds |-> 0]
    /\ requests' = [c \in Creds |-> EmptyWindow]
    /\ tokens' = [c \in Creds |-> EmptyWindow]
    /\ counter' = 0
    /\ binding' = [s \in Sessions |-> NoBinding]
    /\ attempt' = [a \in Attempts |-> Idle]
    /\ prober' = RestingProber("stopped")
    /\ UNCHANGED stored

Elapsed(left) == IF left < 0 THEN left ELSE left - 1

Tick ==
    /\ coolLeft' = [c \in Creds |-> Elapsed(coolLeft[c])]
    /\ requests' = [c \in Creds |-> Aged(requests[c], SoftLimit)]
    /\ tokens' = [c \in Creds |-> Aged(tokens[c], TpmLimit)]
    /\ binding' =
        [s \in Sessions |->
            IF binding[s] = NoBinding \/ BindingExpired(binding[s])
            THEN binding[s]
            ELSE [binding[s] EXCEPT !.idle = @ + 1]]
    /\ stored' = [c \in Creds |->
                    [stored[c] EXCEPT !.coolLeft = Elapsed(@)]]
    /\ UNCHANGED <<state, inFlight, failures, rateLimitFailures, counter,
                   attempt, prober>>

-----------------------------------------------------------------------------

Next ==
    \/ \E a \in Attempts, s \in Sessions \cup {NoSession} :
          Select(a, s) \/ SelectNone(a, s)
    \/ \E a \in Attempts : Fetched(a) \/ FetchFailed(a) \/ AnswerRefusal(a)
    \/ \E a \in Attempts, o \in Outcomes : Release(a, o)
    \/ \E a \in Attempts, n \in TokenSizes : RecordTokens(a, n)
    \/ TakeRateLimited
    \/ ProbeFetched
    \/ ProbeFetchFailed
    \/ \E o \in {Answered, StillLimited} : ProbeReleased(o)
    \/ ProberStops
    \/ FlushHealth
    \/ Restart
    \/ Tick

Spec == Init /\ [][Next]_vars

\* The clock runs, sources answer, and every attempt and probe ends: each has
\* a deadline (context.WithTimeout).  Nothing forces a client to send.
Fairness ==
    /\ WF_vars(Tick)
    /\ \A a \in Attempts :
        /\ WF_vars(Fetched(a) \/ FetchFailed(a))
        /\ WF_vars(\E o \in Outcomes : Release(a, o))
        /\ WF_vars(AnswerRefusal(a))
    /\ WF_vars(TakeRateLimited)
    /\ WF_vars(ProbeFetched \/ ProbeFetchFailed)
    /\ WF_vars(\E o \in {Answered, StillLimited} : ProbeReleased(o))
    /\ WF_vars(ProberStops)

FairSpec == Spec /\ Fairness

-----------------------------------------------------------------------------
(* Properties.                                                             *)

\* Type correctness of the pool, its callers and the stored snapshot.
TypeOK ==
    /\ state \in [Creds -> CredStates]
    /\ inFlight \in [Creds -> Nat]
    /\ failures \in [Creds -> 0 .. Threshold]
    /\ rateLimitFailures \in [Creds -> 0 .. Len(Tiers)]
    /\ coolLeft \in [Creds -> Int]
    /\ requests \in [Creds -> [Ages -> Int]]
    /\ tokens \in [Creds -> [Ages -> Int]]
    /\ counter \in 0 .. Rotation - 1
    /\ binding \in [Sessions -> [cred : Creds \cup {0}, idle : Nat]]
    /\ attempt \in [Attempts -> [pc : Phases, cred : Creds \cup {0}]]
    /\ prober \in [phase : ProberPhases, lifted : SUBSET Creds,
                   plans : SUBSET Creds, success : BOOLEAN]
    /\ stored \in [Creds -> [state : CredStates, failures : 0 .. Threshold,
                             rateLimitFailures : 0 .. Len(Tiers),
                             coolLeft : Int]]

Occupied(c) ==
    {a \in Attempts :
        attempt[a].pc \in {"fetching", "holding"} /\ attempt[a].cred = c}
Probing(c) == c \in prober.lifted \cup prober.plans

\* What the pool must count: the slots really in use on a credential.
Load(c) == Cardinality(Occupied(c)) + IF Probing(c) THEN 1 ELSE 0

CoolingDown(c) == state[c] # "healthy" /\ coolLeft[c] >= 0

Takes(a, c) ==
    /\ attempt[a].pc = "idle"
    /\ attempt'[a] = [pc |-> "fetching", cred |-> c]

\* inFlight is what least_requests balances by, so it must be exact: one per
\* attempt that has the credential, from the moment Select counts it until
\* its Release or the failure of its source, plus one while the prober has
\* it.  A leak would steer traffic away from a key for good; the clamp in
\* Release ("if inFlight > 0") would hide a double release.
InFlightExact == \A c \in Creds : inFlight[c] = Load(c)

\* What the accounting rests on: an attempt that has left Select names a
\* credential, and the prober's work lists are disjoint and match its phase.
AttemptsWellFormed ==
    \A a \in Attempts :
        attempt[a].pc \in {"fetching", "holding", "reporting"} =>
            attempt[a].cred \in Creds

ProberWellFormed ==
    /\ prober.lifted \cap prober.plans = {}
    /\ prober.phase = "fetching" => prober.lifted # {}
    /\ prober.phase = "probing" => prober.lifted = {} /\ prober.plans # {}
    /\ prober.phase \in {"stopped", "waiting", "stopping"} =>
            prober.lifted = {} /\ prober.plans = {}

\* The inductive invariant of the pool.
IInv == TypeOK /\ AttemptsWellFormed /\ ProberWellFormed /\ InFlightExact

\* least_requests sends an attempt where the fewest slots are in use, counted
\* by who really holds them and not by the pool's own counter, unless a sticky
\* binding names the credential.
LeastLoadedChosen ==
    [][Strategy = "least_requests" =>
        \A a \in Attempts, c, d \in Creds :
            /\ Takes(a, c)
            /\ \A s \in Sessions : binding[s].cred # c
            /\ Eligible(d)
            => Load(c) <= Load(d)]_vars

\* ErrNoSelection means what core/selector/selector.go says: every credential
\* is in cool-down.  No soft limit, token cap or sticky binding may refuse a
\* request while some credential is available.
RefusedOnlyWhenAllParked ==
    [][\A a \in Attempts :
        attempt[a].pc = "idle" /\ attempt'[a].pc = "refused"
            => \A c \in Creds : CoolingDown(c)]_vars

\* No attempt is started on a credential in cool-down, by whatever path
\* (sticky, first pass, backstop) Select came to it.
ParkedNotSelected ==
    [][\A a \in Attempts, c \in Creds : Takes(a, c) => ~CoolingDown(c)]_vars

\* No failure restarts the escalating 429 schedule of a credential, and nor does
\* the end of a cool-down, a lift for a probe or an outcome of another credential:
\* only a release without an error does, or a restart, which goes back to what was
\* flushed.
EscalationOutlastsFailures ==
    [][\A c \in Creds :
        rateLimitFailures'[c] < rateLimitFailures[c] =>
            \/ \E a \in Attempts, o \in Outcomes :
                  o.kind \in ErrorFree /\ attempt[a].cred = c /\ Release(a, o)
            \/ ProbeReleased(Answered) /\ c = Min(prober.plans)
            \/ Restart]_vars

\* What credpool.go says of the schedule: "it only resets on a successful request
\* so the escalating schedule persists across cooldowns".
EscalationOnlyResetBySuccess ==
    [][\A c \in Creds :
        rateLimitFailures'[c] < rateLimitFailures[c] =>
            \/ \E a \in Attempts : attempt[a].cred = c /\ Release(a, Answered)
            \/ ProbeReleased(Answered) /\ c = Min(prober.plans)
            \/ Restart]_vars

\* The proactive limits rotate: a credential at its soft request limit or at
\* its token cap gets an attempt only if every available one is at a limit.
RotatesBeforeLimit ==
    [][\A a \in Attempts, c \in Creds :
        Takes(a, c) /\ ~(UnderSoftLimit(c) /\ UnderTokenCap(c))
            => \A d \in Creds : Available(d) =>
                    ~(UnderSoftLimit(d) /\ UnderTokenCap(d))]_vars

\* A live sticky binding moves to another credential only when the one it
\* names cannot be used.
StickyUntilIneligible ==
    [][\A s \in Sessions, c \in Creds :
        (/\ binding[s].cred = c
         /\ ~BindingExpired(binding[s])
         /\ binding'[s].cred \in Creds \ {c})
            => ~Eligible(c)]_vars

\* What the layers above see of the health of a credential.
ContractStatus(c) ==
    IF ~CoolingDown(c) THEN "free"
    ELSE IF state[c] = "rate_limited" THEN "limited" ELSE "broken"

Contract == INSTANCE PoolContract WITH
    Keys <- Creds, slots <- inFlight, status <- [c \in Creds |-> ContractStatus(c)]

\* The pool keeps its promise to the layers above: a credential in cool-down
\* is not handed out, every use is counted and uncounted once, no release
\* (a late success least of all) ends a cool-down, and the prober leaves an
\* open breaker alone.
ImplementsContract == Contract!Spec

\* No credential stays in cool-down forever: every one of them is again and
\* again available, however often attempts, probes and restarts park it.
EveryKeyComesBack == \A c \in Creds : []<>(~CoolingDown(c))
=============================================================================
