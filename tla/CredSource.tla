---------------------------- MODULE CredSource ----------------------------
(* Credentials and usage shared with credstone, the sidecar: CredSource,     *)
(* UsageAccumulator and CredstoneClient for one pool. Every generation of    *)
(* the routing state (one per reload) has a source with its poller and an    *)
(* accumulator with its flusher. Calls to credstone take time, and their     *)
(* answers may be lost.                                                      *)
EXTENDS Integers, FiniteSets

CONSTANTS
    Attempts,   \* the attempts that may be under way at the same time
    MaxGen,     \* bound on the generations, the first with them
    MaxGrants,  \* bound on the leases credstone grants
    MaxRepeats  \* bound on the calls to report usage whose answer is lost

ASSUME MaxGenAssumption == MaxGen \in Nat \ {0}
ASSUME BoundsAssumption == MaxGrants \in Nat /\ MaxRepeats \in Nat

Gens == 1..MaxGen

VARIABLES
    credstone,  \* credstone's pool: "absent", "exhausted" or "healthy"
    granted,    \* how many leases credstone has granted
    live,       \* the generation that new attempts use
    healthy,    \* whether lastHealthy is positive, per generation
    poll,       \* the poller: "off", "resting", "asking", or the answer on its way
    attempt,    \* the attempts: where they are, and whose source they use
    pending,    \* the accumulator's deltas, per generation
    flush,      \* the flusher: where it is, and what it has sent
    recorded,   \* history: what has been added to the accumulator
    received,   \* credstone: what it has counted
    repeated,   \* history: what it has counted without miroxy knowing
    repeats     \* how often that has happened

calls == <<credstone, granted, attempt>>
usage == <<pending, flush, recorded, received, repeated, repeats>>
sourceVars == <<calls, live, healthy, poll, usage>>

-----------------------------------------------------------------------------
Usage == [requests : Nat, tokens : Nat]
Nothing == [requests |-> 0, tokens |-> 0]
Plus(u, v) == [requests |-> u.requests + v.requests, tokens |-> u.tokens + v.tokens]
Minus(u, v) == [requests |-> u.requests - v.requests, tokens |-> u.tokens - v.tokens]
OneRequest == [requests |-> 1, tokens |-> 0]
OneToken == [requests |-> 0, tokens |-> 1]

Idle == [pc |-> "idle", gen |-> 1]
Resting == [pc |-> "resting", sent |-> Nothing, counted |-> FALSE]
Off == [Resting EXCEPT !.pc = "off"]

\* What starts with a generation: the first poll is at once, the first flush
\* after an interval.
SourceInit ==
    /\ credstone \in {"absent", "exhausted", "healthy"}
    /\ granted = 0
    /\ live = 1
    /\ healthy = [g \in Gens |-> FALSE]
    /\ poll = [g \in Gens |-> IF g = 1 THEN "asking" ELSE "off"]
    /\ attempt = [a \in Attempts |-> Idle]
    /\ pending = [g \in Gens |-> Nothing]
    /\ flush = [g \in Gens |-> IF g = 1 THEN Resting ELSE Off]
    /\ recorded = [g \in Gens |-> Nothing]
    /\ received = [g \in Gens |-> Nothing]
    /\ repeated = [g \in Gens |-> Nothing]
    /\ repeats = 0

-----------------------------------------------------------------------------
(* Credential and ReportOutcome. *)

\* CredPool.Select asks the source. It fails fast on the last poll's word.
Asks(a) ==
    /\ attempt[a].pc = "idle" /\ healthy[live] /\ granted < MaxGrants
    /\ attempt' = [attempt EXCEPT ![a] = [pc |-> "asking", gen |-> live]]
    /\ UNCHANGED <<credstone, granted, live, healthy, poll, usage>>

Granted(a) ==
    /\ attempt[a].pc = "asking" /\ credstone = "healthy" /\ granted < MaxGrants
    /\ granted' = granted + 1
    /\ attempt' = [attempt EXCEPT ![a].pc = "using"]
    /\ UNCHANGED <<credstone, live, healthy, poll, usage>>

\* credstone refuses, is not reached, or answers with a kind of credential that
\* credentialFromAcquire does not know.
Refused(a) ==
    /\ attempt[a].pc = "asking"
    /\ attempt' = [attempt EXCEPT ![a] = Idle]
    /\ UNCHANGED <<credstone, granted, live, healthy, poll, usage>>

Adds(g, u) ==
    /\ pending' = [pending EXCEPT ![g] = Plus(@, u)]
    /\ recorded' = [recorded EXCEPT ![g] = Plus(@, u)]

\* CredPool.Release reports the outcome to the source, which counts a request,
\* whatever the outcome. It also returns the lease, in a call of its own goroutine
\* that nothing waits for. After a success come the tokens of a whole answer.
Reports(a) ==
    /\ Adds(attempt[a].gen, OneRequest)
    /\ \/ /\ attempt[a].pc \in {"using", "counted"}
          /\ attempt' = [attempt EXCEPT ![a] = Idle]
       \/ /\ attempt[a].pc = "using"
          /\ attempt' = [attempt EXCEPT ![a].pc = "succeeded"]
    /\ UNCHANGED <<credstone, granted, live, healthy, poll, flush, received, repeated, repeats>>

\* The executor counts the tokens, in the accumulators it was made with: those of
\* a whole answer after the release, those of a stream before it.
CountsTokens(a) ==
    /\ Adds(1, OneToken)
    /\ \/ /\ attempt[a].pc = "succeeded"
          /\ attempt' = [attempt EXCEPT ![a] = Idle]
       \/ /\ attempt[a].pc = "using"
          /\ attempt' = [attempt EXCEPT ![a].pc = "counted"]
    /\ UNCHANGED <<credstone, granted, live, healthy, poll, flush, received, repeated, repeats>>

StatusChanges ==
    /\ \E s \in {"absent", "exhausted", "healthy"} \ {credstone} : credstone' = s
    /\ UNCHANGED <<granted, attempt, live, healthy, poll, usage>>

-----------------------------------------------------------------------------
(* The poller. *)

PollBegins(g) ==
    /\ poll[g] = "resting"
    /\ poll' = [poll EXCEPT ![g] = "asking"]
    /\ UNCHANGED <<calls, live, healthy, usage>>

PollReaches(g) ==
    /\ poll[g] = "asking"
    /\ poll' = [poll EXCEPT ![g] = credstone]
    /\ UNCHANGED <<calls, live, healthy, usage>>

\* Mutant of PollAnswered: a pool that is not in the answer changes nothing.
PollSkipsAbsent(g) ==
    /\ poll[g] \in {"absent", "exhausted", "healthy"}
    /\ healthy' = IF poll[g] = "absent" THEN healthy
                  ELSE [healthy EXCEPT ![g] = poll[g] = "healthy"]
    /\ poll' = [poll EXCEPT ![g] = "resting"]
    /\ UNCHANGED <<calls, live, usage>>

\* A pool that credstone does not know has no healthy entries.
PollAnswered(g) ==
    /\ poll[g] \in {"absent", "exhausted", "healthy"}
    /\ healthy' = [healthy EXCEPT ![g] = poll[g] = "healthy"]
    /\ poll' = [poll EXCEPT ![g] = "resting"]
    /\ UNCHANGED <<calls, live, usage>>

\* An error leaves the last word standing.
PollFails(g) ==
    /\ poll[g] \notin {"off", "resting"}
    /\ poll' = [poll EXCEPT ![g] = "resting"]
    /\ UNCHANGED <<calls, live, healthy, usage>>

-----------------------------------------------------------------------------
(* The flusher. *)

FlushBegins(g) ==
    /\ flush[g].pc = "resting" /\ pending[g] # Nothing
    /\ flush' = [flush EXCEPT ![g] = [pc |-> "sending", sent |-> pending[g], counted |-> FALSE]]
    /\ UNCHANGED <<calls, live, healthy, poll, pending, recorded, received, repeated, repeats>>

FlushReaches(g) ==
    /\ flush[g].pc = "sending" /\ ~flush[g].counted
    /\ received' = [received EXCEPT ![g] = Plus(@, flush[g].sent)]
    /\ flush' = [flush EXCEPT ![g].counted = TRUE]
    /\ UNCHANGED <<calls, live, healthy, poll, pending, recorded, repeated, repeats>>

\* Mutant of FlushConfirmed: the deltas are set to zero.
FlushResets(g) ==
    /\ flush[g].pc = "sending" /\ flush[g].counted
    /\ pending' = [pending EXCEPT ![g] = Nothing]
    /\ flush' = [flush EXCEPT ![g] = Resting]
    /\ UNCHANGED <<calls, live, healthy, poll, recorded, received, repeated, repeats>>

\* What was sent is subtracted: more may have come in the meantime.
FlushConfirmed(g) ==
    /\ flush[g].pc = "sending" /\ flush[g].counted
    /\ pending' = [pending EXCEPT ![g] = Minus(@, flush[g].sent)]
    /\ flush' = [flush EXCEPT ![g] = Resting]
    /\ UNCHANGED <<calls, live, healthy, poll, recorded, received, repeated, repeats>>

\* What credstone has counted in a call that fails is not subtracted.
AnswerLost(g) ==
    IF flush[g].counted
    THEN /\ repeated' = [repeated EXCEPT ![g] = Plus(@, flush[g].sent)]
         /\ repeats' = repeats + 1
    ELSE UNCHANGED <<repeated, repeats>>

\* Mutant of FlushFails: the loop returns on an error.
FlushGivesUp(g) ==
    /\ flush[g].pc = "sending"
    /\ flush[g].counted => repeats < MaxRepeats
    /\ AnswerLost(g)
    /\ flush' = [flush EXCEPT ![g] = Off]
    /\ UNCHANGED <<calls, live, healthy, poll, pending, recorded, received>>

\* The call fails before credstone has counted, or its answer is lost after: the
\* deltas stay, and what was counted will be counted again.
FlushFails(g) ==
    /\ flush[g].pc = "sending"
    /\ flush[g].counted => repeats < MaxRepeats
    /\ AnswerLost(g)
    /\ flush' = [flush EXCEPT ![g] = Resting]
    /\ UNCHANGED <<calls, live, healthy, poll, pending, recorded, received>>

-----------------------------------------------------------------------------
\* A reload: the next generation's loops start, requests go there, and the
\* context of the last one's loops is cancelled, which fails what they are in
\* the middle of. Nothing is flushed.
Reload ==
    /\ live < MaxGen
    /\ live' = live + 1
    /\ poll' = [poll EXCEPT ![live] = "off", ![live + 1] = "asking"]
    /\ AnswerLost(live)
    /\ flush' = [flush EXCEPT ![live] = Off, ![live + 1] = Resting]
    /\ UNCHANGED <<calls, healthy, pending, recorded, received>>

Attempt(a) ==
    Asks(a) \/ Granted(a) \/ Refused(a) \/ Reports(a) \/ CountsTokens(a)
Poller(g) == PollBegins(g) \/ PollReaches(g) \/ PollAnswered(g) \/ PollFails(g)
Flusher(g) == FlushBegins(g) \/ FlushReaches(g) \/ FlushConfirmed(g) \/ FlushFails(g)

SourceNext ==
    \/ \E a \in Attempts : Attempt(a)
    \/ \E g \in Gens : Poller(g) \/ Flusher(g)
    \/ StatusChanges
    \/ Reload

SourceSpec == SourceInit /\ [][SourceNext]_sourceVars

(* Fairness: the loops' timers fire, calls end (the client has a timeout), and *)
(* a call that is made again and again is at some time answered. Only the live *)
(* generation has loops.                                                       *)
SourceFairness ==
    /\ WF_sourceVars(\E g \in Gens : Poller(g))
    /\ SF_sourceVars(\E g \in Gens : PollReaches(g))
    /\ SF_sourceVars(\E g \in Gens : PollAnswered(g))
    /\ WF_sourceVars(\E g \in Gens : Flusher(g))
    /\ SF_sourceVars(\E g \in Gens : FlushReaches(g))
    /\ SF_sourceVars(\E g \in Gens : FlushConfirmed(g))
    /\ \A a \in Attempts : WF_sourceVars(Refused(a) \/ Reports(a) \/ CountsTokens(a))
FairSourceSpec == SourceSpec /\ SourceFairness

-----------------------------------------------------------------------------
PollStates == {"off", "resting", "asking", "absent", "exhausted", "healthy"}

AttemptStates == {"idle", "asking", "using", "succeeded", "counted"}

SourceTypeOK ==
    /\ credstone \in {"absent", "exhausted", "healthy"}
    /\ granted \in 0..MaxGrants
    /\ live \in Gens
    /\ healthy \in [Gens -> BOOLEAN]
    /\ poll \in [Gens -> PollStates]
    /\ attempt \in [Attempts -> [pc : AttemptStates, gen : Gens]]
    /\ pending \in [Gens -> Usage]
    /\ flush \in [Gens -> [pc : {"off", "resting", "sending"}, sent : Usage, counted : BOOLEAN]]
    /\ recorded \in [Gens -> Usage]
    /\ received \in [Gens -> Usage]
    /\ repeated \in [Gens -> Usage] /\ repeats \in Nat

\* What credstone has counted and miroxy does not know of yet.
Unconfirmed(g) == IF flush[g].counted THEN flush[g].sent ELSE Nothing

\* Every request and every token is reported at least once or still pending, and
\* it is counted twice only where an answer was lost: what is pending and what
\* credstone has counted make up what was recorded, whatever was added while a
\* call was under way.
UsageExact ==
    \A g \in Gens :
        Plus(Plus(recorded[g], repeated[g]), Unconfirmed(g)) = Plus(received[g], pending[g])

\* What is sent has not been subtracted yet.
SentIsPending ==
    \A g \in Gens :
        /\ flush[g].sent.requests <= pending[g].requests
        /\ flush[g].sent.tokens <= pending[g].tokens

\* A call is counted while it is under way, and only the generations that have
\* been live have a flusher.
FlushWellFormed ==
    /\ \A g \in Gens : flush[g].counted => flush[g].pc = "sending"
    /\ \A g \in Gens : g > live => flush[g].pc = "off"

\* The inductive invariant.
SourceInv == SourceTypeOK /\ UsageExact /\ SentIsPending /\ FlushWellFormed

\* Without a reload nothing stays pending, however often the calls fail, as long
\* as credstone answers again at some time.
UsageArrives == [](live = 1) => []<>(pending[1] = Nothing)

\* The source follows credstone: once its pool stays as it is, new requests ask
\* for a lease if there are healthy entries and fail fast if there are none,
\* with the first generation as with one that has just been loaded.
HealthFollows ==
    /\ <>[](credstone = "healthy") => <>[]healthy[live]
    /\ <>[](credstone # "healthy") => <>[]~healthy[live]
=============================================================================
