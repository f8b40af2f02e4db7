------------------------------ MODULE Executor ------------------------------
(***************************************************************************)
(* The retry loop of the upstream executor (internal/server/upstream.go)   *)
(* over one routed model: RoutingSelector (core/selector) distributing its *)
(* requests over targets, the pools behind the targets as PoolContract     *)
(* promises them, and the model's key prober (internal/server/prober.go).  *)
(*                                                                         *)
(* Neither Select nor Release of a RoutingSelector is atomic.  Select asks *)
(* one target after the other, each under its own pool's mutex, waits for  *)
(* the secret outside of it, and counts the request against the target     *)
(* only afterwards; Release gives the target back before the pool.         *)
(***************************************************************************)
EXTENDS Integers, Sequences, FiniteSets, FiniteSetsExt, SequencesExt

CONSTANTS
    Requests,     \* request slots: goroutines of the HTTP server
    Sessions,     \* the session keys requests carry, NoSession among them if
                  \* some carry none; {NoSession} when sticky is off
    NoSession,    \* no session key
    T,            \* number of targets, listed 1 .. T
    Keys,         \* the credentials of all pools
    NoKey,        \* no credential selected
    KeysOf,       \* [Targets -> SUBSET Keys]; targets may share a pool
    Routings,     \* the strategies a route of this instance may have
    MaxRetries,   \* maxRetries
    OutcomeKinds, \* how a call to upstream can end in this instance
    SourceFails,  \* can a credential source fail?
    SlotBound     \* bound: no probe of a key counted that often

Targets == 1 .. T
Strategies == {"fallback", "round_robin", "least_requests"}

\* ok: a 2xx, or a stream delivered to its end, however that was
\* badRequest: ToUpstream fails; rejected: a 4xx of this target
\* limited: 429; overload: 5xx; error: no response or an unreadable one
\* deadline: the request's own context ran out
Kinds ==
    {"ok", "badRequest", "rejected", "limited", "overload", "error", "deadline"}
Terminal == {"ok", "badRequest", "deadline"}

ASSUME ExecutorAssumption ==
    /\ IsFiniteSet(Requests)
    /\ NoKey \notin Keys
    /\ T \in Nat \ {0}
    /\ KeysOf \in [Targets -> SUBSET Keys]
    /\ Routings \subseteq Strategies
    /\ MaxRetries \in Nat \ {0}
    /\ OutcomeKinds \subseteq Kinds
    /\ SourceFails \in BOOLEAN
    /\ SlotBound \in Nat

VARIABLES
    slots, status, \* the pools: see PoolContract
    route,         \* the strategy of the route, fixed when it is built
    load,          \* [Targets -> Int], routingTarget.inFlight
    turn,          \* rrIdx modulo the number of targets
    bound,         \* [Sessions -> target, 0 when there is no live binding]
    call,          \* [Requests -> where the request stands]
    prober         \* the model's key prober

pools == <<slots, status>>
vars == <<slots, status, route, load, turn, bound, call, prober>>

Pool == INSTANCE PoolContract

Phases == {"idle", "selecting", "scanning", "fetching", "calling",
           "releasing", "crashed"}
NoCall ==
    [pc |-> "idle", session |-> NoSession, tries |-> 0,
     left |-> <<>>, sticky |-> FALSE, target |-> 0, key |-> NoKey, outcome |-> "ok"]
RestingProber(phase) ==
    [phase |-> phase, lifted |-> {}, plans |-> {}, success |-> FALSE]

Init ==
    /\ Pool!Init
    /\ route \in Routings
    /\ load = [t \in Targets |-> 0]
    /\ turn = 0
    /\ bound = [s \in Sessions |-> 0]
    /\ call = [r \in Requests |-> NoCall]
    /\ prober = RestingProber("stopped")

-----------------------------------------------------------------------------
(* RoutingSelector.Select.                                                 *)

\* Mutant of Rotated: the loop stops one target short.
RotatedShort(first) == [i \in 1 .. T - 1 |-> ((first + i - 1) % T) + 1]
Rotated(first) == [i \in Targets |-> ((first + i - 1) % T) + 1]
\* Loads are read once, and sort.Slice leaves equal ones in any order.
LeastLoadedFirst ==
    {order \in SetToSeqs(Targets) :
        \A i, j \in Targets : i < j => load[order[i]] <= load[order[j]]}
NextTurn == (turn + 1) % T
\* Mutant of Orders: fallback balances as well.
OrdersByLoad ==
    IF route = "round_robin" THEN {Rotated(NextTurn)} ELSE LeastLoadedFirst
\* The orders in which the targets may be tried.
Orders ==
    CASE route = "round_robin" -> {Rotated(NextTurn)}
      [] route = "least_requests" -> LeastLoadedFirst
      [] OTHER -> {Rotated(0)}

\* The sticky target of a request, 0 without one; fallback ignores sessions.
Sticky(r) == route # "fallback" /\ call[r].session # NoSession
StickyTarget(r) ==
    IF Sticky(r)
    THEN bound[call[r].session] ELSE 0

Scan(r, order, sticky) ==
    call' = [call EXCEPT ![r].pc = "scanning", ![r].left = order,
                         ![r].sticky = sticky]

\* All targets in the order of the strategy.
ScanAll(r) ==
    /\ \E order \in Orders : Scan(r, order, FALSE)
    /\ turn' = IF route = "round_robin" THEN NextTurn ELSE turn
    /\ UNCHANGED <<pools, route, load, bound, prober>>

\* A request arrives at the executor.
Arrive(r, s) ==
    /\ call[r].pc = "idle"
    /\ call' = [call EXCEPT ![r] =
                    [NoCall EXCEPT !.pc = "selecting", !.session = s]]
    /\ UNCHANGED <<pools, route, load, turn, bound, prober>>

\* The next attempt: the sticky target first, if the session has one.
Select(r) ==
    /\ call[r].pc = "selecting"
    /\ call[r].tries < MaxRetries
    /\ IF StickyTarget(r) # 0
       THEN /\ Scan(r, <<StickyTarget(r)>>, TRUE)
            /\ UNCHANGED <<pools, route, load, turn, bound, prober>>
       ELSE ScanAll(r)

\* The pool of the next target hands out a key.
TakeKey(r) ==
    /\ call[r].pc = "scanning"
    /\ call[r].left # <<>>
    /\ \E k \in KeysOf[Head(call[r].left)] :
        /\ Pool!Take(k)
        /\ call' = [call EXCEPT ![r].pc = "fetching", ![r].key = k,
                                ![r].target = Head(call[r].left)]
    /\ UNCHANGED <<route, load, turn, bound, prober>>

\* The pool of the next target has ErrNoSelection.
TargetRefuses(r) ==
    /\ call[r].pc = "scanning"
    /\ call[r].left # <<>>
    /\ Pool!Refuse(KeysOf[Head(call[r].left)])
    /\ call' = [call EXCEPT ![r].left = Tail(@)]
    /\ UNCHANGED <<pools, route, load, turn, bound, prober>>

\* The sticky target had nothing: the strategy decides.
StickyExhausted(r) ==
    /\ call[r].pc = "scanning"
    /\ call[r].left = <<>>
    /\ call[r].sticky
    /\ ScanAll(r)

\* No target had a key: the request fails and the prober is triggered,
\* unless it is running (or has not yet cleared its running flag).
NoSelection(r) ==
    /\ call[r].pc = "scanning"
    /\ call[r].left = <<>>
    /\ ~call[r].sticky
    /\ call' = [call EXCEPT ![r] = NoCall]
    /\ prober' = IF prober.phase = "stopped"
                 THEN RestingProber("waiting") ELSE prober
    /\ UNCHANGED <<pools, route, load, turn, bound>>

\* The source of the key fails: the pool takes the slot back.  The sticky path goes on with
\* the other targets.  Otherwise Select returns an error that is not
\* ErrNoSelection, and the executor uses the nil plan that comes with it.
FetchFailed(r) ==
    /\ SourceFails
    /\ call[r].pc = "fetching"
    /\ \E s \in {status[call[r].key], "broken"} : Pool!Give(call[r].key, s)
    /\ call' =
        [call EXCEPT ![r].pc = IF call[r].sticky THEN "scanning" ELSE "crashed",
                     ![r].left = <<>>, ![r].key = NoKey, ![r].target = 0]
    /\ UNCHANGED <<route, load, turn, bound, prober>>

\* net/http recovers the panic and drops the connection.
Recovered(r) ==
    /\ call[r].pc = "crashed"
    /\ call' = [call EXCEPT ![r] = NoCall]
    /\ UNCHANGED <<pools, route, load, turn, bound, prober>>

\* Mutant of Wrap: the sticky path forgets to wrap its plan.
WrapUnlessSticky(r) ==
    /\ call[r].pc = "fetching"
    /\ load' = IF call[r].sticky THEN load
               ELSE [load EXCEPT ![call[r].target] = @ + 1]
    /\ bound' = IF Sticky(r) /\ ~call[r].sticky
                THEN [bound EXCEPT ![call[r].session] = call[r].target]
                ELSE bound
    /\ call' = [call EXCEPT ![r].pc = "calling"]
    /\ UNCHANGED <<pools, route, turn, prober>>
\* The secret arrives, the session is bound (not again by the sticky path),
\* the request is counted against the target, and upstream is called.
Wrap(r) ==
    /\ call[r].pc = "fetching"
    /\ load' = [load EXCEPT ![call[r].target] = @ + 1]
    /\ bound' = IF Sticky(r) /\ ~call[r].sticky
                THEN [bound EXCEPT ![call[r].session] = call[r].target]
                ELSE bound
    /\ call' = [call EXCEPT ![r].pc = "calling"]
    /\ UNCHANGED <<pools, route, turn, prober>>

\* affinityMap.Get drops a binding that has been idle for too long.
BindingExpires(s) ==
    /\ bound[s] # 0
    /\ bound' = [bound EXCEPT ![s] = 0]
    /\ UNCHANGED <<pools, route, load, turn, call, prober>>

-----------------------------------------------------------------------------
(* The end of an attempt: Release through the hook of the plan.            *)

\* The hook gives the target back first.
Unhook(r, o) ==
    /\ call[r].pc = "calling"
    /\ load' = [load EXCEPT ![call[r].target] = @ - 1]
    /\ call' = [call EXCEPT ![r].pc = "releasing", ![r].outcome = o]
    /\ UNCHANGED <<pools, route, turn, bound, prober>>

\* What the outcome may do to the health of the key: see Settle in CredPool.
StatusAfter(k, o) ==
    CASE o \in {"limited", "overload"} /\ status[k] = "free" -> {"free", "limited"}
      [] o = "error" -> {status[k], "broken"}
      [] OTHER -> {status[k]}

\* Mutants of Settle: a rejected attempt is not counted; a request that could
\* not be translated is released and sent all the same.
SettleUncounted(r) ==
    /\ call[r].pc = "releasing"
    /\ \E s \in StatusAfter(call[r].key, call[r].outcome) :
        Pool!Give(call[r].key, s)
    /\ call' =
        [call EXCEPT ![r] =
            IF call[r].outcome \in Terminal THEN NoCall
            ELSE [NoCall EXCEPT !.pc = "selecting",
                                !.session = call[r].session,
                                !.tries = call[r].tries]]
    /\ UNCHANGED <<route, load, turn, bound, prober>>
SettleWithoutReturn(r) ==
    /\ call[r].pc = "releasing"
    /\ slots' = [slots EXCEPT ![call[r].key] = IF @ > 0 THEN @ - 1 ELSE @]
    /\ call' =
        [call EXCEPT ![r] =
            IF call[r].outcome = "badRequest"
            THEN [call[r] EXCEPT !.pc = "fetching", !.outcome = "ok"]
            ELSE NoCall]
    /\ UNCHANGED <<status, route, load, turn, bound, prober>>
\* Then the pool; the request is over or goes on to its next attempt.
Settle(r) ==
    /\ call[r].pc = "releasing"
    /\ \E s \in StatusAfter(call[r].key, call[r].outcome) :
        Pool!Give(call[r].key, s)
    /\ call' =
        [call EXCEPT ![r] =
            IF call[r].outcome \in Terminal THEN NoCall
            ELSE [NoCall EXCEPT !.pc = "selecting",
                                !.session = call[r].session,
                                !.tries = call[r].tries + 1]]
    /\ UNCHANGED <<route, load, turn, bound, prober>>

\* Every attempt has been used.
GiveUp(r) ==
    /\ call[r].pc = "selecting"
    /\ call[r].tries = MaxRetries
    /\ call' = [call EXCEPT ![r] = NoCall]
    /\ UNCHANGED <<pools, route, load, turn, bound, prober>>

-----------------------------------------------------------------------------
(* The prober, which has the keys of the first target only.                *)

ProberAfter(phase, lifted, plans, success) ==
    IF lifted # {}
    THEN [phase |-> "fetching", lifted |-> lifted, plans |-> plans,
          success |-> FALSE]
    ELSE IF plans # {}
    THEN [phase |-> "probing", lifted |-> {}, plans |-> plans,
          success |-> success]
    ELSE IF phase = "probing" /\ ~success
    THEN RestingProber("waiting")
    ELSE RestingProber("stopping")

TakeRateLimited ==
    /\ prober.phase = "waiting"
    /\ \E S \in SUBSET KeysOf[1] :
        /\ \A k \in S : slots[k] < SlotBound
        /\ Pool!Lift(KeysOf[1], S)
        /\ prober' = ProberAfter("fetching", S, {}, FALSE)
    /\ UNCHANGED <<route, load, turn, bound, call>>

ProbeFetched(k) ==
    /\ prober.phase = "fetching" /\ k \in prober.lifted
    /\ prober' = ProberAfter("fetching", prober.lifted \ {k},
                             prober.plans \cup {k}, FALSE)
    /\ UNCHANGED <<pools, route, load, turn, bound, call>>

ProbeFetchFailed(k) ==
    /\ SourceFails
    /\ prober.phase = "fetching" /\ k \in prober.lifted
    /\ \E s \in {status[k], "limited"} : Pool!Give(k, s)
    /\ prober' = ProberAfter("fetching", prober.lifted \ {k}, prober.plans, FALSE)
    /\ UNCHANGED <<route, load, turn, bound, call>>

\* RoutingSelector.Release calls the hook of the plan, but the plans of
\* TakeRateLimited have none: nothing reaches the pool.
ProbeReleased(k, success) ==
    /\ prober.phase = "probing" /\ k \in prober.plans
    /\ prober' = ProberAfter("probing", {}, prober.plans \ {k},
                             prober.success \/ success)
    /\ UNCHANGED <<pools, route, load, turn, bound, call>>

ProberStops ==
    /\ prober.phase = "stopping"
    /\ prober' = RestingProber("stopped")
    /\ UNCHANGED <<pools, route, load, turn, bound, call>>

\* A cool-down ends.
CoolDownEnds(k) ==
    /\ status[k] # "free"
    /\ Pool!Expire({k})
    /\ UNCHANGED <<route, load, turn, bound, call, prober>>

-----------------------------------------------------------------------------

\* The steps of the goroutine of a request.
Step(r) ==
    \/ Select(r) \/ TakeKey(r) \/ TargetRefuses(r) \/ StickyExhausted(r)
    \/ NoSelection(r) \/ Wrap(r) \/ FetchFailed(r) \/ Recovered(r)
    \/ Settle(r) \/ GiveUp(r)
    \/ \E o \in OutcomeKinds : Unhook(r, o)

Next ==
    \/ \E r \in Requests, s \in Sessions : Arrive(r, s)
    \/ \E r \in Requests : Step(r)
    \/ \E s \in Sessions : BindingExpires(s)
    \/ TakeRateLimited
    \/ \E k \in Keys :
        \/ ProbeFetched(k) \/ ProbeFetchFailed(k)
        \/ \E success \in BOOLEAN : ProbeReleased(k, success)
    \/ ProberStops
    \/ \E k \in Keys : CoolDownEnds(k)

Spec == Init /\ [][Next]_vars

\* The runtime schedules every request; secrets and answers come or fail
\* within the request's deadline (context.WithTimeout).  Nothing else is fair:
\* neither the clients nor the prober nor the cool-downs.
Fairness == \A r \in Requests : WF_vars(Step(r))
FairSpec == Spec /\ Fairness

-----------------------------------------------------------------------------
(* Properties.                                                             *)

Using(k) ==
    {r \in Requests :
        /\ call[r].pc \in {"fetching", "calling", "releasing"}
        /\ call[r].key = k}
Probing(k) == k \in prober.lifted \cup prober.plans
Calling(t) == {r \in Requests : call[r].pc = "calling" /\ call[r].target = t}

Calls ==
    [pc : Phases, session : Sessions \cup {NoSession}, tries : 0 .. MaxRetries,
     left : Seq(Targets), sticky : BOOLEAN,
     target : Targets \cup {0}, key : Keys \cup {NoKey}, outcome : Kinds]
Probers ==
    [phase : {"stopped", "waiting", "fetching", "probing", "stopping"},
     lifted : SUBSET Keys, plans : SUBSET Keys, success : BOOLEAN]

\* Type correctness.
TypeOK ==
    /\ slots \in [Keys -> Nat]
    /\ status \in [Keys -> Pool!Statuses]
    /\ route \in Routings
    /\ load \in [Targets -> Nat]
    /\ turn \in 0 .. T - 1
    /\ bound \in [Sessions -> Targets \cup {0}]
    /\ call \in [Requests -> Calls]
    /\ prober \in Probers

\* What least_requests routes by is the number of requests really out at the
\* target: no path (sticky, retry, failed source) counts one twice or forgets
\* to count it back.
LoadExact == \A t \in Targets : load[t] = Cardinality(Calling(t))

\* No key is released more often than it is used: whoever holds one is
\* counted, so the clamp in CredPool.Release never hides a second release.
SlotsCoverUses ==
    \A k \in Keys :
        slots[k] >= Cardinality(Using(k)) + IF Probing(k) THEN 1 ELSE 0

\* What the accounting rests on: an attempt that has a key names it and its
\* target and is not yet counted among the tries, and the prober has a key on
\* one of its lists only.
CallsWellFormed ==
    \A r \in Requests :
        /\ call[r].pc \in {"fetching", "calling", "releasing"} =>
                call[r].key \in Keys /\ call[r].target \in Targets
        /\ call[r].pc \in {"scanning", "fetching", "calling", "releasing"} =>
                call[r].tries < MaxRetries
ProbesApart == prober.lifted \cap prober.plans = {}

\* The inductive invariant of the executor.
IInv ==
    TypeOK /\ CallsWellFormed /\ ProbesApart /\ LoadExact /\ SlotsCoverUses

\* Every request is answered: the retries end, whatever upstream, the other
\* requests and the prober do.
EveryRequestEnds ==
    \A r \in Requests : call[r].pc # "idle" ~> call[r].pc = "idle"
=============================================================================
