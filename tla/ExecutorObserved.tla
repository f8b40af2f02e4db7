-------------------------- MODULE ExecutorObserved --------------------------
(***************************************************************************)
(* Executor with a history variable that nothing in it reads: the targets  *)
(* that have had a free key ever since a request began to scan them.       *)
(***************************************************************************)
EXTENDS Executor

VARIABLE steady  \* [Requests -> SUBSET Targets]

Available == {t \in Targets : \E k \in KeysOf[t] : status[k] = "free"}

\* A scan begins when its order is fixed: the targets available then.
Begins(r) ==
    /\ call'[r].pc = "scanning"
    /\ ~call'[r].sticky
    /\ call[r].pc # "scanning" \/ call[r].sticky

Observe ==
    steady' = [r \in Requests |->
                IF Begins(r) THEN Available' ELSE steady[r] \cap Available']

ObservedInit == Init /\ steady = [r \in Requests |-> {}]
ObservedNext == Next /\ Observe
ObservedSpec ==
    ObservedInit /\ [][ObservedNext]_<<vars, steady>> /\ Fairness

\* What a scan knows: a target that has been available all the while has not
\* been asked yet, and fallback, which has no sticky targets, asks in order.
ScansKnow ==
    \A r \in Requests :
        call[r].pc = "scanning" /\ ~call[r].sticky =>
            \A t \in steady[r] :
                \E i \in 1 .. Len(call[r].left) : call[r].left[i] = t
FallbackInOrder ==
    route = "fallback" =>
        \A r \in Requests :
            /\ ~call[r].sticky
            /\ call[r].pc = "scanning" =>
                    \A i, j \in 1 .. Len(call[r].left) :
                        i < j => call[r].left[i] < call[r].left[j]
HistoryInv == IInv /\ ScansKnow /\ FallbackInOrder

\* The scan is not atomic: keys rest and come back, and other requests and the
\* prober take them, between the questions it asks the pools.  Still a request
\* is refused only if no target was available all the while.
RefusalJustified ==
    [][\A r \in Requests :
        NoSelection(r) => steady[r] = {}]_<<vars, steady>>

\* routing_selector.go: fallback is to "advance to next only on
\* ErrNoSelection", so no later target is used while an earlier one was
\* available all the while.
FallbackKeepsPriority ==
    [][\A r \in Requests, t \in Targets :
        (/\ route = "fallback"
         /\ call[r].pc = "scanning"
         /\ call'[r].pc = "fetching" /\ call'[r].target = t)
            => \A u \in 1 .. t - 1 : u \notin steady[r]]_<<vars, steady>>
=============================================================================
