---------------------------- MODULE PoolContract ----------------------------
(***************************************************************************)
(* What a credential pool promises the layers above it: how many requests  *)
(* and probes use each key, and which keys rest.  CredPool implements it;  *)
(* Executor is built on it.                                                *)
(***************************************************************************)
EXTENDS Integers

CONSTANT Keys

VARIABLES
    slots,  \* [Keys -> Nat], the uses of a key that have not been released
    status  \* [Keys -> Statuses]

Statuses == {"free", "limited", "broken"}

Init ==
    /\ slots = [k \in Keys |-> 0]
    /\ status = [k \in Keys |-> "free"]

\* A key is handed out only while it is free, and the use is counted.
Take(k) ==
    /\ status[k] = "free"
    /\ slots' = [slots EXCEPT ![k] = @ + 1]
    /\ UNCHANGED status

\* The pool with the keys K refuses only when none of them is free.
Refuse(K) == \A k \in K : status[k] # "free"

\* A use ends: it was counted, and it never puts a resting key back to work.
Give(k, s) ==
    /\ slots[k] > 0
    /\ s \in {status[k], "limited", "broken"}
    /\ slots' = [slots EXCEPT ![k] = @ - 1]
    /\ status' = [status EXCEPT ![k] = s]

\* The prober takes every rate-limited key of the pool with the keys K, and
\* none whose breaker is open.
Lift(K, S) ==
    /\ {k \in K : status[k] = "limited"} \subseteq S
    /\ S \subseteq {k \in K : status[k] # "broken"}
    /\ slots' = [k \in Keys |-> IF k \in S THEN slots[k] + 1 ELSE slots[k]]
    /\ status' = [k \in Keys |-> IF k \in S THEN "free" ELSE status[k]]

\* Cool-downs end.
Expire(S) ==
    /\ status' = [k \in Keys |-> IF k \in S THEN "free" ELSE status[k]]
    /\ UNCHANGED slots

\* The process restarts with the health it had stored.
Restart ==
    /\ slots' = [k \in Keys |-> 0]
    /\ status' \in [Keys -> Statuses]

Next ==
    \/ \E k \in Keys : Take(k)
    \/ \E k \in Keys, s \in Statuses : Give(k, s)
    \/ \E S \in SUBSET Keys : Lift(Keys, S) \/ Expire(S)
    \/ Restart

vars == <<slots, status>>
Spec == Init /\ [][Next]_vars
=============================================================================
