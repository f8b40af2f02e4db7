----------------------------- MODULE MCExecutor -----------------------------
(* Finite instances of Executor for TLC. *)
EXTENDS ExecutorObserved, TLC

CONSTANTS k1, k2

\* One pool with one key behind each of two targets.
MCKeysOf == 1 :> {k1} @@ 2 :> {k2}
MCSymmetry == Permutations(Requests)
=============================================================================
