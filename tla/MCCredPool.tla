----------------------------- MODULE MCCredPool -----------------------------
(* Finite instances of CredPool for TLC. *)
EXTENDS CredPool, TLC

MCTiers == <<1, 2>>
MCShortTier == <<0>>
MCSymmetry == Permutations(Attempts)
=============================================================================
