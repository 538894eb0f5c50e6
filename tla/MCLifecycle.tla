----------------------------- MODULE MCLifecycle -----------------------------
(* Servers are interchangeable: every kind is tried for each of them.      *)
EXTENDS Lifecycle, TLC

ServerSymmetry == Permutations(Servers)
=============================================================================
