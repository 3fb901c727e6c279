-------------------------- MODULE MCOrderLifecycle --------------------------
(* Small instances of OrderLifecycle for TLC. *)
EXTENDS OrderLifecycle, TLC

CONSTANTS k1, k2

Handlers == {k1, k2}
OneHandler == {k1}
HandlerSymmetry == Permutations(Handlers)
=============================================================================
