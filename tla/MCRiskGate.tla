----------------------------- MODULE MCRiskGate -----------------------------
(* A small instance of RiskGate for TLC. *)
EXTENDS RiskGate, TLC

CONSTANTS o1, o2, o3, a, b, wide, narrow

\* A hard stop of the whole account, and one that only o1 falls under.
Covers == wide :> {o1, o2} @@ narrow :> {o1}
OperatorSymmetry == Permutations({a, b})
=============================================================================
