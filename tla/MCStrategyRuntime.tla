------------------------- MODULE MCStrategyRuntime -------------------------
(***************************************************************************)
(* Finite instances of StrategyRuntime: the constants of each .cfg say how *)
(* many bars close and which disturbances a run may meet.                  *)
(***************************************************************************)
EXTENDS StrategyRuntime
=============================================================================
