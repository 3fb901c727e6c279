--------------------------- MODULE MCAssistantRun ---------------------------
(* Instances of AssistantRun for TLC.                                      *)
EXTENDS AssistantRun, TLC

CONSTANTS u1, u2, c1, c2, c3

TwoUsers == {u1, u2}
OneUser == {u1}
ThreeCalls == {c1, c2, c3}
TwoCalls == {c1, c2}
OneRound == <<{c1, c2}>>
TwoRounds == <<{c1, c2}, {c3}>>
UserSymmetry == Permutations(TwoUsers)
=============================================================================
