---------------------------- MODULE MCPhaseEngine ---------------------------
(* A session of two phases, and one of none from a validation run.         *)
EXTENDS PhaseEngine

CONSTANTS s1, s2

MCSession == {s1, s2}
MCPhases == [s \in MCSession |-> IF s = s1 THEN <<2, 1>> ELSE <<>>]
=============================================================================
