---------------------------- MODULE MCPhaseRunner ----------------------------
(* Two calls for one phase, at once or one after the other, for TLC.        *)
EXTENDS PhaseRunnerProperties, TLC

Symmetric == Permutations(Runners)
=============================================================================
