-------------------------- MODULE MCEventKeyLifecycle --------------------------
(* Instances of the event-key lifecycle for TLC.                            *)
EXTENDS EventKeyLifecycle, TLC

CONSTANTS w1, w2, w3, e1, e2

MCProcs == {w1, w2, w3}
MCRecoverers == {w3}
MCIds == {e1, e2}

MCSymmetry == Permutations(Procs \ Recoverers) \cup Permutations(Ids)
=============================================================================
