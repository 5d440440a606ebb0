------------------------------ MODULE MCAuditLog ------------------------------
(* Instances of the audit log for TLC: every process writes, one recovers.  *)
EXTENDS AuditLog, TLC

CONSTANTS w1, w2, w3

MCProcs == {w1, w2, w3}
MCRecoverers == {w3}
MCTwoRecoverers == {w2, w3}

MCSymmetry == Permutations(Procs \ Recoverers)
=============================================================================
