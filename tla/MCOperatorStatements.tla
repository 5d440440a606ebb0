------------------------- MODULE MCOperatorStatements -------------------------
(* Instances of the signed operator statements for TLC.                     *)
EXTENDS OperatorStatements, TLC

CONSTANTS p1, p2, k1, k2, a1

MCProcs == {p1, p2}
MCKeys == {k1, k2}
MCApprovals == {a1}

MCSymmetry == Permutations(Procs) \cup Permutations(Keys)
=============================================================================
