-------------------------- MODULE MCExternalActions --------------------------
(* Instances of the external-action pipeline for TLC.                       *)
EXTENDS ExternalActions, TLC

CONSTANTS x1, x2, x3, q1, q2, none

MCOneProposal == {x1}
MCTwoProposals == {x1, x2}
MCThreeProposals == {x1, x2, x3}
MCOnePipe == {q1}
MCTwoPipes == {q1, q2}

MCSymmetry == Permutations(Proposals) \cup Permutations(Pipes)
=============================================================================
