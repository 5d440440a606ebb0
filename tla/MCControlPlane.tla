---------------------------- MODULE MCControlPlane ----------------------------
(* Instances of the control plane for TLC: two processes, one campaign.     *)
EXTENDS ControlPlane, TLC

CONSTANTS p1, p2, c1, d1, none

MCProcs == {p1, p2}
MCCampaigns == {c1}
MCDecisions == {d1}

MCSymmetry == Permutations(MCProcs)
=============================================================================
