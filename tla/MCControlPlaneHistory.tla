------------------------ MODULE MCControlPlaneHistory ------------------------
(* One process and one campaign are enough to see an approval come back.    *)
EXTENDS ControlPlaneHistory

CONSTANTS p1, c1, d1, none

MCProcs == {p1}
MCCampaigns == {c1}
MCDecisions == {d1}
=============================================================================
