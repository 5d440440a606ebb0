------------------------- MODULE ControlPlaneHistory -------------------------
(* The control plane with a history variable: the decisions that a pause    *)
(* has taken away from a campaign.                                          *)
EXTENDS ControlPlane

VARIABLE withdrawn

WithdrawnByStep ==
  {rows[c].approval : c \in {b \in Campaigns : /\ rows[b].state \in Unsafe
                                               /\ rows'[b].state = "paused"}}

HistoryInit == Init /\ withdrawn = {}
HistoryNext == Next /\ withdrawn' = withdrawn \cup WithdrawnByStep
HistorySpec == HistoryInit /\ [][HistoryNext]_<<vars, withdrawn>>

(* What the repository's own test says of a pause: the campaign "requires a *)
(* fresh campaign approval" before it is approved again, so no approval a   *)
(* pause has withdrawn is ever in force again.                              *)
FreshCampaignApproval ==
  \A c \in Campaigns : rows[c].state \in Unsafe =>
    rows[c].approval \notin withdrawn
=============================================================================
