SPECIFICATION HistorySpec
CONSTANTS
  p1 = p1
  c1 = c1
  d1 = d1
  none = none
  Procs <- MCProcs
  Campaigns <- MCCampaigns
  Decisions <- MCDecisions
  NoDecision = none
  MaxPolicy = 1
  MaxKill = 1
  MaxRevision = 6
INVARIANT
  FreshCampaignApproval
