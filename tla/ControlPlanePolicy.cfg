SPECIFICATION Spec
CONSTANTS
  p1 = p1
  p2 = p2
  c1 = c1
  d1 = d1
  none = none
  Procs <- MCProcs
  Campaigns <- MCCampaigns
  Decisions <- MCDecisions
  NoDecision = none
  MaxPolicy = 2
  MaxKill = 2
  MaxRevision = 4
SYMMETRY MCSymmetry
INVARIANT
  ActiveCampaignUsesCurrentPolicy
PROPERTIES
  NoLostUpdate
  StaleOpenCampaignFrozen
  ImplementsCampaignEvidence
