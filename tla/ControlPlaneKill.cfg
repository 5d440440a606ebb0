SPECIFICATION FairSpec
CONSTANTS
  p1 = p1
  p2 = p2
  c1 = c1
  d1 = d1
  none = none
  Procs <- MCProcs
  Campaigns <- MCCampaigns
  Decisions <- MCDecisions
  NoDecision = none
  MaxPolicy = 1
  MaxKill = 4
  MaxRevision = 5
INVARIANTS
  TypeOK
  NoCampaignSurvivesAClear
  AuditedEngagementIsPaused
  SignedClearIsUsedOnce
PROPERTY
  EngagedCampaignGetsPaused
