SPECIFICATION Spec
CONSTANTS
  Decisions <- MCDecisions
  NoDecision = NoDecision
  MaxRecords = 2
  Mailboxes = {"plus_addressing_fixture"}
  Names = {"demo", "reviewed"}
  InitialName = "demo"
  Representations = {"structured_fixture"}
  Exclusions = {TRUE}
  Budgets = {4}
  MaxTime = 1
  Environments <- MCEnvironments
INVARIANTS
  TypeOK
  EngagedSwitchStopsRun
  CampaignInForceHasARun
PROPERTY
  DriftFreezesProduct
