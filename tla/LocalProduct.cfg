SPECIFICATION LocalProductSpec
CONSTANTS
  MaxRecords = 2
  Environments <- MCEnvironments
  Mailboxes = {"plus_addressing_fixture", "subaddress_fixture"}
  Names = {"demo", "reviewed"}
  InitialName = "demo"
  Exclusions = {TRUE, FALSE}
  Representations = {"human_readable_text", "structured_fixture"}
  Budgets = {4, 8}
  MaxTime = 1
INVARIANTS
  OfferedActionsApply
  SnapshotsAgree
