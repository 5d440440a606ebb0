SPECIFICATION FairSpec
CONSTANTS
  x1 = x1
  x2 = x2
  x3 = x3
  q1 = q1
  q2 = q2
  none = none
  NoProposal = none
  Proposals <- MCTwoProposals
  Pipes <- MCOnePipe
  MaxActions = 3
  MaxRequests = 3
  PerMinute = 1
  Minute = 1
  Lifetime = 2
  MaxRevision = 2
  MaxTime = 3
INVARIANT
  RateRespected
PROPERTY
  EngagedSwitchSettlesAttempts
