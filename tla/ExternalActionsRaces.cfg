SPECIFICATION Spec
CONSTANTS
  x1 = x1
  x2 = x2
  x3 = x3
  q1 = q1
  q2 = q2
  none = none
  NoProposal = none
  Proposals <- MCThreeProposals
  Pipes <- MCTwoPipes
  MaxActions = 3
  MaxRequests = 3
  PerMinute = 3
  Minute = 0
  Lifetime = 1
  MaxRevision = 4
  MaxTime = 0
SYMMETRY MCSymmetry
INVARIANTS
  TypeOK
  AtMostOneActive
  OneRunnerAtATime
  RunnerAtMostOnce
  SuccessUninterrupted
PROPERTY
  ImplementsAttemptLifecycle
