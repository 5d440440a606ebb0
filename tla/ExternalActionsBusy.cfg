SPECIFICATION BusySpec
CONSTANTS
  x1 = x1
  x2 = x2
  x3 = x3
  q1 = q1
  q2 = q2
  none = none
  NoProposal = none
  Proposals <- MCOneProposal
  Pipes <- MCOnePipe
  MaxActions = 1
  MaxRequests = 1
  PerMinute = 1
  Minute = 0
  Lifetime = 1
  MaxRevision = 2
  MaxTime = 0
INVARIANT
  HandledErrorIsSettled
