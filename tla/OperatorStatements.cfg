SPECIFICATION Spec
CONSTANTS
  p1 = p1
  p2 = p2
  k1 = k1
  k2 = k2
  a1 = a1
  NoKey = NoKey
  Procs <- MCProcs
  Keys <- MCKeys
  Approvals <- MCApprovals
  Lifetime = 1
  MaxTime = 1
  MaxKill = 3
  MaxStatements = 6
SYMMETRY MCSymmetry
INVARIANTS
  TypeOK
  ClearDoesNotDecay
  DecisionsStayAuthenticated
  OneKeyForever
  VerificationTimesFollowEvents
