SPECIFICATION Spec
CONSTANTS
  w1 = w1
  w2 = w2
  w3 = w3
  NoOwner = NoOwner
  Procs <- MCProcs
  Recoverers <- MCRecoverers
  MaxEntries = 3
  MaxLocks = 7
SYMMETRY MCSymmetry
INVARIANTS
  TypeOK
  MutualExclusion
  ChainIntact
PROPERTIES
  LiveOwnerKeepsLease
  TornLogIsSealed
