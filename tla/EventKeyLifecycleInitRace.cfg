SPECIFICATION Spec
CONSTANTS
  w1 = w1
  w2 = w2
  w3 = w3
  e1 = e1
  e2 = e2
  NoOwner = NoOwner
  Procs <- MCProcs
  Recoverers <- MCRecoverers
  Ids <- MCIds
  MaxVersion = 3
  MaxLocks = 5
SYMMETRY MCSymmetry
INVARIANT
  InitializationRaceIsDecided
