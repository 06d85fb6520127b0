SPECIFICATION Spec
CONSTANTS
  Size = 3
  SmallVideoBuffer = 2
  MaxPreloadSize = 1
  EofAnswers = TRUE
  MaxTransfers = 3
  Callers = {c1}
  NoCaller = NoCaller
  Requests <- MCRequests
INVARIANTS
  PoolHoldsSlices
