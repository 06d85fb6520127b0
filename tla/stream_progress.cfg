SPECIFICATION FairSpec
CONSTANTS
  Size = 4
  SmallVideoBuffer = 3
  MaxPreloadSize = 1
  EofAnswers = FALSE
  MaxTransfers = 2
  Callers = {c1, c2}
  NoCaller = NoCaller
  Requests <- MCRequestsWide
INVARIANTS
  WaitFitsWindow
PROPERTIES
  ImplementsContract
  CallsReturn
  ClosedStreamQuiesces
