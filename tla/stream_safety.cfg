SPECIFICATION Spec
CONSTANTS
  Size = 3
  SmallVideoBuffer = 2
  MaxPreloadSize = 1
  EofAnswers = TRUE
  MaxTransfers = 3
  Callers = {c1, c2}
  NoCaller = NoCaller
  Requests <- MCRequests
SYMMETRY CallerSymmetry
INVARIANTS
  TypeOK
  WindowExact
  OneOpenTransfer
  FaultsOnlyByClose
PROPERTIES
  AlienOnlyFromSuperseded
  ShortOnlyAtEnd
  PanicOnlyByClose
