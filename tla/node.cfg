SPECIFICATION Spec
CONSTANTS
  Openers = {o1, o2, o3}
  MaxHandles = 3
  TTL = 2
  MaxTime = 3
  NoUrl = NoUrl
SYMMETRY OpenerSymmetry
INVARIANTS
  TypeOK
  FaultsOnlyByClose
PROPERTIES
  OldUrlOnlyByRace
  ImplementsClosedList
