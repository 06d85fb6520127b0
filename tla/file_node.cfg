SPECIFICATION Spec
CONSTANTS
  Openers = {o1, o2, o3}
  MaxOpens = 4
SYMMETRY OpenerSymmetry
INVARIANTS
  TypeOK
  FaultsOnlyByClose
PROPERTIES
  ImplementsClosedList
