SPECIFICATION Spec
CONSTANTS
  Lookers = {l1, l2}
  Clients = {c1, c2}
  Names = {c1, c2}
  RootName <- MCRootName
  MaxLookups = 3
SYMMETRY LookerSymmetry
INVARIANTS
  TypeOK
PROPERTIES
  LossOnlyAcrossServices
  ImplementsClosedList
