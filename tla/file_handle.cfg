SPECIFICATION FairSpec
CONSTANTS
  Handlers = {h1, h2}
  MaxPlace = 1
  Size = 1
  MaxWrites = 2
INVARIANTS
  TypeOK
  RegularFile
PROPERTIES
  ImplementsAtomicFile
  FlushReturns
