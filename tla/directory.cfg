SPECIFICATION Spec
CONSTANTS
  Callers = {c1, c2}
  Directories <- MCDirectories
  Roots = {1}
  Names = {"a", "b"}
  FirstEntry <- MCFirstEntry
  FirstKinds <- MCFirstKinds
  Timeouts = TRUE
  EmptyReplies = TRUE
  Nodes <- MCNodes
  DirectoryOf <- MCDirectoryOf
  RootNode = "root"
  Requests <- MCRequests
  OpenNode = "n2"
  MaxCalls = 3
  MaxCloses = 1
SYMMETRY CallerSymmetry
CONSTRAINT OneWorkload
ACTION_CONSTRAINT KeepsToIt
INVARIANTS
  TypeOK
  LookupReturnsANode
  ListingAgreesWithLookup
PROPERTIES
  LockProtects
  ImplementsClosedList
  ImplementsAtomicTree
