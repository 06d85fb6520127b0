SPECIFICATION SystemSpec
CONSTANTS
  Lookers = {l1, l2}
  Clients = {c1}
  Names = {c1}
  RootName <- MCRootName
  MaxLookups = 2
  Users = {u1}
SYMMETRY LookerSymmetry
INVARIANTS
  TypeOK
  CloseReachesNodes
  NodesClosedOnce
  EarlyNodesClosedAtExit
  RegistryClosedOnce
  HandlersServed
PROPERTIES
  ImplementsRegistry
  ImplementsShutdown
