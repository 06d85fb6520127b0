SPECIFICATION FairSpec
CONSTANTS
  Users = {u1, u2}
  Nodes = {x1, x2}
  MaxSignals = 2
INVARIANTS
  TypeOK
  MountLeftOnlyByFailure
  NodesClosedAtExit
  ServingDoesNotCrash
PROPERTIES
  SignalEndsProcess
