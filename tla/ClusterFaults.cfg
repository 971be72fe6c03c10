SPECIFICATION Spec
CONSTANTS
  Nil = Nil
  Endpoints = {e1, e2, e3}
  Listeners <- AnyListener
  MaxFaults <- AllOnce
  MaxKinds = 3
SYMMETRY Symmetry
INVARIANTS
  TypeOK
  ClusterInv
  NothingLeft
  TeardownOrder
  EndpointReachable
  ReadyHasEndpoint
  NotForgotten
  SupportInv
PROPERTIES
  FinalizerRespected
CHECK_DEADLOCK FALSE
