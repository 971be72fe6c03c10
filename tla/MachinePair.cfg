SPECIFICATION Spec
CONSTANTS
  Nil = Nil
  m1 = m1
  m2 = m2
  i1 = i1
  i2 = i2
  i3 = i3
  a1 = a1
  a2 = a2
  Machines = {m1, m2}
  ControlPlane = {m1, m2}
  Instances = {i1, i2, i3}
  Addrs = {a1, a2}
  Addr <- SomeShared
  MaxFaults <- Operator
  MaxKinds = 1
SYMMETRY PairSymmetry
INVARIANTS
  NoStrayTarget
  ReadyIsRegistered
  NotForgotten
PROPERTIES
  TargetKept
CHECK_DEADLOCK FALSE
