SPECIFICATION FairSpec
CONSTANTS
  Nil = Nil
  m1 = m1
  i1 = i1
  a1 = a1
  e1 = e1
  Machines = {m1}
  ControlPlane = {m1}
  Instances = {i1}
  Addrs = {a1}
  Addr <- OwnAddr
  Endpoints = {e1}
  Listeners = {Nil}
  MachineFaults <- MachineOnce
  ClusterFaults <- ClusterOnce
  MaxKinds = 0
  Ordered = FALSE
PROPERTIES
  EveryDeletionCompletes
CHECK_DEADLOCK FALSE
