SPECIFICATION FairSpec
CONSTANTS
  Nil = Nil
  m1 = m1
  m2 = m2
  i1 = i1
  i2 = i2
  i3 = i3
  a1 = a1
  a2 = a2
  Machines = {m1}
  ControlPlane = {m1}
  Instances = {i1, i2}
  Addrs = {a1, a2}
  Addr <- OwnAddr
  MaxFaults <- LiveFaults
  MaxKinds = 2
PROPERTIES
  DeletionCompletes
  ProvisioningCompletes
CHECK_DEADLOCK FALSE
