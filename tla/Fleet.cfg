SPECIFICATION Spec
CONSTANTS
  Nil = Nil
  NoHost = "none"
  Hosts = {"none", "ip1", "ip2", "ip6"}
  Written = {"none", "ip1", "ip6"}
  AddrType <- MCAddrType
  Clusters = {c1, c2}
  Namespaces = {n1}
  Folders = {f1, f2}
  ClusterNames <- MCClusterNames
  GivenNames <- MCGivenNames
  Ports = {65536}
  ListenerPort = 8443
  TemplateNames <- MCTemplateNames
  MachineNames <- MCMachineNames
  MachineSpecs = {small, large}
  MaxObjects = 2
  MaxMoves = 1
SYMMETRY Symmetry
INVARIANTS
  TypeOK
  Servable
  BalancerNameFits
  DistinctClustersApart
  EndpointBacked
  NothingLeftBehind
  ClonesDeployable
CHECK_DEADLOCK FALSE
