------------------------------ MODULE Webhooks ------------------------------
(***************************************************************************)
(* What the validating webhooks admit.  A host is known by its address     *)
(* type; a name that the DNS resolves at that moment has type FQDN.        *)
(***************************************************************************)
EXTENDS Names, Integers

CONSTANTS
    Hosts,      \* hosts and addresses, the empty one included
    AddrType,   \* what getAddrType says of each
    NoHost,     \* the empty host
    Nil         \* no provider ID

ASSUME WebhooksAssumption ==
    /\ NoHost \in Hosts
    /\ AddrType \in [Hosts -> {"Unknown", "FQDN", "IPV4", "IPV6"}]
    /\ AddrType[NoHost] = "Unknown"

NoEndpoint == [host |-> NoHost, port |-> 0]

isIPv4(host) == AddrType[host] = "IPV4"
isIPv4orFQDN(host) == AddrType[host] \in {"IPV4", "FQDN"}

isControlPlaneEndpointValid(ep) ==
    /\ ep.host # NoHost
    /\ ep.port # 0
    /\ isIPv4orFQDN(ep.host)
    /\ ep.port >= 1
    /\ ep.port <= 65535

-----------------------------------------------------------------------------
(* A YandexCluster's spec has the fields folder, lb and ep; lb has the type *)
(* and the name of the balancer and the address of its listener.           *)
ValidateCreateCluster(new) ==
    /\ new.lb.type # "NLB"
    /\ new.lb.addr # NoHost => isIPv4(new.lb.addr)
    /\ new.ep # NoEndpoint => isControlPlaneEndpointValid(new.ep)

(* Mutants: the load balancer may be edited; so may the endpoint. *)
BalancerMutable(new, old) ==
    new.ep # old.ep => /\ old.ep = NoEndpoint
                       /\ isControlPlaneEndpointValid(new.ep)

EndpointMutable(new, old) ==
    new.lb = old.lb

ValidateUpdateCluster(new, old) ==
    /\ new.lb = old.lb
    /\ new.ep # old.ep => /\ old.ep = NoEndpoint
                          /\ isControlPlaneEndpointValid(new.ep)

(* Templates and machines: spec is everything but the provider ID. *)
ValidateCreateTemplate(new) ==
    /\ new.pid = Nil
    /\ nameRegex(new.name)

ValidateUpdateTemplate(new, old) ==
    new.spec = old.spec /\ new.pid = old.pid

ValidateCreateMachine(new) == TRUE

ValidateUpdateMachine(new, old) ==
    new.spec = old.spec
=============================================================================
