------------------------------- MODULE Fleet -------------------------------
(***************************************************************************)
(* The objects of a management cluster and what the cloud holds for them:  *)
(* several YandexClusters whose balancers share the name space of a        *)
(* folder, machine templates and the machines cloned from them.  The       *)
(* webhooks decide which requests are stored.  A reconcile is one step per *)
(* call that changes the cloud; YandexCluster has its detail.              *)
(***************************************************************************)
EXTENDS Webhooks

CONSTANTS
    Clusters,      \* slots for YandexClusters
    Namespaces,
    ClusterNames,  \* names of Clusters
    Folders,
    Written,       \* the hosts that users write in a spec
    GivenNames,    \* what users write in loadBalancer.name, << >> for none
    Ports,
    ListenerPort,  \* the port of every listener
    TemplateNames,
    MachineNames,  \* names users give to machines of their own
    MachineSpecs,
    MaxObjects,    \* how many objects are ever created
    MaxMoves       \* how often a YandexCluster's folder is changed

ASSUME FleetAssumption ==
    /\ Written \subseteq Hosts
    /\ ListenerPort \in 1 .. 65535
    /\ MaxObjects \in Nat
    /\ MaxMoves \in Nat

(* Every object has a name. *)
ASSUME NamesAssumption ==
    /\ ClusterNames \subseteq Seq(STRING) \ {<< >>}
    /\ GivenNames \subseteq Seq(STRING)
    /\ TemplateNames \subseteq Seq(STRING) \ {<< >>}

LBTypes == {"ALB", "NLB"}

Balancers == [type : LBTypes, name : GivenNames, addr : Written]
Endpoints(hosts) == [host : hosts, port : Ports \cup {0, ListenerPort}]

(* Specs whose endpoint is on one of these hosts. *)
ClusterSpec(hosts) == [ns     : Namespaces,
                       name   : ClusterNames,
                       folder : Folders,
                       lb     : Balancers,
                       ep     : Endpoints(hosts)]

Admitted == {spec \in ClusterSpec(Written) : ValidateCreateCluster(spec)}

Object == [spec     : ClusterSpec(Hosts),
           fin      : BOOLEAN,      \* ClusterFinalizer
           deleting : BOOLEAN,      \* deletionTimestamp
           ready    : BOOLEAN]      \* status.ready

(* A nil pointer is no object. *)
ASSUME NilAssumption == Nil \notin Object

Template == [name : TemplateNames, spec : MachineSpecs, pid : {Nil, "id"}]

Machine == [name   : MachineNames \cup {CloneName(n) : n \in TemplateNames},
            spec   : MachineSpecs,
            pid    : {Nil, "id"},
            cloned : BOOLEAN]

VARIABLES
    store,      \* the YandexCluster in each slot, or Nil
    template,   \* the YandexMachineTemplate, or Nil
    machine,    \* the YandexMachine, or Nil
    groups,     \* the target and backend groups that exist, by identity
    balancers,  \* the load balancers that exist: identity and address
    tangled,    \* history: identities two objects named, or one moved from
    created,    \* history: how many objects were created
    moves       \* history: how often a folder was changed

vars == <<store, template, machine, groups, balancers, tangled, created, moves>>

LBName == [given \in GivenNames |-> [name \in ClusterNames |-> GetLBName(given, name)]]

(* The folder and the name by which all resources of a cluster are found. *)
Identity(spec) == [folder |-> spec.folder, name |-> LBName[spec.lb.name][spec.name]]

Identities == [folder : Folders,
               name   : {GetLBName(g, n) : g \in GivenNames, n \in ClusterNames}]

(* Objects, groups and balancers have their types: an endpoint, once the   *)
(* reconciler or a user has set it, is on a listener or a written port.    *)
TypeOK ==
    /\ store \in [Clusters -> Object \cup {Nil}]
    /\ template \in Template \cup {Nil}
    /\ machine \in Machine \cup {Nil}
    /\ groups \subseteq Identities
    /\ balancers \subseteq [id : Identities, addr : Hosts]
    /\ tangled \subseteq Identities
    /\ created \in 0 .. MaxObjects
    /\ moves \in 0 .. MaxMoves

Init ==
    /\ store = [c \in Clusters |-> Nil]
    /\ template = Nil
    /\ machine = Nil
    /\ groups = {}
    /\ balancers = {}
    /\ tangled = {}
    /\ created = 0
    /\ moves = 0

Stored == {c \in Clusters : store[c] # Nil}

(* One more object is created, within the bound. *)
Created ==
    /\ created < MaxObjects
    /\ created' = created + 1
    /\ UNCHANGED moves

-----------------------------------------------------------------------------
(***************************************************************************)
(* YandexClusters.                                                         *)
(***************************************************************************)

Others(c, spec) == {d \in Stored \ {c} : Identity(store[d].spec) = Identity(spec)}

(* The object in slot c is written with this spec. *)
Tangle(c, spec) ==
    tangled' = tangled
        \cup (IF Others(c, spec) # {} THEN {Identity(spec)} ELSE {})
        \cup (IF store[c] # Nil /\ spec.folder # store[c].spec.folder
              THEN {Identity(store[c].spec), Identity(spec)} ELSE {})

CreateCluster(c) ==
    /\ store[c] = Nil
    /\ Created
    /\ \E spec \in Admitted :
          /\ \A d \in Stored : <<spec.ns, spec.name>> # <<store[d].spec.ns, store[d].spec.name>>
          /\ store' = [store EXCEPT ![c] = [spec |-> spec, fin |-> FALSE,
                                            deleting |-> FALSE, ready |-> FALSE]]
          /\ Tangle(c, spec)
    /\ UNCHANGED <<template, machine, groups, balancers>>

(* One field changes at a time: the webhook's conditions are independent.  *)
Edits(spec) == {[spec EXCEPT !.folder = f] : f \in Folders}
               \cup {[spec EXCEPT !.lb = lb] : lb \in Balancers}
               \cup {[spec EXCEPT !.ep = ep] : ep \in Endpoints(Written)}

UpdateCluster(c) ==
    /\ store[c] # Nil
    /\ \E spec \in Edits(store[c].spec) :
          /\ ValidateUpdateCluster(spec, store[c].spec)
          /\ store' = [store EXCEPT ![c].spec = spec]
          /\ Tangle(c, spec)
          /\ moves' = IF spec.folder = store[c].spec.folder THEN moves ELSE moves + 1
    /\ moves' <= MaxMoves
    /\ UNCHANGED <<template, machine, groups, balancers, created>>

DeleteCluster(c) ==
    /\ store[c] # Nil
    /\ ~ store[c].deleting
    /\ store' = [store EXCEPT ![c] = IF store[c].fin
                                     THEN [@ EXCEPT !.deleting = TRUE] ELSE Nil]
    /\ UNCHANGED <<template, machine, groups, balancers, tangled, created, moves>>

AddFinalizer(c) ==
    /\ ~ store[c].fin
    /\ store' = [store EXCEPT ![c].fin = TRUE]
    /\ UNCHANGED <<groups, balancers>>

Found(c) == {b \in balancers : b.id = Identity(store[c].spec)}

(* Mutant: the endpoint has the port of the backends. *)
BackendEndpoint(b) == [host |-> b.addr, port |-> 6443]

ListenerEndpoint(b) == [host |-> b.addr, port |-> ListenerPort]

(* No balancer has the endpoint of this cluster, and none ever will. *)
Unrecoverable(c) ==
    LET spec == store[c].spec IN
    \/ /\ Found(c) = {}
       /\ spec.ep.host # NoHost /\ spec.ep.port # 0
       /\ spec.lb.addr = NoHost
    \/ \E b \in Found(c) : \/ spec.lb.addr \notin {NoHost, b.addr}
                           \/ spec.ep \notin {NoEndpoint, ListenerEndpoint(b)}

(* The cloud gives the address asked for, or a free one. *)
CreateBalancer(c) ==
    LET spec == store[c].spec IN
    /\ Found(c) = {}
    /\ \E a \in {h \in Hosts : isIPv4(h)} \ {b.addr : b \in balancers} :
          /\ spec.lb.addr \in {NoHost, a}
          /\ balancers' = balancers \cup {[id |-> Identity(spec), addr |-> a]}
    /\ UNCHANGED store

Publish(c) ==
    /\ \E b \in Found(c) :
          LET spec == [store[c].spec EXCEPT !.ep = ListenerEndpoint(b)] IN
          /\ ValidateUpdateCluster(spec, store[c].spec)
          /\ store' = [store EXCEPT ![c].spec = spec, ![c].ready = TRUE]
    /\ UNCHANGED balancers

(* Every operation on a network load balancer fails, deletion included. *)
Supported(c) == store[c].spec.lb.type = "ALB"

(* A pass adds the finalizer, or sees to the groups before the balancer. *)
Reconcile(c) ==
    /\ store[c] # Nil
    /\ ~ store[c].deleting
    /\ \/ AddFinalizer(c)
       \/ /\ store[c].fin
          /\ Supported(c)
          /\ groups' = groups \cup {Identity(store[c].spec)}
          /\ IF Unrecoverable(c)
             THEN UNCHANGED <<store, balancers>>
             ELSE CreateBalancer(c) \/ Publish(c)
    /\ UNCHANGED <<template, machine, tangled, created, moves>>

(* The balancer, then the groups, then the finalizer and with it the object. *)
ReconcileDelete(c) ==
    /\ store[c] # Nil
    /\ store[c].deleting
    /\ Supported(c)
    /\ \/ /\ Found(c) # {}
          /\ balancers' = balancers \ Found(c)
          /\ UNCHANGED <<store, groups>>
       \/ /\ Found(c) = {}
          /\ Identity(store[c].spec) \in groups
          /\ groups' = groups \ {Identity(store[c].spec)}
          /\ UNCHANGED <<store, balancers>>
       \/ /\ Found(c) = {}
          /\ Identity(store[c].spec) \notin groups
          /\ store' = [store EXCEPT ![c] = Nil]
          /\ UNCHANGED <<groups, balancers>>
    /\ UNCHANGED <<template, machine, tangled, created, moves>>

-----------------------------------------------------------------------------
(***************************************************************************)
(* YandexMachineTemplates and YandexMachines.                              *)
(***************************************************************************)
CreateTemplate ==
    /\ template = Nil
    /\ Created
    /\ \E t \in Template :
          /\ ValidateCreateTemplate(t)
          /\ template' = t
    /\ UNCHANGED <<store, machine, groups, balancers, tangled>>

UpdateTemplate ==
    /\ template # Nil
    /\ \E t \in Template :
          /\ t.name = template.name
          /\ ValidateUpdateTemplate(t, template)
          /\ template' = t
    /\ UNCHANGED <<store, machine, groups, balancers, tangled, created, moves>>

DeleteTemplate ==
    /\ template # Nil
    /\ template' = Nil
    /\ UNCHANGED <<store, machine, groups, balancers, tangled, created, moves>>

(* The Cluster API clones the template, whatever it holds; users may write *)
(* a machine of their own.                                                 *)
CreateMachine ==
    /\ machine = Nil
    /\ Created
    /\ \E m \in Machine :
          /\ IF m.cloned
             THEN /\ template # Nil
                  /\ m.name = CloneName(template.name)
                  /\ m.spec = template.spec
                  /\ m.pid = template.pid
             ELSE m.name \in MachineNames
          /\ ValidateCreateMachine(m)
          /\ machine' = m
    /\ UNCHANGED <<store, template, groups, balancers, tangled>>

UpdateMachine ==
    /\ machine # Nil
    /\ \E spec \in MachineSpecs, pid \in {Nil, "id"} :
          LET m == [machine EXCEPT !.spec = spec, !.pid = pid] IN
          /\ ValidateUpdateMachine(m, machine)
          /\ machine' = m
    /\ UNCHANGED <<store, template, groups, balancers, tangled, created, moves>>

(* A machine without an id gets an instance under its name. *)
Deploy ==
    /\ machine # Nil
    /\ machine.pid = Nil
    /\ CloudName(machine.name)
    /\ machine' = [machine EXCEPT !.pid = "id"]
    /\ UNCHANGED <<store, template, groups, balancers, tangled, created, moves>>

DeleteMachine ==
    /\ machine # Nil
    /\ machine' = Nil
    /\ UNCHANGED <<store, template, groups, balancers, tangled, created, moves>>

Next ==
    \/ \E c \in Clusters : \/ CreateCluster(c)
                           \/ UpdateCluster(c)
                           \/ DeleteCluster(c)
                           \/ Reconcile(c)
                           \/ ReconcileDelete(c)
    \/ CreateTemplate
    \/ UpdateTemplate
    \/ DeleteTemplate
    \/ CreateMachine
    \/ UpdateMachine
    \/ Deploy
    \/ DeleteMachine

Spec == Init /\ [][Next]_vars

-----------------------------------------------------------------------------
(***************************************************************************)
(* Properties.                                                             *)
(***************************************************************************)

(* A stored YandexCluster is one the reconciler can serve: an application  *)
(* load balancer, a listener address it can ask for, and an endpoint that  *)
(* is either empty or complete, never half set.  Updates check neither the *)
(* type nor the listener and rely on both being immutable.                 *)
Servable ==
    \A c \in Stored :
        LET spec == store[c].spec IN
        /\ spec.lb.type = "ALB"
        /\ spec.lb.addr = NoHost \/ isIPv4(spec.lb.addr)
        /\ spec.ep = NoEndpoint \/ isControlPlaneEndpointValid(spec.ep)

(* A generated balancer name fits the cloud's 63 characters, and the cloud *)
(* accepts it for every Cluster whose name starts with a letter.           *)
BalancerNameFits ==
    \A c \in Stored :
        LET spec == store[c].spec
            name == Identity(spec).name IN
        spec.lb.name = << >> =>
            /\ Len(name.text) <= 63
            /\ spec.name[1] \in Letters => CloudName(name.text)

(* Two YandexClusters with generated names meet at one balancer of a folder *)
(* only when their Clusters' names differ in no letter, digit or hyphen:   *)
(* the rule for long names adds no collision.                              *)
DistinctClustersApart ==
    \A c, d \in Stored :
        /\ store[c].spec.lb.name = << >>
        /\ store[d].spec.lb.name = << >>
        /\ Identity(store[c].spec) = Identity(store[d].spec)
        => clearString(store[c].spec.name) = clearString(store[d].spec.name)

(* A ready YandexCluster has the balancer that its endpoint names, unless   *)
(* its identity was ever shared or left by a change of folder.             *)
EndpointBacked ==
    \A c \in Stored :
        store[c].ready /\ ~ store[c].deleting =>
            \/ Identity(store[c].spec) \in tangled
            \/ \E b \in Found(c) :
                  store[c].spec.ep = [host |-> b.addr, port |-> ListenerPort]

(* What the cloud holds for YandexClusters belongs to a stored one that     *)
(* still has the finalizer, unless its identity was shared or left.        *)
NothingLeftBehind ==
    groups \cup {b.id : b \in balancers} \subseteq
        tangled \cup {Identity(store[c].spec) : c \in {d \in Stored : store[d].fin}}

(* A machine cloned from an admitted template can be deployed: its name is *)
(* one the cloud accepts, and no template carries the provider ID of an    *)
(* instance that all its clones would share.                               *)
ClonesDeployable ==
    /\ template # Nil => template.pid = Nil
    /\ machine # Nil /\ machine.cloned => CloudName(machine.name)

-----------------------------------------------------------------------------
(***************************************************************************)
(* What FleetProofs needs beside the properties.                           *)
(***************************************************************************)

(* Two stored objects with one identity are known to share it: no create,  *)
(* edit or deletion makes them meet unnoticed.                             *)
SharingKnown ==
    \A c, d \in Stored :
        c # d /\ Identity(store[c].spec) = Identity(store[d].spec)
            => Identity(store[c].spec) \in tangled

(* The name of a stored template leaves room for the end of a clone's.     *)
TemplateNamed == template # Nil => nameRegex(template.name)

(* The objects in the store, what the cloud holds for them and what users  *)
(* wrote agree with one another: the inductive invariant.                  *)
FleetInv ==
    /\ TypeOK
    /\ Servable
    /\ SharingKnown
    /\ EndpointBacked
    /\ NothingLeftBehind
    /\ TemplateNamed
    /\ ClonesDeployable
=============================================================================
