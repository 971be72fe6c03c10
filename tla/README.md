# A verification project for cluster-api-provider-yandex

The provider (CAPY) is a Kubernetes controller manager. It turns `YandexCluster`
and `YandexMachine` objects of the Cluster API into an application load balancer
and compute instances of Yandex Cloud. This directory models its two controllers,
their composition and its admission webhooks in TLA+, checks them with TLC and
proves every safety property that the passing runs check with TLAPS.

## 1. Inventory

| Component | State it keeps | Operations | Talks to |
|---|---|---|---|
| YandexMachine controller (`controllers/yandexmachine_controller.go`) | work queue, informer cache | `Reconcile`, `reconcile`, `reconcileDelete`, watches | API server, compute service, machine scope |
| Compute service (`services/compute/reconcile.go`) | none; all state is in the object and the cloud | `Reconcile`, `Delete`, register and deregister a control plane target | cloud client, load balancer service |
| Machine scope (`scope/machine.go`) | the object under work, the patch helper's snapshot | setters, `PatchObject`, `Close`, `GetInstanceReq` | API server |
| YandexCluster controller (`controllers/yandexcluster_controller.go`) | work queue, informer cache, a deadline per reconcile | `Reconcile`, `reconcile`, `reconcileDelete` | API server, load balancer service |
| Load balancer service (`services/loadbalancers/alb.go`) | target group, backend group, balancer, targets in the cloud | `Reconcile`, `Delete`, `IsActive`, `Describe`, `AddTarget`, `RemoveTarget` | cloud client |
| Cluster scope (`scope/cluster.go`) | as machine scope | setters, `Close`, generated names | API server |
| Cloud client (`internal/pkg/client`) | none | one method per API call; `ALBCreate` waits for its operation, `ComputeCreate` does not | Yandex Cloud |
| Webhooks (`api/v1alpha1/*_webhook.go`) | none | `ValidateCreate`, `ValidateUpdate`, `ValidateDelete` | called by the API server |
| Request builders, labels, names | none | pure functions; folder and name are the only identity of a balancer and its groups | |
| NLB service | none | stubs that fail; the type is rejected by the webhook | |
| Manager (`main.go`), options, metrics | configuration, counters | start-up | |

How they interact. Both controllers read objects from informer caches that lag
behind the API server, call the cloud step by step, and write back what they
learned only at the end, in a deferred `Close`. `Close` sends up to three patches
(conditions, metadata and spec, status), each with only the fields that changed
since the object was read. The two controllers share the cloud's target group:
the cluster controller creates and deletes it, the machine controller adds and
removes the addresses of control plane instances. The machine controller reads
the `YandexCluster` object and does nothing at all when it is missing. Both run
in one process: a panic of one stops the other between two of its steps. Several
clusters meet in a folder, where only names tell their balancers apart; which
specs exist at all is decided by the webhooks.

What is hard: state read at the start of a reconcile and used after calls that
take long; a crash between a change in the cloud and the patch that records it;
calls that fail although they took effect; a deadline that the closing patch
shares; finalizers that must be removed neither too early nor never. The list of
these, each with its line and the properties that cover it, is `hazards` in
`PROJECT.json`.

What makes each component correct:

- machine controller and compute service: no instance and no target outlives its
  object; an id that is recorded is not replaced while its instance lives; an
  instance is drained before it is deleted; Ready machines are behind the
  balancer; provisioning and deletion complete;
- cluster controller and load balancer service: nothing is left when the object
  is gone; teardown in order; the endpoint never leads to
  another balancer; Ready only with an endpoint; both directions complete;
- both together: the endpoint of a Ready cluster leads to every Ready control
  plane machine; the machine controller may rely on what the cluster controller
  does to the `YandexCluster` object and the target group;
- webhooks and names: what is admitted can be served, through every sequence of
  updates; different clusters have different balancers; names fit the cloud's
  limits.

## 2. Modules

| Module | Models |
|---|---|
| `YandexMachine` | machine controller, compute service, machine scope, the targets of the load balancer service |
| `YandexCluster` | cluster controller, load balancer service, cluster scope, the endpoint rule of the webhook |
| `FinalizedObjects` | abstract: what a finalizer promises; both of the above implement it |
| `Provider` | both controllers on one management cluster and one cloud (instances of the first two) |
| `Names` | names of balancers, templates and clones, character by character |
| `Webhooks` | the admission rules of the three kinds |
| `Fleet` | several YandexClusters in shared folders, templates and machines, under the webhooks |
| `YandexMachineProofs`, `YandexClusterProofs` | proofs: inductive invariants, finalizers, endpoint, wake-ups of the cluster |
| `YandexMachineTargets` | proofs: targets, Ready, failure reasons and wake-ups of machines |
| `YandexMachineRefinement`, `YandexClusterRefinement`, `FinalizedObjectsProofs` | proofs: both controllers implement `FinalizedObjects`, which keeps its promise |
| `ProviderProofs` | proofs: the composition implements both components |
| `FleetProofs` | proofs: webhooks, names and shared folders |
| `MCYandexMachine`, `MCYandexCluster`, `MCProvider`, `MCFleet` | instances for TLC |

### YandexMachine

`ym[m]` is the object in the API server, `cache[m]` the informer's copy, `inst`
the cloud's instances, `tg` and `targets` the target group. The single worker
(`MaxConcurrentReconciles` is not set) has a step `pc`, the object under work
`local`, the snapshot `base` and the result `res`. Each call that leaves the
process is one action:

| Step | Action | Code |
|---|---|---|
| idle | `Skip`, `Begin` | `Reconcile` up to the choice of direction; `Gated` are its early returns |
| finalizer | `AddFinalizer` | `AddFinalizer`, `PatchObject`, the bootstrap check |
| create | `ComputeCreate` | `createComputeInstance`; `LateCreate` is a request that the network delays |
| get | `ComputeGet`, `Conclude` | `ComputeGet` and the rest of `compute.Reconcile`; the status switch of `reconcile` |
| addTarget | `AddTarget` | `registerControlPlane`, `addTargetALB` |
| delGet | `DeleteGet` | first half of `compute.Delete` |
| dereg, deregGone | `RemoveTarget` | `deregisterControlPlane`, `removeTargetALB` |
| vmDelete | `ComputeDelete` | last call of `compute.Delete` |
| conds, spec, status | `PatchConds`, `PatchSpec`, `PatchStatus` | `MachineScope.Close` |

Users, the Cluster API, the informer (`CacheSync`), the cloud (`VMStarted`, ...)
and `Crash` interleave with these at every point. `lost`, `lostAddr` and `spent`
are history variables: ids and registered addresses that the controller can no
longer find, and the faults so far. They appear in no guard except the bounds.
`infra` is what the controller finds of the `YandexCluster`: absent, without its
owner, up or gone; `ClusterEvent` is the watch `YandexClusterToYandexMachines`,
which finds no machines while the owner is missing.

### YandexCluster

One object `yc` with its cached copy, the three resources `tg`, `bg`, `alb`, and
one worker as above with the flag `expired` for the deadline of
`Config.ReconcileTimeout`. `ReconcileTargetGroup`, `ReconcileBackendGroup`,
`ReconcileBalancer`, `WaitBalancer`, `IsActive` and `Describe` are the calls of
`reconcile`; `DeleteBalancer`, `DeleteBackendGroup` and `DeleteTargetGroup` those
of `reconcileDelete`; the three patches are guarded by `expired`, and the spec
patch by the webhook (`Admitted`). The user
chooses in `CreateCluster` the address of the listener (or leaves it to the
cloud) and may preset the endpoint. `links` are the references that creation
requests carry: the balancer to the backend group, the backend group to the
target group. A group that is lost and created again is a new one, and nothing in
the code renews the reference.

### FinalizedObjects

Objects that are created, protected by a finalizer, deleted and finalized, and
resources that are acquired and released. A resource may come into being only
for a protected object, or is `leaked`; an object may be finalized only when it
holds nothing but leaks; leaks need a fault. `FinalizerRespected` is this
specification under the refinement mapping of `YandexMachine` (resources: the
instances by name; leaks: `lost`; faults: crash, failed call, failed patch, stale
read) and of `YandexCluster` (resources: balancer and groups; no leaks at all).

### Provider

Instances of both controllers over one set of variables. `infra` of the machine
module is computed from the cluster module's cache and owner, `tg` and `paused`
are shared, and every step of one controller says what it means to the other
(`MachineSide`, `ClusterSide`). `Crash` stops both; a panic in `Describe` is a
crash of the machine controller. `MachineSpec` says that every step of the
composition is a step that `YandexMachine` allows: the environment that module
assumes is the one it gets. `Ordered` tells whether the Cluster API deletes the
`YandexCluster` after the machines, as it does when the Cluster is deleted, or
the user deletes everything at once.

### Names, Webhooks, Fleet

`Names` has `generateName`, `clearString`, `GetLBName` and `nameRegex` over
sequences of characters. The hash is injective: its digits are zeros in the text
and the hashed name in a field of its own. `Webhooks` has one operator per
`ValidateCreate` and `ValidateUpdate`; a host is known by what `getAddrType`
says of it. In `Fleet` users create, edit and delete objects as far as the
webhooks let them, one field per update (the conditions on the fields are
independent). A reconcile is one step per call that changes the balancer, the
groups being one set per identity (folder and name); its detail is in
`YandexCluster`. `tangled` is history: identities that two objects named or that
a change of folder left. A machine is deployed once, with its name and from its
spec. The Cluster API's name for a clone is the template's and 6 characters, as
the comment at `yandexmachinetemplate_webhook.go:39` says.

### Abstractions

- Statuses that the code treats alike are one value. In `YandexMachine` the
  conditions RUNNING, PROVISIONING and NOTFOUND are represented by RUNNING,
  without reasons and messages; nothing reads conditions.
- A look-up by name and the create or delete that follows it are one step for
  the groups, the balancer and targets: the name belongs to this controller.
- Patches of an object that is gone fail; a patch that succeeded is known to
  have succeeded (a lost reply of the API server is not modelled).
- The informer delivers the latest version when it delivers; it may skip
  versions. A read of a cache that lags counts as the fault `stale`.
- A failed cloud call either took effect or did not, and only the creation of an
  instance may also take effect later (`LateCreate`). A creation of a group or a
  balancer, an `AddTarget` or a removal that takes effect after its call returned
  is not modelled. The next reconcile of a live object would repeat such a call,
  but that of a deleted one looks the resource up once and may find nothing: what
  `NothingLeft`, `NoZombieTarget` and the two `FinalizerRespected` say is under the
  assumption that these calls have taken effect when they return, or never do.
- Pausing is the Cluster's `spec.paused`; the annotation on the object and the
  event filter for it are left out. Owner references are read as they are in the
  API server.
- A name that the DNS resolves and one that it does not are two hosts; the DNS
  does not change its answer.
- Of the schema's own validation only ranges are kept. The pattern of
  `loadBalancer.name` (`yandexcluster_types.go:91`) is not anchored and matches
  the empty string, so it refuses nothing; `Fleet` gives users valid names only.
- External code is modelled from how the code uses it: finalizers and deletion in
  the API server, `patch.Helper`, informers and work queue, instance names unique
  in a folder, ids never reused, addresses reused only after their instance is gone.

## 3. Runs

Each kind of fault happens at most `MaxFaults[kind]` times, and at most `MaxKinds`
kinds happen in one behaviour. Every run allows each kind once. Three kinds in any order cover
every pair of faults with a third in between; the invariants are proved for any
number (section 4). One machine needs two instances (one that
is lost or vanishes and a second); the runs with two machines have the instances
and addresses they compete for. `fleet` creates `MaxObjects` = 2 objects: two
clusters, two of them after one another, or a template and its clone; each
property relates two objects at most. `MaxMoves` = 1 change of folder shows what a
change leaves behind. It has one namespace: a second one adds nothing but two
Clusters of one name, whose balancers then have one name like those of `ab` and
`a.b`. Names are at the limits: 59 and 60 characters of a Cluster, 57 and 58 of a
template. The runs check progress through the temporal properties instead of
deadlock: a management cluster in which everything is deleted does stop.

| Run | Checks | Shows |
|---|---|---|
| `machine_failures` | `TypeOK`, `MachineInv`, `NoOrphan`, `NoZombieTarget`, `DrainedBeforeDelete`, `FailureJustified`, `SupportInv`, `FinalizerRespected`, `ProviderIDKept` | one control plane machine; up to three of stale read, crash, failed or delayed call, failed patch, disturbed VM; symmetric instances |
| `machine_pair` | `NoStrayTarget`, `ReadyIsRegistered`, `NotForgotten`, `TargetKept` | two machines in one target group and one work queue, three instances of which two get the same address one after the other; loss of the group or of the YandexCluster; symmetric machines and instances |
| `machine_liveness` | `DeletionCompletes`, `ProvisioningCompletes` | one machine, up to two of crash, failed call, failed patch, pause |
| `cluster_faults` | `TypeOK`, `ClusterInv`, `NothingLeft`, `TeardownOrder`, `EndpointReachable`, `ReadyHasEndpoint`, `NotForgotten`, `SupportInv`, `FinalizerRespected` | address chosen by the cloud or the user; up to three of all kinds of fault, a preset endpoint and interference by hand included; symmetric addresses |
| `cluster_liveness` | `DeletionCompletes`, `ProvisioningCompletes` | up to two of all kinds of fault but stale reads |
| `provider` | `EndpointServed`, `NeverStranded`, `JointInv`, `AlwaysWoken`, `MachineSpec` | both controllers with a crash, a pause, a disturbed VM or a balancer lost by hand, which may end in a panic; the YandexCluster is deleted last |
| `fleet` | `TypeOK`, `Servable`, `BalancerNameFits`, `DistinctClustersApart`, `EndpointBacked`, `NothingLeftBehind`, `ClonesDeployable` | two objects under the webhooks |

What pausing can break is checked where it is a fault: in `machine_liveness`,
`cluster_faults`, `cluster_liveness` and `provider`.

Three properties have exceptions that are what the code does. `ReadyIsRegistered`
and `EndpointServed` except a machine that is `Contested`: another machine that is
being deleted, or was, has the same address in its status, because the cloud gave the address of
a vanished instance again, and `deregisterControlPlane` removes by address. The
action property `TargetKept` says that this is the only way: a Ready machine's
target goes with the group, with its own deletion, or while the worker is at a
deleted machine of the same address. `machine_pair` reaches the exceptions (without
them both properties fail there), and `machine_reuse` shows what happens.
`ReadyHasEndpoint` cannot say that Ready is never saved without the endpoint,
because the patches of spec and status fail on their own, and a patch of the spec from a
stale read is refused by the webhook: then the error must bring the reconcile
back, and the property says that it does.

`EndpointBacked` and `NothingLeftBehind` except tangled identities. There the code
does leave the other cluster's balancer to be deleted with the first, or the old
folder's resources for good; the documentation of `loadBalancer.name` asks for
unique names, and nothing enforces it.

Five runs show that something the repository says does not hold; `findings` in
`PROJECT.json` quotes the line and describes the behaviour.

| Run | Property | Behaviour |
|---|---|---|
| `machine_orphan` | `OrphanFree` | deletion on a cached object without its providerID leaves the instance |
| `machine_zombie` | `ZombieFree` | crash between `AddTarget` and the status patch leaves the target |
| `machine_reuse` | `OnlyZombiesRemoved` | deregistering by address hits the machine that got the address next |
| `provider_gone` | `EveryDeletionCompletes` | everything is deleted at once, the YandexCluster goes first, and its machine is never finalized |
| `cluster_panic` | `DescribeFindsBalancer` | a balancer lost between `IsActive` and `Describe` is dereferenced |

One more disagreement met while modelling has no run of its own: `reconcile` sets
`FailureReason` for every status other than PROVISIONING, STARTING and RUNNING,
RESTARTING, UPDATING and STOPPING included, and nothing clears it, while
`yandexmachine_types.go:135-137` reserves the field for errors that do not pass.
`Conclude` models what the code does; `FailureJustified` says that at least it
takes a disturbed instance or a stale read to get there.

### Fairness

`FairSpec` adds weak fairness of the informer (it delivers what it missed), of
the worker's current step (every call returns), of taking a key, and of the
cloud's own operations (an instance starts, a deletion ends). In `YandexMachine`
taking a key is strongly fair per machine: the work queue is first in, first out,
so a waiting key is served even when others return. `RequeueAfter` and the
back-off after errors are a key that stays in the queue. No fairness is assumed
of users, of faults or of the Cluster API: `DeletionCompletes` and
`ProvisioningCompletes` state what they need (unpaused for good, the
YandexCluster and the target group there for good). `Provider` has the same
fairness for the steps of both controllers.

## 4. Proofs

No constant is bounded in the proofs: any number of machines, instances,
addresses, clusters and folders, names of any length, any number of faults of
every kind and in any order. The assumptions on constants (`ConstantsAssumption`,
`ClusterAssumption`, `ProviderAssumption`, `FleetAssumption`, ...) say that they
have their types and that `Nil` is none of the values it stands beside; TLC
evaluates them in every run. Two further hypotheses, `AddressesUnique` and
`BoundsSuffice`, belong to the theorems that name them below. TLC checked each inductive invariant before it was proved: those of the controllers
are invariants of their runs (the supporting ones as conjuncts of `SupportInv`, which
both controllers have), and of `FleetInv` the run has the conjuncts that are worth
stating by themselves. Each proof that a step keeps an invariant has one lemma per
group of actions and, below, one step per conjunct that the action disturbs.

**Machines, finalizer** (`YandexMachineProofs`). `FinalizerPromise`:
`Spec => []NoOrphan`. `NoOrphan` is not inductive: that the finalizer may be
removed depends on what the worker saw earlier. `MachineInv` adds `ObjectsInv`
(which objects have finalizers and ids, names unique among living instances),
`ViewsInv` (how far the cache and the snapshot lag: an object they show live with
a finalizer still exists), `WorkerInv` (what holds at each step), `Accounted`
(every living instance is recorded, in the hands of the worker, or lost) and
`LossInv` (losing one takes a fault). `Invariance` and `TypeCorrect` are stated
too.

**Machines, traffic** (`YandexMachineTargets`). `FailureHasCause`
(`FailureJustified`) needs `UndisturbedInv`: while nothing is disturbed and no
view lags, an instance is out of service only when its machine is being deleted,
and then no reconcile of a live object holds its id.

`NoStray` (`NoStrayTarget`), `ReadyServes` (`ReadyIsRegistered`) and `TargetStays`
(`TargetKept`) hold whichever addresses the cloud gives, those of vanished
instances included. They follow from `StrayInv`, which speaks of addresses: the
worker's snapshot is current (`SnapshotInv`), the instances a machine ever had are
the recorded one and lost ones, and its address is one of theirs (`KnownInv`),
the address of the last status is out of the target group when the finalizer goes
(`RemovedInv`), and Ready control plane machines are registered unless they are
`Contested` (`ServingInv`). So reuse can take a target away too early, never leave
one behind, and only the deletion of the address's previous machine takes it.

`NoZombie` (`NoZombieTarget`) and `DrainedFirst` (`DrainedBeforeDelete`) speak of
instances, and follow from `TargetsInv`: with `SnapshotInv` and `KnownInv`, a
registered target is on record, in the hands of the worker or lost
(`RegisteredInv`), and what the controller deletes was drained (`DrainedInv`).
These two theorems, `TargetsKept`, which states `TargetsInv`, and `Supported`, which
contains it, have the hypothesis `AddressesUnique`: each instance has an address of
its own. The cloud does reuse addresses. Then a target no longer tells whose it is:
the next machine may have registered the address of an instance that is being
deleted, and neither property is true as it stands. What holds then is what the theorems above say.

**Wake-ups** (`YandexMachineTargets`, `YandexClusterProofs`). `Reconcile` returns
without a requeue at its gates, when it is done and when it waits for an event, so
each such return relies on some later event. `NeverForgotten` (`NotForgotten`, in
both modules) is the safety half of `DeletionCompletes` and `ProvisioningCompletes`:
an object with work left has its key in the queue, an event still to come (the
cache differs from the API server) or the worker. It holds after any faults, stale
reads included. `NotForgotten` is not inductive; `WakeInv` says which of the three
it is: a reconcile that read the object in its present phase ends with a requeue,
with Ready or with the object gone, and one that read an earlier phase is followed
by the event of the change. It also says why the gates are safe: a machine with a
finalizer has its owner and has seen its YandexCluster, Ready is never taken back,
and the bootstrap data that a reconcile missed enqueued the key.

**Clusters** (`YandexClusterProofs`). `FinalizerPromise` (`NothingLeft`),
`OrderKept` (`TeardownOrder`) and `TypeCorrect` follow from `ClusterInv`:
resources exist only under a finalizer and in order (`ResourcesInv`), the cache
and the snapshot lag in a bounded way (`Lags`), and each step of the worker knows
what the previous ones found (`WorkerInv`). Unlike for machines, there is no
exception here: the resources are found by name, so no crash or lost reply can
make the controller forget one. `Reachable` (`EndpointReachable`) needs
`EndpointInv`: an endpoint that is about to be saved must already agree with the
balancer and with the listener the user wants (`ReachInv`), and while no patch was
lost and no read stale, that of the status follows one of the spec that went through, or both are
refused (`ReadyInv`), because deadline and deletion do not go back. `ReadyAnnounces`
(`ReadyHasEndpoint`) is `ReadyInv` for those behaviours, and for the others, in
which the code does save Ready alone, it takes `WakeInv`: a reconcile whose patch
failed ends with an error, and so with its key in the queue. `BalancerStays` (`ActiveInv`) says that a
cluster that is Ready, in any view, has an active balancer until its deletion.

**Refinement** (`YandexMachineRefinement`, `YandexClusterRefinement`,
`FinalizedObjectsProofs`). `FinalizerKeepsPromise`: the abstract specification
implies `Promise`. Both `Refinement` theorems map initial states to initial
states, and each action to a step of `FinalizedObjects` or a stutter: `AddFinalizer`
to `Protect`, the calls that create and delete in the cloud to acquiring and
releasing, the patch without the finalizer to `Finalize`, whose guard is where
`MachineInv` and `ClusterInv` are needed, and what forgets an id to a leak.
`PidKept` proves `ProviderIDKept` in the same way, one step at a time.

**Both together** (`ProviderProofs`). The composition is built from instances of
the components, and so is its proof: the theorems' module instantiates the
components' proof modules over the composition's variables, shows that the
definitions of both instances agree (`Same...States`, `Same...Steps`), and then
uses the components' step lemmas as they are. What is left to prove is what one
controller does to the other, and `JointInv` says what it relies on: `SeenInv`
(what the informer has shown), `LastInv` (the order of deletion), `GroupInv` (who
removes the target group), `BusyInv` (the gate a reconcile passed stays open) and
`LossesInv` (how often the group can be lost). `Invariance` has the invariants of
both components and `JointInv`; `ClusterImplemented` and `MachineImplemented` say
that the composition implements `YandexCluster` and `YandexMachine`
(`MachineSpec`), so what is proved of the parts holds of the whole; `PromisesKept`
states it for the finalizers. `NeverAlone` (`NeverStranded`) follows from
`JointInv`, `Served` (`EndpointServed`) from all of these and the machines' `StrayInv`,
so it needs no hypothesis on addresses either. `MachineImplemented` has the hypothesis `BoundsSuffice`: the
machine model bounds how often the cluster and the target group go away, and the
composition must not exceed those bounds. It is about the model's bounds only and
holds in the runs `provider` and `provider_gone`. Under it `MachineRefined` states
the same as a refinement, `Spec => M!Spec`, through which the theorems about the
machine controller hold here: `MachinesAccounted` draws `NoStrayTarget` and
`FailureJustified`. `NothingSleeps` (`AlwaysWoken`) uses the step lemmas of both
`WakeInv`: the watch on the YandexCluster (`Notified`) is what wakes the machines
that wait for it, and with `NeverStranded` every machine in an ordered deletion is
awake as long as the Cluster is not paused.

**Webhooks and names** (`FleetProofs`). `FleetInv` is the conjunction of what the
run checks of the store and the cloud with `SharingKnown` (two stored clusters of one
identity are known to be tangled) and `TemplateNamed` (a stored template's name
leaves room for a clone's). From it follow `AlwaysServable`, `AlwaysBacked`,
`CloudAccounted` and `ClonesFit`. `NamesFit` and `NamesApart`
are about the text of names of any length: `clearString` is a recursive function,
and what it returns (permitted characters only, the first letter kept) is proved by least
counterexample: a set of naturals that is not empty has a least element (lemma
`Least`), and the recursion carries a counterexample to a smaller one. That
replaces the library's induction rules, which the installed provers cannot apply.

Only model-checked: `DeletionCompletes` and `ProvisioningCompletes` of both
controllers, liveness under fairness being outside TLAPS (`NotForgotten` is the
part of them that is not about fairness); and the violations, which are
behaviours that TLC exhibits.

## 5. Plan and state

The plan was to model the machine controller first, then the cluster controller,
the finalizer they both implement, their composition, and last the webhooks and
names; to check each with faults, and to prove what the runs check. All of it is
done: every safety property of a passing run is stated by a theorem. What a
further step could add:

1. A sharper account of stale reads. `NoOrphan`, the finalizer and `NotForgotten`
   allow them; the properties about traffic exclude behaviours with one.
2. Users who edit a `providerID`, which the webhook permits: `Fleet` has them and
   does not follow the instance, `YandexMachine` has none.
3. Calls other than the creation of an instance that take effect after they
   returned (section 2, Abstractions).
4. A form of `NoZombieTarget` and `DrainedBeforeDelete` that holds when addresses
   are reused.

### Not modelled

Metrics, flags, leader election and health probes; the parts of create requests
that nothing reads back (labels, health checks, disks, network interfaces);
client methods that nothing calls; generated code, mocks and manifests. The NLB
stubs are modelled as what they are: every operation fails.
