------------------------------ MODULE Provider ------------------------------
(***************************************************************************)
(* The manager with both controllers on one management cluster and one     *)
(* cloud: they run concurrently, share the informer cache of YandexCluster *)
(* objects, the Cluster's pause flag and the target group of the API load  *)
(* balancer, and stop together when the process stops.                     *)
(***************************************************************************)
EXTENDS Naturals, FiniteSets

CONSTANTS
    Machines, ControlPlane, Instances, Addrs, Addr,   \* as in YandexMachine
    Endpoints, Listeners,                             \* as in YandexCluster
    Nil,
    MachineFaults, ClusterFaults, MaxKinds,           \* bounds of the faults
    Ordered   \* the YandexCluster is deleted after its machines, as the
              \* Cluster API does when the Cluster is deleted

ASSUME OrderedAssumption == Ordered \in BOOLEAN

VARIABLES
    ym, mcache, owner, inst, late, targets, queue,           \* of YandexMachine
    mpc, cur, booted, mbase, mlocal, mres, lost, lostAddr, mspent,
    yc, ccache, owned, bg, alb, links, queued,               \* of YandexCluster
    cpc, cbase, clocal, cres, expired, cspent,
    paused, tg                                               \* of both

machineVars == <<ym, mcache, owner, inst, late, mpc, cur, booted, mbase, mlocal,
                 mres, lost, lostAddr>>
clusterVars == <<yc, ccache, owned, bg, alb, links, queued, cpc, cbase, clocal,
                 cres, expired, cspent>>
vars == <<machineVars, targets, queue, mspent, clusterVars, paused, tg>>

(* What the machine controller finds in the cache of YandexClusters. *)
Infra ==
    CASE ccache.life = "none" -> "absent"
      [] ccache.life = "gone" -> "gone"
      [] OTHER                -> IF owned THEN "up" ELSE "unowned"

(* Every deletion of the target group is one more loss to the machines, and *)
(* a panic of the cluster controller is a crash to them.                    *)
M == INSTANCE YandexMachine WITH
        infra <- Infra, cache <- mcache, pc <- mpc, base <- mbase, local <- mlocal,
        res <- mres, spent <- mspent, MaxFaults <- MachineFaults, MaxKinds <- MaxKinds + 2

C == INSTANCE YandexCluster WITH
        cache <- ccache, pc <- cpc, base <- cbase, local <- clocal, res <- cres,
        spent <- cspent, MaxFaults <- ClusterFaults

(* What the components assume of their constants. *)
ASSUME ProviderAssumption ==
    /\ ControlPlane \subseteq Machines
    /\ Addr \in [Instances -> Addrs]
    /\ Nil \notin Machines \cup Instances \cup Addrs \cup Endpoints
    /\ Listeners \subseteq Endpoints \cup {Nil}
    /\ MachineFaults \in [M!FaultKinds -> Nat]
    /\ ClusterFaults \in [C!FaultKinds -> Nat]
    /\ MaxKinds \in Nat

Init == C!Init /\ M!Init

-----------------------------------------------------------------------------
(* A kind of fault counts once, in whichever controller it happens; what    *)
(* one controller does to the other does not count.                        *)
WithinBounds ==
    <<cspent, mspent>>' # <<cspent, mspent>> =>
        Cardinality((C!Happened \cup (M!Happened \ {"tg", "crash"}))') <= MaxKinds

(* Steps of both: the Cluster is paused or unpaused, the manager stops, by   *)
(* itself or by the panic of one of its controllers.                        *)
Pause   == C!Pause /\ M!Pause /\ WithinBounds
Unpause == C!Unpause /\ M!Unpause
Panic   == C!Describe /\ C!Restart
Crash   == (C!Crash \/ Panic) /\ M!Crash /\ WithinBounds

(* YandexClusterToYandexMachines: an event of the YandexCluster reaches the  *)
(* keys of its machines once its owner is known.                            *)
Silent == queue \* mutant: no watch on YandexCluster
Notified ==
    IF <<ccache, owned>>' # <<ccache, owned>> /\ "up" \in {Infra, Infra'}
    THEN queue \cup M!Existing ELSE queue

(* The targets go with their group. *)
Remaining == IF tg' THEN targets ELSE {}

(* What a step of the cluster controller means to the machines. *)
MachineSide ==
    /\ queue' = Notified
    /\ targets' = Remaining
    /\ mspent' = IF tg /\ ~tg' THEN [mspent EXCEPT !["tg"] = @ + 1] ELSE mspent
    /\ UNCHANGED machineVars
    /\ WithinBounds

(* The cluster controller and what concerns it alone. *)
ClusterSync  == C!CacheSync /\ MachineSide
ClusterTakes == (C!Skip \/ C!Begin) /\ MachineSide
ClusterWorks == C!Reconcile /\ ~Panic /\ MachineSide
BalancerEnds == (C!BalancerStarted \/ C!BalancerDeleted) /\ MachineSide
ClusterFault ==
    /\ \/ C!Timeout \/ C!BalancerLost \/ C!BalancerReplaced \/ C!GroupLost
    /\ MachineSide

NoMachineLeft == \A m \in Machines : ym[m].life \in {"none", "gone"}

ClusterUser ==
    /\ \/ C!CreateCluster
       \/ C!SetOwnerRef
       \/ C!DeleteCluster /\ (Ordered => NoMachineLeft)
    /\ MachineSide

(* The machine controller and what concerns it alone. *)
ClusterSide == UNCHANGED clusterVars

MachineSync(m)  == ClusterSide /\ M!CacheSync(m)
MachineTakes(m) == ClusterSide /\ (M!Skip(m) \/ M!Begin(m)) /\ WithinBounds
MachineWorks    == ClusterSide /\ M!Reconcile /\ WithinBounds
InstanceEnds(i) == ClusterSide /\ (M!VMStarted(i) \/ M!VMDeleted(i))
MachineFault ==
    /\ ClusterSide
    /\ \/ \E i \in Instances : M!VMDisturbed(i)
       \/ \E m \in Machines : M!LateCreate(m)
    /\ WithinBounds

MachineUser(m) ==
    /\ ClusterSide
    /\ \/ M!CreateMachine(m) /\ (Ordered => yc.life \in {"none", "live"})
       \/ M!DeleteMachine(m)
       \/ M!SetOwnerRef(m)
       \/ M!SetBootstrapData(m)

Next ==
    \/ Pause \/ Unpause \/ Crash
    \/ ClusterUser \/ ClusterSync \/ ClusterTakes \/ ClusterWorks
    \/ BalancerEnds \/ ClusterFault
    \/ \E m \in Machines : MachineUser(m) \/ MachineSync(m) \/ MachineTakes(m)
    \/ MachineWorks
    \/ \E i \in Instances : InstanceEnds(i)
    \/ MachineFault

(* As in the components. *)
Fairness ==
    /\ WF_vars(ClusterSync) /\ WF_vars(ClusterTakes) /\ WF_vars(ClusterWorks)
    /\ WF_vars(BalancerEnds)
    /\ \A m \in Machines : WF_vars(MachineSync(m)) /\ SF_vars(MachineTakes(m))
    /\ WF_vars(MachineWorks)
    /\ \A i \in Instances : WF_vars(InstanceEnds(i))

Spec == Init /\ [][Next]_vars
FairSpec == Spec /\ Fairness

-----------------------------------------------------------------------------
(***************************************************************************)
(* Next to the cluster controller, the machine controller behaves as its   *)
(* own module says: what YandexMachine assumes of the YandexCluster object *)
(* and of the target group is what the cluster controller does to them.    *)
(***************************************************************************)
MachineSpec == [][UNCHANGED M!vars \/ M!Next]_vars

(***************************************************************************)
(* What the user sees: while the cluster is Ready and not being deleted,   *)
(* its endpoint leads through balancer, backend group and target group to  *)
(* every control plane machine that is Ready.  Interference by hand, stale *)
(* reads, failed patches of the cluster and forgotten instances are        *)
(* excepted, and a machine whose address a machine on its way out also has.*)
(***************************************************************************)
EndpointServed ==
    /\ ~C!Spent({"lost", "replaced", "group", "preset", "stale", "patch"})
    /\ ~M!Spent({"stale"})
    /\ lost = {}
    /\ yc.life = "live" /\ yc.ready
    => /\ alb.st = "ACTIVE" /\ alb.addr = yc.ep
       /\ links = {"alb", "bg"}
       /\ \A m \in ControlPlane :
             ym[m].life = "live" /\ ym[m].ready
                => ym[m].addr \in targets \/ M!Contested(m)

(***************************************************************************)
(* When the YandexCluster is deleted last, no machine that is being        *)
(* deleted ever looks for it in vain.  With YandexMachine's                *)
(* DeletionCompletes this makes every ordered deletion complete.           *)
(***************************************************************************)
NeverStranded ==
    Ordered => \A m \in Machines :
                  ym[m].life = "deleting" => Infra \in {"unowned", "up"}

(***************************************************************************)
(* No wake-up is lost between the two: while the Cluster is not paused, a  *)
(* YandexCluster or a YandexMachine with work left has its key in a queue, *)
(* an event to come or a worker.  When the YandexCluster is deleted last   *)
(* this is so of every machine that is being deleted, whatever the         *)
(* informer shows of the cluster.                                          *)
(***************************************************************************)
AlwaysWoken ==
    /\ C!NotForgotten /\ M!NotForgotten
    /\ Ordered /\ ~paused =>
          \A m \in Machines :
              ym[m].life = "deleting" => m \in queue \/ mcache[m] # ym[m] \/ M!Busy(m)

(***************************************************************************)
(* Why these hold, beside the invariants of both components.               *)
(***************************************************************************)

(* The informer never shows a later YandexCluster than the API server, and   *)
(* no machine gets a finalizer before the informer shows one.               *)
SeenInv ==
    /\ ccache.life # "none" => yc.life # "none"
    /\ ccache.life = "gone" => yc.life = "gone"
    /\ ccache.life = "none" =>
          mpc = "idle" /\ \A m \in Machines : ym[m].life # "deleting" /\ ~ym[m].fin

(* The order of deletion that Ordered stands for. *)
LastInv == Ordered /\ yc.life \in {"deleting", "gone"} => NoMachineLeft

(* Targets are in a group, and the group goes by hand or with the cluster. *)
GroupInv ==
    /\ targets # {} => tg
    /\ M!Spent({"tg"}) => C!Spent({"group"}) \/ yc.life \in {"deleting", "gone"}

(* A reconcile of the cluster passed the gate, which stays open. *)
BusyInv == cpc # "idle" => owned /\ ccache.life # "none"

(* The group is lost once per deletion by hand, and once more with the        *)
(* cluster, which does not make another one then.                            *)
LossesInv ==
    /\ cspent["group"] <= ClusterFaults["group"]
    /\ mspent["tg"] > cspent["group"] =>
          /\ mspent["tg"] = cspent["group"] + 1
          /\ ~tg /\ cpc # "target"
          /\ ccache.life \in {"deleting", "gone"}

(* What the two controllers know of each other is true. *)
JointInv == SeenInv /\ LastInv /\ GroupInv /\ BusyInv /\ LossesInv

(***************************************************************************)
(* The README deletes a cluster with one "kubectl delete -f" of all its    *)
(* objects: every deletion completes, in whichever order they are deleted. *)
(***************************************************************************)
EveryDeletionCompletes ==
    /\ \A m \in Machines : (ym[m].life = "deleting") ~> (ym[m].life = "gone")
    /\ (yc.life = "deleting") ~> (yc.life = "gone")
=============================================================================
