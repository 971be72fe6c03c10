--------------------------- MODULE ProviderProofs ---------------------------
(***************************************************************************)
(* Proofs about Provider.  What is proved of each controller alone holds   *)
(* of it next to the other one: a step of Provider is a step of the        *)
(* cluster controller, or leaves it alone, and is a step of the machine    *)
(* controller, or changes at most what that one sees of the YandexCluster  *)
(* and of the target group.  JointInv relates the two.                     *)
(***************************************************************************)
EXTENDS Provider, FiniteSetTheorems, TLAPS

(* The proofs about each controller, for the variables it has here. *)
CP == INSTANCE YandexClusterProofs WITH
        cache <- ccache, pc <- cpc, base <- cbase, local <- clocal, res <- cres,
        spent <- cspent, MaxFaults <- ClusterFaults

MP == INSTANCE YandexMachineTargets WITH
        infra <- Infra, cache <- mcache, pc <- mpc, base <- mbase, local <- mlocal,
        res <- mres, spent <- mspent, MaxFaults <- MachineFaults, MaxKinds <- MaxKinds + 2

-----------------------------------------------------------------------------
(***************************************************************************)
(* C and CP, and M and MP, are the same definitions under two names.       *)
(***************************************************************************)

LEMMA SameClusterStates ==
    /\ C!Init <=> CP!Init
    /\ (C!TypeOK <=> CP!TypeOK) /\ (C!TypeOK' <=> CP!TypeOK')
    /\ (C!ClusterInv <=> CP!ClusterInv) /\ (C!ClusterInv' <=> CP!ClusterInv')
    /\ (C!EndpointInv <=> CP!EndpointInv) /\ (C!EndpointInv' <=> CP!EndpointInv')
    /\ (C!ActiveInv <=> CP!ActiveInv) /\ (C!ActiveInv' <=> CP!ActiveInv')
  BY ZenonT(60) DEF
        C!TypeOK, CP!TypeOK, C!Init, CP!Init, C!FaultKinds, CP!FaultKinds,
        C!BalancerStatus, CP!BalancerStatus, C!NoBalancer, CP!NoBalancer, C!Object,
        CP!Object, C!Absent, CP!Absent, C!Steps, CP!Steps, C!Exists, CP!Exists,
        C!Spent, CP!Spent, C!TeardownOrder, CP!TeardownOrder, C!ResourcesInv,
        CP!ResourcesInv, C!Lags, CP!Lags, C!WorkerInv, CP!WorkerInv, C!ClusterInv,
        CP!ClusterInv, C!Noted, CP!Noted, C!SnapshotInv, CP!SnapshotInv,
        C!ReachInv, CP!ReachInv, C!ReadyInv, CP!ReadyInv, C!EndpointInv,
        CP!EndpointInv, C!ActiveInv, CP!ActiveInv

LEMMA SameClusterSteps ==
    /\ C!Next <=> CP!Next
    /\ C!DeleteCluster <=> CP!DeleteCluster
    /\ C!vars = CP!vars /\ C!vars' = CP!vars'
  BY ZenonT(60) DEF
        C!FaultKinds, CP!FaultKinds, C!NoBalancer, CP!NoBalancer, C!Object,
        CP!Object, C!Absent, CP!Absent, C!k8s, CP!k8s, C!cloud, CP!cloud, C!worker,
        CP!worker, C!vars, CP!vars, C!Exists, CP!Exists, C!Happened, CP!Happened,
        C!Fault, CP!Fault, C!CreateCluster, CP!CreateCluster, C!DeleteCluster,
        CP!DeleteCluster, C!SetOwnerRef, CP!SetOwnerRef, C!Pause, CP!Pause,
        C!Unpause, CP!Unpause, C!CacheSync, CP!CacheSync, C!BalancerStarted,
        CP!BalancerStarted, C!BalancerDeleted, CP!BalancerDeleted, C!BalancerLost,
        CP!BalancerLost, C!BalancerReplaced, CP!BalancerReplaced, C!GroupLost,
        CP!GroupLost, C!Goto, CP!Goto, C!Created, CP!Created, C!Return, CP!Return,
        C!Fail, CP!Fail, C!CallFails, CP!CallFails, C!CallSucceeds,
        CP!CallSucceeds, C!Gated, CP!Gated, C!Take, CP!Take, C!Skip, CP!Skip,
        C!Begin, CP!Begin, C!Timeout, CP!Timeout, C!ReconcileTargetGroup,
        CP!ReconcileTargetGroup, C!CreateBackendGroup, CP!CreateBackendGroup,
        C!ReconcileBackendGroup, CP!ReconcileBackendGroup, C!Unrecoverable,
        CP!Unrecoverable, C!CreateBalancer, CP!CreateBalancer, C!Creatable,
        CP!Creatable, C!ReconcileBalancer, CP!ReconcileBalancer, C!WaitBalancer,
        CP!WaitBalancer, C!IsActive, CP!IsActive, C!Rest, CP!Rest, C!Restart,
        CP!Restart, C!Describe, CP!Describe, C!StillDeleting, CP!StillDeleting,
        C!BalancerGone, CP!BalancerGone, C!DeleteBalancer, CP!DeleteBalancer,
        C!RemoveBackendGroup, CP!RemoveBackendGroup, C!DeleteBackendGroup,
        CP!DeleteBackendGroup, C!DeleteTargetGroup, CP!DeleteTargetGroup,
        C!Patched, CP!Patched, C!MergeConds, CP!MergeConds, C!MergeSpec,
        CP!MergeSpec, C!MergeStatus, CP!MergeStatus, C!Finalized, CP!Finalized,
        C!PatchError, CP!PatchError,
        C!Admitted, CP!Admitted, C!PatchFails, CP!PatchFails, C!PatchConds,
        CP!PatchConds, C!PatchSpec, CP!PatchSpec, C!PatchStatus, CP!PatchStatus,
        C!Crash, CP!Crash, C!Environment, CP!Environment, C!Reconcile,
        CP!Reconcile, C!Next, CP!Next, C!Cardinality, CP!Cardinality

LEMMA SameMachineStates ==
    /\ M!Init <=> MP!Init
    /\ (M!TypeOK <=> MP!TypeOK) /\ (M!TypeOK' <=> MP!TypeOK')
    /\ (M!MachineInv <=> MP!MachineInv) /\ (M!MachineInv' <=> MP!MachineInv')
    /\ (M!StrayInv <=> MP!StrayInv) /\ (M!StrayInv' <=> MP!StrayInv')
  BY ZenonT(60) DEF
        M!TypeOK, MP!TypeOK, M!Init, MP!Init, M!FaultKinds, MP!FaultKinds,
        M!LiveStatus, MP!LiveStatus, M!InstanceStatus, MP!InstanceStatus, M!Object,
        MP!Object, M!Absent, MP!Absent, M!Steps, MP!Steps, M!Exists, MP!Exists,
        M!Alive, MP!Alive, M!Spent, MP!Spent, M!InFlight, MP!InFlight,
        M!ObjectsInv, MP!ObjectsInv, M!Lags, MP!Lags, M!ViewsInv, MP!ViewsInv,
        M!WorkerInv, MP!WorkerInv, M!Accounted, MP!Accounted, M!LossInv,
        MP!LossInv, M!MachineInv, MP!MachineInv, M!SnapshotInv, MP!SnapshotInv,
        M!KnownInv, MP!KnownInv, M!RemovedInv, MP!RemovedInv, M!Busy, MP!Busy,
        M!Contested, MP!Contested, M!ServingInv, MP!ServingInv, M!Existing,
        MP!Existing, M!FreshAddr, MP!FreshAddr, M!NoStrayTarget, MP!NoStrayTarget,
        M!StrayInv, MP!StrayInv

LEMMA SameMachineSteps ==
    /\ M!Next <=> MP!Next
    /\ \A m \in Machines : M!CreateMachine(m) <=> MP!CreateMachine(m)
    /\ M!vars = MP!vars /\ M!vars' = MP!vars'
  BY ZenonT(60) DEF
        M!FaultKinds, MP!FaultKinds, M!LiveStatus, MP!LiveStatus, M!InstanceStatus,
        MP!InstanceStatus, M!Object, MP!Object, M!Absent, MP!Absent, M!k8s, MP!k8s,
        M!cloud, MP!cloud, M!worker, MP!worker, M!memory, MP!memory, M!vars,
        MP!vars, M!Exists, MP!Exists, M!Alive, MP!Alive, M!Existing, MP!Existing,
        M!Happened, MP!Happened, M!Fault, MP!Fault, M!CreateMachine,
        MP!CreateMachine, M!DeleteMachine, MP!DeleteMachine, M!SetOwnerRef,
        MP!SetOwnerRef, M!SetBootstrapData, MP!SetBootstrapData, M!Pause, MP!Pause,
        M!Unpause, MP!Unpause, M!Later, MP!Later, M!OwnerKnown, MP!OwnerKnown,
        M!ClusterEvent, MP!ClusterEvent, M!CacheSync, MP!CacheSync, M!SetStatus,
        MP!SetStatus, M!VMStarted, MP!VMStarted, M!VMDeleted, MP!VMDeleted,
        M!VMDisturbed, MP!VMDisturbed, M!TargetGroupUp, MP!TargetGroupUp,
        M!TargetGroupLost, MP!TargetGroupLost, M!Goto, MP!Goto, M!Return,
        MP!Return, M!Gated, MP!Gated, M!Take, MP!Take, M!Skip, MP!Skip, M!Begin,
        MP!Begin, M!AddFinalizer, MP!AddFinalizer, M!NameTaken, MP!NameTaken,
        M!Free, MP!Free, M!ComputeCreate, MP!ComputeCreate, M!LateCreate,
        MP!LateCreate, M!SetAddresses, MP!SetAddresses, M!Conclude, MP!Conclude,
        M!ComputeGet, MP!ComputeGet, M!WithTarget, MP!WithTarget, M!AddTarget,
        MP!AddTarget, M!IsNotFound, MP!IsNotFound, M!DeleteGet, MP!DeleteGet,
        M!WithoutTarget, MP!WithoutTarget, M!RemoveTarget, MP!RemoveTarget,
        M!ComputeDelete, MP!ComputeDelete, M!Patched, MP!Patched, M!MergeConds,
        MP!MergeConds, M!MergeSpec, MP!MergeSpec, M!MergeStatus, MP!MergeStatus,
        M!Finalized, MP!Finalized, M!FreshPid, MP!FreshPid, M!FreshAddr,
        MP!FreshAddr, M!Overlooked, MP!Overlooked, M!PatchConds, MP!PatchConds,
        M!PatchSpec, MP!PatchSpec, M!Requeue, MP!Requeue, M!Rest, MP!Rest,
        M!PatchStatus, MP!PatchStatus, M!Crash, MP!Crash, M!Environment,
        MP!Environment, M!Reconcile, MP!Reconcile, M!Next, MP!Next, M!Cardinality,
        MP!Cardinality

(* The assumptions of the two modules. *)
LEMMA ClusterConstants ==
    /\ Nil \notin Endpoints
    /\ Listeners \subseteq Endpoints \cup {Nil}
    /\ ClusterFaults \in [CP!FaultKinds -> Nat]
    /\ MaxKinds \in Nat
  BY ProviderAssumption DEF C!FaultKinds, CP!FaultKinds

LEMMA MachineConstants ==
    /\ ControlPlane \subseteq Machines
    /\ Addr \in [Instances -> Addrs]
    /\ Nil \notin Machines \cup Instances \cup Addrs
    /\ MachineFaults \in [MP!FaultKinds -> Nat]
    /\ MaxKinds + 2 \in Nat
  BY ProviderAssumption DEF M!FaultKinds, MP!FaultKinds

-----------------------------------------------------------------------------
(***************************************************************************)
(* What is proved of each controller alone.                                *)
(***************************************************************************)

(* The invariants of the cluster controller are inductive, and the group's  *)
(* and the object's ways are known.                                         *)
LEMMA ClusterKeeps ==
    ASSUME C!TypeOK, C!ClusterInv, C!EndpointInv, C!ActiveInv, [C!Next]_C!vars
    PROVE  (C!TypeOK /\ C!ClusterInv /\ C!EndpointInv /\ C!ActiveInv)'
  <1>1. CP!TypeOK /\ CP!ClusterInv /\ [CP!Next]_CP!vars
    BY SameClusterStates, SameClusterSteps
  <1>2. (CP!TypeOK /\ CP!ClusterInv)'
    BY <1>1, ClusterConstants, CP!InvStep
  <1>3. CP!EndpointInv => CP!EndpointInv'
    BY <1>1, ClusterConstants, CP!EndpointStep
  <1>4. CP!ActiveInv => CP!ActiveInv'
    BY <1>1, ClusterConstants, CP!ActiveStep
  <1>5. QED
    BY <1>2, <1>3, <1>4, SameClusterStates

LEMMA ClusterFacts ==
    ASSUME C!TypeOK, C!ClusterInv, [C!Next]_C!vars
    PROVE  /\ ccache' = ccache \/ (ccache' = yc /\ yc' = yc)
           /\ \/ yc'.life = yc.life
              \/ yc.life = "none" /\ yc'.life = "live"
              \/ yc.life = "deleting" /\ yc'.life = "gone"
              \/ C!DeleteCluster
           /\ owned => owned'
           /\ owned' # owned => yc.life = "live" /\ ccache' = ccache
           /\ owned' # owned \/ ccache' # ccache => tg' = tg
           /\ cpc' # "idle" =>
                 cpc # "idle" \/ (owned /\ ccache.life # "none" /\ ccache' = ccache)
           /\ cpc' = "target" => cpc = "target" \/ (ccache.life = "live" /\ ccache' = ccache)
           /\ ~tg /\ tg' => cpc = "target"
  <1>1. CP!TypeOK /\ CP!ClusterInv /\ [CP!Next]_CP!vars
    BY SameClusterStates, SameClusterSteps
  <1>2. CP!Exists(ccache) => ccache.life # "none"
    BY DEF CP!Exists
  <1>3. QED
    BY <1>1, <1>2, ClusterConstants, CP!LifeFacts, CP!WorkFacts, SameClusterSteps

LEMMA ClusterGroupFacts ==
    ASSUME C!TypeOK, C!ClusterInv, [C!Next]_C!vars
    PROVE  /\ cspent["group"] \in Nat /\ cspent'["group"] \in Nat
           /\ cspent["group"] <= cspent'["group"]
           /\ cspent["group"] <= ClusterFaults["group"] =>
                 cspent'["group"] <= ClusterFaults["group"]
           /\ tg /\ ~tg' =>
                 \/ /\ cspent["group"] < ClusterFaults["group"]
                    /\ cspent'["group"] = cspent["group"] + 1
                 \/ /\ yc'.life \in {"deleting", "gone"}
                    /\ ccache'.life \in {"deleting", "gone"} /\ cpc' # "target"
  <1>1. CP!TypeOK /\ CP!ClusterInv /\ [CP!Next]_CP!vars
    BY SameClusterStates, SameClusterSteps
  <1>2. /\ cspent["group"] \in Nat /\ cspent'["group"] \in Nat
        /\ cspent["group"] <= cspent'["group"]
        /\ cspent["group"] <= ClusterFaults["group"] =>
              cspent'["group"] <= ClusterFaults["group"]
        /\ CP!GroupLost => /\ cspent["group"] < ClusterFaults["group"]
                           /\ cspent'["group"] = cspent["group"] + 1
    BY <1>1, ClusterConstants, CP!GroupCount
  <1>3. tg /\ ~tg' => \/ CP!GroupLost
                      \/ /\ yc'.life \in {"deleting", "gone"}
                         /\ ccache'.life \in {"deleting", "gone"} /\ cpc' # "target"
    BY <1>1, ClusterConstants, CP!GroupFacts
  <1>4. QED
    BY <1>2, <1>3

(* Likewise for the machine controller. *)
LEMMA MachineKeeps ==
    ASSUME M!TypeOK, M!MachineInv, [M!Next]_M!vars
    PROVE  /\ (M!TypeOK /\ M!MachineInv)'
           /\ M!StrayInv => M!StrayInv'
  <1>1. MP!TypeOK /\ MP!MachineInv /\ [MP!Next]_MP!vars
    BY SameMachineStates, SameMachineSteps
  <1>2. (MP!TypeOK /\ MP!MachineInv)'
    BY <1>1, MachineConstants, MP!InvStep
  <1>3. MP!StrayInv => MP!StrayInv'
    BY <1>1, <1>2, MachineConstants, MP!StrayStep
  <1>4. QED
    BY <1>2, <1>3, SameMachineStates

LEMMA MachineFacts ==
    ASSUME M!TypeOK, [M!Next]_M!vars, tg' = tg
    PROVE  /\ \A m \in Machines :
                 /\ ym[m].life = "gone" => ym'[m].life = "gone"
                 /\ ym[m].life = "none" => ym'[m].life = "none" \/ M!CreateMachine(m)
           /\ /\ Infra = "absent" /\ mpc = "idle"
              /\ \A m \in Machines : ym[m].life # "deleting" /\ ~ym[m].fin
              => /\ mpc' = "idle"
                 /\ \A m \in Machines : ym'[m].life # "deleting" /\ ~ym'[m].fin
           /\ (targets # {} => tg) => (targets' # {} => tg')
           /\ mspent'["tg"] = mspent["tg"]
  <1>1. MP!TypeOK /\ [MP!Next]_MP!vars
    BY SameMachineStates, SameMachineSteps
  <1>2. \A m \in Machines :
            /\ ym[m].life = "gone" => ym'[m].life = "gone"
            /\ ym[m].life = "none" => ym'[m].life = "none" \/ M!CreateMachine(m)
    BY <1>1, MachineConstants, MP!LifeFacts, SameMachineSteps
  <1>3. /\ Infra = "absent" /\ mpc = "idle"
        /\ \A m \in Machines : ym[m].life # "deleting" /\ ~ym[m].fin
        => mpc' = "idle" /\ \A m \in Machines : ym'[m].life # "deleting" /\ ~ym'[m].fin
    BY <1>1, MachineConstants, MP!GateFacts
  <1>4. (targets # {} => tg) => (targets' # {} => tg')
    BY <1>1, MachineConstants, MP!GroupFacts
  <1>5. mspent'["tg"] = mspent["tg"]
    BY <1>1, MachineConstants, MP!GroupKept
  <1>6. QED
    BY <1>2, <1>3, <1>4, <1>5

-----------------------------------------------------------------------------
(***************************************************************************)
(* The steps of Provider.                                                  *)
(***************************************************************************)

(* Steps of the cluster controller alone, of the machine controller alone,  *)
(* and of both.                                                             *)
ClusterAlone ==
    \/ ClusterUser \/ ClusterSync \/ ClusterTakes \/ ClusterWorks
    \/ BalancerEnds \/ ClusterFault

MachineAlone ==
    \/ \E m \in Machines : MachineUser(m) \/ MachineSync(m) \/ MachineTakes(m)
    \/ MachineWorks
    \/ \E i \in Instances : InstanceEnds(i)
    \/ MachineFault

Both == Pause \/ Unpause \/ Crash

LEMMA ClusterAloneFacts ==
    ASSUME ClusterAlone
    PROVE  C!Next /\ MachineSide
  BY DEF ClusterAlone, ClusterUser, ClusterSync, ClusterTakes, ClusterWorks, BalancerEnds,
         ClusterFault, C!Next, C!Environment

LEMMA MachineAloneFacts ==
    ASSUME MachineAlone
    PROVE  M!Next /\ UNCHANGED <<clusterVars, paused, tg>>
  <1>1. M!Next /\ UNCHANGED clusterVars
    BY DEF MachineAlone, MachineUser, MachineSync, MachineTakes, MachineWorks, InstanceEnds,
           MachineFault, ClusterSide, M!Next, M!Environment
  <1>2. UNCHANGED <<paused, tg>>
    <2>1. CASE \/ \E m \in Machines : MachineUser(m) \/ MachineSync(m) \/ MachineTakes(m)
               \/ \E i \in Instances : InstanceEnds(i)
               \/ MachineFault
      BY <2>1 DEF MachineUser, MachineSync, MachineTakes, InstanceEnds, MachineFault,
              M!CreateMachine, M!DeleteMachine, M!SetOwnerRef, M!SetBootstrapData,
              M!CacheSync, M!Skip, M!Begin, M!VMStarted, M!VMDeleted, M!VMDisturbed,
              M!SetStatus, M!LateCreate, M!k8s, M!cloud
    <2>2. CASE MachineWorks
      BY <2>2 DEF MachineWorks, M!Reconcile, M!AddFinalizer, M!ComputeCreate, M!ComputeGet,
              M!AddTarget, M!DeleteGet, M!RemoveTarget, M!ComputeDelete, M!PatchConds,
              M!PatchSpec, M!PatchStatus, M!k8s, M!cloud
    <2>3. QED
      BY <2>1, <2>2 DEF MachineAlone
  <1>3. QED
    BY <1>1, <1>2

LEMMA BothFacts ==
    ASSUME Both
    PROVE  C!Next /\ M!Next /\ UNCHANGED <<yc, ym, tg>>
  <1>1. C!Next /\ M!Next
    BY DEF Both, Pause, Unpause, Crash, Panic, C!Next, C!Environment, C!Reconcile,
           M!Next, M!Environment
  <1>2. UNCHANGED <<yc, ym, tg>>
    BY DEF Both, Pause, Unpause, Crash, Panic, C!Pause, C!Unpause, C!Crash, C!Restart,
           C!cloud, M!Pause, M!Unpause, M!Crash
  <1>3. QED
    BY <1>1, <1>2

LEMMA StepCases ==
    ASSUME [Next]_vars
    PROVE  ClusterAlone \/ MachineAlone \/ Both \/ UNCHANGED vars
  BY DEF Next, ClusterAlone, MachineAlone, Both

(* To the cluster controller, every step is one of its own or none. *)
LEMMA ClusterStep ==
    ASSUME [Next]_vars
    PROVE  [C!Next]_C!vars
  <1>1. CASE ClusterAlone \/ Both
    BY <1>1, ClusterAloneFacts, BothFacts
  <1>2. CASE MachineAlone \/ UNCHANGED vars
    <2>1. UNCHANGED <<clusterVars, paused, tg>>
      BY <1>2, MachineAloneFacts DEF vars
    <2>2. QED
      BY <2>1 DEF clusterVars, C!vars, C!k8s, C!cloud, C!worker
  <1>3. QED
    BY <1>1, <1>2, StepCases

(* To the machine controller, every step is one of its own or none, or      *)
(* changes the YandexCluster or its target group.                           *)
LEMMA MachineStep ==
    ASSUME [Next]_vars
    PROVE  MachineSide \/ ([M!Next]_M!vars /\ tg' = tg)
  <1>1. CASE ClusterAlone
    BY <1>1, ClusterAloneFacts
  <1>2. CASE MachineAlone \/ Both
    BY <1>2, MachineAloneFacts, BothFacts
  <1>3. CASE UNCHANGED vars
    BY <1>3 DEF vars, machineVars, clusterVars, Infra, M!vars, M!k8s, M!cloud, M!worker,
            M!memory
  <1>4. QED
    BY <1>1, <1>2, <1>3, StepCases

-----------------------------------------------------------------------------
(***************************************************************************)
(* JointInv is inductive, beside the invariants of both components.        *)
(***************************************************************************)

(* What both controllers keep, each of its own. *)
Components ==
    /\ C!TypeOK /\ C!ClusterInv /\ C!EndpointInv /\ C!ActiveInv
    /\ M!TypeOK /\ M!MachineInv

(* Nothing else than the user's deletion ends the life of a live cluster. *)
LEMMA DeletedByUser ==
    ASSUME ClusterAlone, C!DeleteCluster
    PROVE  Ordered => NoMachineLeft
  <1>1. yc.life = "live" /\ yc'.life # "live" /\ cpc' = cpc
    BY DEF C!DeleteCluster, C!worker
  <1>2. CASE ClusterUser
    BY <1>1, <1>2 DEF ClusterUser, C!CreateCluster, C!SetOwnerRef
  <1>3. ~ClusterWorks
    BY <1>1 DEF ClusterWorks, C!Reconcile, C!ReconcileTargetGroup, C!ReconcileBackendGroup,
           C!ReconcileBalancer, C!WaitBalancer, C!IsActive, C!Describe, C!Restart,
           C!DeleteBalancer, C!DeleteBackendGroup, C!DeleteTargetGroup, C!PatchConds,
           C!PatchSpec, C!PatchStatus, C!Rest, C!k8s
  <1>4. QED
    BY <1>1, <1>2, <1>3
       DEF ClusterAlone, ClusterSync, ClusterTakes, BalancerEnds, ClusterFault, C!CacheSync,
           C!Skip, C!Begin, C!BalancerStarted, C!BalancerDeleted, C!Timeout, C!BalancerLost,
           C!BalancerReplaced, C!GroupLost, C!k8s

LEMMA LastStep ==
    ASSUME Components, LastInv, [Next]_vars
    PROVE  LastInv'
  <1> SUFFICES ASSUME Ordered, yc'.life \in {"deleting", "gone"}
               PROVE  NoMachineLeft'
    BY DEF LastInv
  <1>1. yc.life \in {"deleting", "gone"} => NoMachineLeft
    BY DEF LastInv
  <1>2. yc.life \in {"deleting", "gone"} \/ C!DeleteCluster
    BY ClusterStep, ClusterFacts DEF Components
  <1>3. CASE ClusterAlone
    <2>1. NoMachineLeft
      BY <1>1, <1>2, <1>3, DeletedByUser
    <2>2. ym' = ym
      BY <1>3, ClusterAloneFacts DEF MachineSide, machineVars
    <2>3. QED
      BY <2>1, <2>2 DEF NoMachineLeft
  <1>4. CASE MachineAlone
    <2>1. yc' = yc
      BY <1>4, MachineAloneFacts DEF clusterVars
    <2>2. NoMachineLeft /\ yc.life \notin {"none", "live"}
      BY <1>1, <2>1
    <2>3. SUFFICES ASSUME NEW m \in Machines, M!CreateMachine(m)
                   PROVE  FALSE
      BY <1>4, <2>2, MachineAloneFacts, MachineFacts DEF NoMachineLeft, Components
    <2>4. ym[m].life = "none" /\ ym'[m].life = "live" /\ mpc' = mpc
      BY <2>3 DEF M!CreateMachine, M!worker, M!TypeOK, M!Object, Components
    <2>5. ym' # ym
      BY <2>4
    <2>6. \A n \in Machines : ~MachineUser(n)
      BY <2>2, <2>5 DEF MachineUser, M!DeleteMachine, M!SetOwnerRef, M!SetBootstrapData,
             NoMachineLeft
    <2>7. ~MachineWorks
      BY <2>4, <2>5 DEF MachineWorks, M!Reconcile, M!AddFinalizer, M!Goto, M!Return,
             M!ComputeCreate, M!ComputeGet, M!AddTarget, M!DeleteGet, M!RemoveTarget,
             M!ComputeDelete, M!PatchConds, M!PatchSpec, M!PatchStatus, M!Rest, M!k8s
    <2>8. QED
      BY <1>4, <2>5, <2>6, <2>7
         DEF MachineAlone, MachineSync, MachineTakes, InstanceEnds, MachineFault,
             M!CacheSync, M!Skip, M!Begin, M!VMStarted, M!VMDeleted, M!VMDisturbed,
             M!SetStatus, M!LateCreate, M!k8s
  <1>5. CASE Both \/ UNCHANGED vars
    <2>1. UNCHANGED <<yc, ym>>
      BY <1>5, BothFacts DEF vars, machineVars, clusterVars
    <2>2. QED
      BY <1>1, <2>1 DEF NoMachineLeft
  <1>6. QED
    BY <1>3, <1>4, <1>5, StepCases

LEMMA SeenStep ==
    ASSUME Components, SeenInv, [Next]_vars
    PROVE  SeenInv'
  <1>1. /\ ccache' = ccache \/ (ccache' = yc /\ yc' = yc)
        /\ \/ yc'.life = yc.life
           \/ yc.life = "none" /\ yc'.life = "live"
           \/ yc.life = "deleting" /\ yc'.life = "gone"
           \/ C!DeleteCluster
    BY ClusterStep, ClusterFacts DEF Components
  <1>2. C!DeleteCluster => yc.life = "live" /\ yc'.life \in {"deleting", "gone"}
    BY DEF C!DeleteCluster, C!TypeOK, C!Object, Components
  <1>3. /\ ccache'.life # "none" => yc'.life # "none"
        /\ ccache'.life = "gone" => yc'.life = "gone"
    BY <1>1, <1>2 DEF SeenInv
  <1>4. ASSUME ccache'.life = "none"
        PROVE  mpc' = "idle" /\ \A m \in Machines : ym'[m].life # "deleting" /\ ~ym'[m].fin
    <2>1. ccache.life = "none"
      BY <1>1, <1>4 DEF SeenInv
    <2>2. mpc = "idle" /\ \A m \in Machines : ym[m].life # "deleting" /\ ~ym[m].fin
      BY <2>1 DEF SeenInv
    <2>3. Infra = "absent"
      BY <2>1 DEF Infra
    <2>4. CASE MachineSide
      BY <2>2, <2>4 DEF MachineSide, machineVars
    <2>5. CASE [M!Next]_M!vars /\ tg' = tg
      BY <2>2, <2>3, <2>5, MachineFacts DEF Components
    <2>6. QED
      BY <2>4, <2>5, MachineStep
  <1>5. QED
    BY <1>3, <1>4 DEF SeenInv

LEMMA GroupStep ==
    ASSUME Components, GroupInv, [Next]_vars
    PROVE  GroupInv'
  <1>1. /\ cspent["group"] \in Nat /\ cspent'["group"] \in Nat
        /\ cspent["group"] <= cspent'["group"]
        /\ tg /\ ~tg' => \/ cspent'["group"] = cspent["group"] + 1
                         \/ yc'.life \in {"deleting", "gone"}
        /\ yc.life \in {"deleting", "gone"} => yc'.life \in {"deleting", "gone"}
    BY ClusterStep, ClusterFacts, ClusterGroupFacts DEF Components, C!DeleteCluster
  <1>2. /\ C!Spent({"group"}) => C!Spent({"group"})'
        /\ tg /\ ~tg' => C!Spent({"group"})' \/ yc'.life \in {"deleting", "gone"}
    BY <1>1 DEF C!Spent
  <1>3. CASE MachineSide
    <2>1. targets' # {} => tg'
      BY <1>3 DEF MachineSide, Remaining
    <2>2. M!Spent({"tg"})' => M!Spent({"tg"}) \/ (tg /\ ~tg')
      BY <1>3 DEF MachineSide, M!Spent
    <2>3. QED
      BY <1>1, <1>2, <2>1, <2>2 DEF GroupInv
  <1>4. CASE [M!Next]_M!vars /\ tg' = tg
    <2>1. (targets' # {} => tg') /\ (M!Spent({"tg"})' => M!Spent({"tg"}))
      BY <1>4, MachineFacts DEF GroupInv, Components, M!Spent
    <2>2. QED
      BY <1>1, <1>2, <2>1 DEF GroupInv
  <1>5. QED
    BY <1>3, <1>4, MachineStep

LEMMA BusyStep ==
    ASSUME Components, BusyInv, [Next]_vars
    PROVE  BusyInv'
  <1>1. /\ ccache' = ccache \/ (ccache' = yc /\ yc' = yc)
        /\ owned => owned'
        /\ cpc' # "idle" =>
              cpc # "idle" \/ (owned /\ ccache.life # "none" /\ ccache' = ccache)
    BY ClusterStep, ClusterFacts DEF Components
  <1>2. ccache.life # "none" => yc.life # "none"
    BY DEF Components, C!ClusterInv, C!Lags
  <1>3. QED
    BY <1>1, <1>2 DEF BusyInv

LEMMA LossesStep ==
    ASSUME Components, LossesInv, [Next]_vars
    PROVE  LossesInv'
  <1>1. /\ cspent["group"] \in Nat /\ cspent'["group"] \in Nat
        /\ cspent["group"] <= cspent'["group"]
        /\ cspent'["group"] <= ClusterFaults["group"]
        /\ tg /\ ~tg' =>
              \/ cspent'["group"] = cspent["group"] + 1
              \/ ccache'.life \in {"deleting", "gone"} /\ cpc' # "target"
    BY ClusterStep, ClusterGroupFacts DEF Components, LossesInv
  <1>2. /\ mspent["tg"] \in Nat
        /\ mspent'["tg"] = IF tg /\ ~tg' THEN mspent["tg"] + 1 ELSE mspent["tg"]
    <2>1. mspent \in [M!FaultKinds -> Nat] /\ "tg" \in M!FaultKinds
      BY DEF Components, M!TypeOK, M!FaultKinds
    <2>2. CASE MachineSide
      BY <2>1, <2>2 DEF MachineSide
    <2>3. CASE [M!Next]_M!vars /\ tg' = tg
      BY <2>1, <2>3, MachineFacts DEF Components
    <2>4. QED
      BY <2>1, <2>2, <2>3, MachineStep
  <1>3. ccache.life \in {"deleting", "gone"} /\ ~tg /\ cpc # "target" =>
            ccache'.life \in {"deleting", "gone"} /\ ~tg' /\ cpc' # "target"
    <2>1. ccache.life \in {"deleting", "gone"} => yc.life \in {"deleting", "gone"}
      BY DEF Components, C!ClusterInv, C!Lags
    <2>2. tg \in BOOLEAN /\ tg' \in BOOLEAN
      BY ClusterStep, ClusterKeeps DEF Components, C!TypeOK
    <2>3. QED
      BY <2>1, <2>2, ClusterStep, ClusterFacts DEF Components
  <1>4. CASE tg /\ ~tg'
    <2>1. mspent["tg"] <= cspent["group"]
      BY <1>1, <1>2, <1>4 DEF LossesInv
    <2>2. QED
      BY <1>1, <1>2, <1>4, <2>1 DEF LossesInv
  <1>5. CASE ~(tg /\ ~tg')
    BY <1>1, <1>2, <1>3, <1>5 DEF LossesInv
  <1>6. QED
    BY <1>4, <1>5

-----------------------------------------------------------------------------
(***************************************************************************)
(* A step of the cluster controller disturbs no invariant of the machine   *)
(* controller: its loss of the target group is one more fault, and takes   *)
(* all the targets with it.                                                *)
(***************************************************************************)
LEMMA SideKeeps ==
    ASSUME M!TypeOK, M!MachineInv, C!TypeOK', GroupInv, MachineSide
    PROVE  /\ (M!TypeOK /\ M!MachineInv)'
           /\ M!StrayInv => M!StrayInv'
  <1>1. /\ UNCHANGED <<ym, mcache, owner, inst, late, mpc, cur, booted, mbase, mlocal, mres,
                       lost, lostAddr>>
        /\ targets' \subseteq targets
        /\ ~(tg /\ ~tg') => targets' = targets
    BY DEF MachineSide, machineVars, Remaining, GroupInv
  <1>2. /\ mspent' \in [M!FaultKinds -> Nat]
        /\ \A k \in M!FaultKinds \ {"tg"} : mspent'[k] = mspent[k]
        /\ mspent'["tg"] >= mspent["tg"]
        /\ tg /\ ~tg' => mspent'["tg"] > 0
    BY DEF MachineSide, M!TypeOK, M!FaultKinds
  <1>3. /\ M!Spent({"stale"})' <=> M!Spent({"stale"})
        /\ M!Spent({"crash", "cloud", "patch", "stale"})'
              <=> M!Spent({"crash", "cloud", "patch", "stale"})
        /\ ~M!Spent({"tg"})' => ~M!Spent({"tg"}) /\ targets' = targets
    BY <1>1, <1>2 DEF M!Spent, M!FaultKinds, M!TypeOK
  <1>4. M!TypeOK'
    <2>1. Infra' \in {"absent", "unowned", "up", "gone"}
      BY DEF Infra
    <2>2. queue' \subseteq Machines
      BY DEF MachineSide, Notified, M!Existing, M!TypeOK
    <2>3. paused' \in BOOLEAN /\ tg' \in BOOLEAN
      BY DEF C!TypeOK
    <2>4. QED
      BY <1>1, <1>2, <2>1, <2>2, <2>3 DEF M!TypeOK
  <1>5. M!MachineInv'
    <2>1. M!ObjectsInv' /\ M!Accounted' /\ M!LossInv'
      BY <1>1, <1>3 DEF M!MachineInv, M!ObjectsInv, M!Accounted, M!LossInv, M!Alive, M!Exists,
             M!InFlight
    <2>2. M!ViewsInv'
      BY <1>1, <1>3 DEF M!MachineInv, M!ViewsInv, M!Lags, M!Exists
    <2>3. M!WorkerInv'
      BY <1>1 DEF M!MachineInv, M!WorkerInv, M!InFlight, M!Alive, M!Exists
    <2>4. QED
      BY <2>1, <2>2, <2>3 DEF M!MachineInv
  <1>6. ASSUME M!StrayInv, ~M!Spent({"stale"})'
        PROVE  (M!SnapshotInv /\ M!KnownInv /\ M!RemovedInv /\ M!ServingInv)'
    <2>1. M!SnapshotInv /\ M!KnownInv /\ M!RemovedInv /\ M!ServingInv
      BY <1>3, <1>6 DEF M!StrayInv
    <2>2. M!SnapshotInv'
      BY <1>1, <2>1 DEF M!SnapshotInv
    <2>3. M!KnownInv'
      BY <1>1, <2>1 DEF M!KnownInv, M!InFlight
    <2>4. M!RemovedInv'
      BY <1>1, <2>1 DEF M!RemovedInv
    <2>5. \A m \in ControlPlane : M!Contested(m)' <=> M!Contested(m)
      BY <1>1 DEF M!Contested, M!Busy
    <2>6. M!ServingInv'
      BY <1>1, <1>3, <2>1, <2>5 DEF M!ServingInv
    <2>7. QED
      BY <2>2, <2>3, <2>4, <2>6
  <1>7. M!NoStrayTarget => M!NoStrayTarget'
    <2>1. M!FreshAddr \cap targets' \subseteq M!FreshAddr'
      BY <1>1 DEF M!FreshAddr
    <2>2. M!Existing' = M!Existing
      BY <1>1 DEF M!Existing, M!Exists
    <2> SUFFICES ASSUME M!NoStrayTarget, ~M!Spent({"stale"})', NEW a \in targets'
                 PROVE  a \in ({ym[m].addr : m \in ControlPlane \cap M!Existing} \cup M!FreshAddr
                                  \cup lostAddr \cup {Addr[i] : i \in lost})'
      BY DEF M!NoStrayTarget
    <2>3. a \in {ym[m].addr : m \in ControlPlane \cap M!Existing} \cup M!FreshAddr
                  \cup lostAddr \cup {Addr[i] : i \in lost}
      BY <1>1, <1>3 DEF M!NoStrayTarget
    <2>4. QED
      BY <1>1, <2>1, <2>2, <2>3
  <1>8. QED
    BY <1>4, <1>5, <1>6, <1>7 DEF M!StrayInv

(* Every step preserves them all. *)
LEMMA ProviderStep ==
    ASSUME Components, JointInv, [Next]_vars
    PROVE  /\ (Components /\ JointInv)'
           /\ M!StrayInv => M!StrayInv'
  <1>1. (C!TypeOK /\ C!ClusterInv /\ C!EndpointInv /\ C!ActiveInv)'
    BY ClusterStep, ClusterKeeps DEF Components
  <1>2. /\ (M!TypeOK /\ M!MachineInv)'
        /\ M!StrayInv => M!StrayInv'
    <2>1. CASE MachineSide
      BY <1>1, <2>1, SideKeeps DEF Components, JointInv
    <2>2. CASE [M!Next]_M!vars /\ tg' = tg
      BY <2>2, MachineKeeps DEF Components
    <2>3. QED
      BY <2>1, <2>2, MachineStep
  <1>3. JointInv'
    BY SeenStep, LastStep, GroupStep, BusyStep, LossesStep DEF JointInv
  <1>4. QED
    BY <1>1, <1>2, <1>3 DEF Components

LEMMA ProviderInit ==
    ASSUME Init
    PROVE  Components /\ JointInv /\ M!StrayInv
  <1>1. CP!Init /\ MP!Init
    BY SameClusterStates, SameMachineStates DEF Init
  <1>2. M!TypeOK /\ M!MachineInv
    <2>1. MP!TypeOK /\ MP!MachineInv
      BY <1>1, MachineConstants, MP!InvInit
    <2>2. QED
      BY <2>1, SameMachineStates
  <1>3. C!TypeOK /\ C!ClusterInv
    <2>1. CP!TypeOK /\ CP!ClusterInv
      BY <1>1, ClusterConstants, CP!InvInit
    <2>2. QED
      BY <2>1, SameClusterStates
  <1>4. C!EndpointInv /\ C!ActiveInv
    BY DEF Init, C!Init, C!EndpointInv, C!SnapshotInv, C!ReachInv, C!ReadyInv, C!ActiveInv,
           C!Absent, C!NoBalancer
  <1>5. JointInv
    <2>1. cspent["group"] = 0 /\ mspent["tg"] = 0 /\ ClusterFaults["group"] \in Nat
      BY ProviderAssumption DEF Init, C!Init, M!Init, C!FaultKinds, M!FaultKinds
    <2>2. BusyInv /\ LossesInv
      BY <2>1 DEF Init, C!Init, BusyInv, LossesInv
    <2>3. SeenInv /\ LastInv /\ GroupInv
      BY <2>1 DEF Init, C!Init, M!Init, C!Absent, M!Absent, SeenInv, LastInv, GroupInv,
             NoMachineLeft, M!Spent
    <2>4. QED
      BY <2>2, <2>3 DEF JointInv
  <1>6. M!StrayInv
    <2>1. MP!StrayInv
      BY <1>1, MachineConstants, MP!StrayInit
    <2>2. QED
      BY <2>1, SameMachineStates
  <1>7. QED
    BY <1>2, <1>3, <1>4, <1>5, <1>6 DEF Components

(***************************************************************************)
(* In every reachable state of the two controllers, for every number of    *)
(* machines, instances and faults, each controller's own invariants hold,  *)
(* and what they know of each other is true.                               *)
(***************************************************************************)
THEOREM Invariance == Spec => [](Components /\ JointInv)
  <1>1. Init => Components /\ JointInv
    BY ProviderInit
  <1>2. Components /\ JointInv /\ [Next]_vars => (Components /\ JointInv)'
    BY ProviderStep
  <1>3. QED
    BY <1>1, <1>2, PTL DEF Spec

(***************************************************************************)
(* What the controllers know of each other is true: JointInv is an         *)
(* invariant.                                                              *)
(***************************************************************************)
THEOREM JointlyTrue == Spec => []JointInv
  BY Invariance, PTL

(***************************************************************************)
(* The machine controller disturbs nothing that YandexCluster describes:   *)
(* next to it, the cluster controller behaves as its own module says.      *)
(***************************************************************************)
THEOREM ClusterImplemented == Spec => C!Spec
  <1>1. Init => C!Init
    BY DEF Init
  <1>2. [Next]_vars => [C!Next]_C!vars
    BY ClusterStep
  <1>3. QED
    BY <1>1, <1>2, PTL DEF Spec, C!Spec

(***************************************************************************)
(* Both finalizers keep their promises when the two controllers share the  *)
(* target group and the informers, and crash together: a YandexCluster     *)
(* that is gone leaves nothing in the cloud, and an instance outlives its  *)
(* YandexMachine only if its id was forgotten.                             *)
(***************************************************************************)
THEOREM PromisesKept == Spec => [](C!NothingLeft /\ M!NoOrphan)
  <1>1. Components => C!NothingLeft
    BY DEF Components, C!ClusterInv, C!ResourcesInv, C!NothingLeft
  <1>2. Components => M!NoOrphan
    <2> SUFFICES ASSUME Components
                 PROVE  M!NoOrphan
      OBVIOUS
    <2>1. MP!TypeOK /\ MP!MachineInv
      BY SameMachineStates DEF Components
    <2>2. MP!NoOrphan
      BY <2>1, MachineConstants, MP!InvImpliesNoOrphan
    <2>3. M!NoOrphan <=> MP!NoOrphan
      BY DEF M!NoOrphan, MP!NoOrphan, M!Alive, MP!Alive, M!LiveStatus, MP!LiveStatus,
             M!Exists, MP!Exists, M!Spent, MP!Spent
    <2>4. QED
      BY <2>2, <2>3
  <1>3. QED
    BY <1>1, <1>2, Invariance, PTL

LEMMA JointNotAlone == JointInv => NeverStranded
  <1> SUFFICES ASSUME JointInv, Ordered, NEW m \in Machines, ym[m].life = "deleting"
               PROVE  Infra \in {"unowned", "up"}
    BY DEF NeverStranded
  <1>1. ccache.life # "none"
    BY DEF JointInv, SeenInv
  <1>2. ccache.life # "gone"
    BY DEF JointInv, SeenInv, LastInv, NoMachineLeft
  <1>3. QED
    BY <1>1, <1>2 DEF Infra

(***************************************************************************)
(* NeverStranded for every number of machines: when the YandexCluster is   *)
(* deleted last, a machine that is being deleted finds it.                 *)
(***************************************************************************)
THEOREM NeverAlone == Spec => []NeverStranded
  BY JointNotAlone, Invariance, PTL

(***************************************************************************)
(* EndpointServed for every number of machines and endpoints, and whether  *)
(* or not the cloud gives addresses again: the endpoint of a Ready cluster *)
(* leads to every control plane machine that is Ready.                     *)
(***************************************************************************)
THEOREM Served == Spec => []EndpointServed
  <1>1. Components /\ JointInv /\ M!StrayInv => EndpointServed
    <2> SUFFICES ASSUME Components, JointInv, M!StrayInv,
                        ~C!Spent({"lost", "replaced", "group", "preset", "stale", "patch"}),
                        ~M!Spent({"stale"}), lost = {}, yc.life = "live", yc.ready
                 PROVE  /\ alb.st = "ACTIVE" /\ alb.addr = yc.ep
                        /\ links = {"alb", "bg"}
                        /\ \A m \in ControlPlane :
                              ym[m].life = "live" /\ ym[m].ready
                                 => ym[m].addr \in targets \/ M!Contested(m)
      BY DEF EndpointServed
    <2>1. /\ ~C!Spent({"lost", "replaced"}) /\ ~C!Spent({"replaced", "preset"})
          /\ ~C!Spent({"replaced"}) /\ ~C!Spent({"group"}) /\ ~C!Spent({"stale"})
          /\ ~C!Spent({"patch"})
      BY DEF C!Spent
    <2>2. alb.st = "ACTIVE"
      BY <2>1 DEF Components, C!ActiveInv
    <2>3. alb.addr = yc.ep
      BY <2>1, <2>2 DEF Components, C!EndpointInv, C!ReachInv, C!ReadyInv
    <2>4. links = {"alb", "bg"}
      <3>1. "alb" \in links /\ "bg" \in links
        BY <2>1, <2>2 DEF Components, C!ClusterInv, C!ResourcesInv, C!TeardownOrder
      <3>2. links \subseteq {"alb", "bg"}
        BY DEF Components, C!TypeOK
      <3>3. QED
        BY <3>1, <3>2
    <2>5. ~M!Spent({"tg"})
      BY <2>1 DEF JointInv, GroupInv
    <2>6. \A m \in ControlPlane :
              ym[m].life = "live" /\ ym[m].ready
                 => ym[m].addr \in targets \/ M!Contested(m)
      BY <2>5 DEF M!StrayInv, M!ServingInv
    <2>7. QED
      BY <2>2, <2>3, <2>4, <2>6
  <1>2. Init => M!StrayInv
    BY ProviderInit
  <1>3. Components /\ JointInv /\ M!StrayInv /\ [Next]_vars => M!StrayInv'
    BY ProviderStep
  <1>4. QED
    BY <1>1, <1>2, <1>3, Invariance, PTL DEF Spec

-----------------------------------------------------------------------------
(***************************************************************************)
(* Next to the cluster controller, the machine controller behaves as its   *)
(* own module says.                                                        *)
(***************************************************************************)

(* The bounds of YandexMachine leave room for what the cluster controller    *)
(* does: the YandexCluster may go, and the target group is lost once more    *)
(* than it is deleted by hand.                                              *)
BoundsSuffice ==
    /\ MachineFaults["cluster"] > 0
    /\ MachineFaults["tg"] > ClusterFaults["group"]

(* The cluster controller does not pause itself. *)
LEMMA PausedKept ==
    ASSUME ClusterAlone
    PROVE  paused' = paused
  <1>1. CASE ClusterWorks
    BY <1>1 DEF ClusterWorks, C!Reconcile, C!ReconcileTargetGroup, C!ReconcileBackendGroup,
            C!ReconcileBalancer, C!WaitBalancer, C!IsActive, C!Describe, C!Restart,
            C!DeleteBalancer, C!DeleteBackendGroup, C!DeleteTargetGroup, C!PatchConds,
            C!PatchSpec, C!PatchStatus, C!k8s
  <1>2. QED
    BY <1>1
       DEF ClusterAlone, ClusterUser, ClusterSync, ClusterTakes, BalancerEnds, ClusterFault,
           C!CreateCluster, C!SetOwnerRef, C!DeleteCluster, C!CacheSync, C!Skip, C!Begin,
           C!BalancerStarted, C!BalancerDeleted, C!Timeout, C!BalancerLost,
           C!BalancerReplaced, C!GroupLost, C!k8s

(* One more element is at most one more. *)
LEMMA OneMore ==
    ASSUME NEW S, IsFiniteSet(S), NEW x
    PROVE  /\ IsFiniteSet(S \cup {x})
           /\ Cardinality(S) \in Nat /\ Cardinality(S \cup {x}) \in Nat
           /\ Cardinality(S \cup {x}) <= Cardinality(S) + 1
  <1>1. /\ IsFiniteSet(S \cup {x})
        /\ Cardinality(S \cup {x}) = IF x \in S THEN Cardinality(S) ELSE Cardinality(S) + 1
    BY FS_AddElement
  <1>2. Cardinality(S) \in Nat
    BY FS_CardinalityType
  <1>3. QED
    BY <1>1, <1>2

(* The kinds of faults are finitely many. *)
LEMMA FewKinds == IsFiniteSet(C!FaultKinds \cup M!FaultKinds)
  <1> DEFINE A == ((({"crash"} \cup {"cloud"}) \cup ({"patch"} \cup {"stale"}))
                      \cup (({"timeout"} \cup {"pause"}) \cup ({"lost"} \cup {"replaced"})))
             B == (({"group"} \cup {"preset"}) \cup ({"vm"} \cup {"tg"})) \cup {"cluster"}
  <1>1. IsFiniteSet(A)
    BY FS_Singleton, FS_Union, Zenon
  <1>2. IsFiniteSet(B)
    BY FS_Singleton, FS_Union, Zenon
  <1>3. C!FaultKinds \cup M!FaultKinds = A \cup B
    BY DEF C!FaultKinds, M!FaultKinds
  <1> HIDE DEF A, B
  <1>4. QED
    BY <1>1, <1>2, <1>3, FS_Union

(* A loss of the target group is within the bounds of the machines. *)
LEMMA LossCounts ==
    ASSUME Components, JointInv, BoundsSuffice, ClusterAlone, tg, ~tg'
    PROVE  M!Fault("tg")
  <1>1. MachineSide /\ [C!Next]_C!vars
    BY ClusterAloneFacts
  <1>2. mspent' = [mspent EXCEPT !["tg"] = @ + 1]
    BY <1>1 DEF MachineSide
  <1>3. mspent["tg"] < MachineFaults["tg"]
    <2>1. /\ ClusterFaults["group"] \in Nat /\ MachineFaults["tg"] \in Nat
          /\ mspent["tg"] \in Nat /\ cspent["group"] \in Nat
      BY ProviderAssumption
         DEF Components, M!TypeOK, C!TypeOK, M!FaultKinds, C!FaultKinds
    <2>2. mspent["tg"] <= cspent["group"] /\ cspent["group"] <= ClusterFaults["group"]
      BY <2>1 DEF JointInv, LossesInv
    <2>3. QED
      BY <2>1, <2>2 DEF BoundsSuffice
  <1>4. Cardinality(M!Happened \cup {"tg"}) <= MaxKinds + 2
    <2> DEFINE S == (C!Happened \cup (M!Happened \ {"tg", "crash"}))'
    <2>1. mspent \in [M!FaultKinds -> Nat] /\ "tg" \in M!FaultKinds
      BY DEF Components, M!TypeOK, M!FaultKinds
    <2>2. mspent' # mspent
      BY <1>2, <2>1
    <2>3. Cardinality(S) <= MaxKinds
      BY <1>1, <2>2 DEF MachineSide, WithinBounds
    <2>4. IsFiniteSet(S)
      <3>1. S \subseteq C!FaultKinds \cup M!FaultKinds
        BY DEF C!Happened, M!Happened
      <3>2. QED
        BY <3>1, FewKinds, FS_Subset
    <2>5. M!Happened \cup {"tg"} \subseteq (S \cup {"tg"}) \cup {"crash"}
      BY <1>2, <2>1 DEF M!Happened, M!FaultKinds
    <2> HIDE DEF S
    <2>6. /\ IsFiniteSet((S \cup {"tg"}) \cup {"crash"})
          /\ Cardinality((S \cup {"tg"}) \cup {"crash"}) <= MaxKinds + 2
      <3>1. /\ IsFiniteSet(S \cup {"tg"}) /\ Cardinality(S) \in Nat
            /\ Cardinality(S \cup {"tg"}) \in Nat
            /\ Cardinality(S \cup {"tg"}) <= Cardinality(S) + 1
        BY <2>4, OneMore
      <3>2. /\ IsFiniteSet((S \cup {"tg"}) \cup {"crash"})
            /\ Cardinality((S \cup {"tg"}) \cup {"crash"}) \in Nat
            /\ Cardinality((S \cup {"tg"}) \cup {"crash"}) <= Cardinality(S \cup {"tg"}) + 1
        BY <3>1, OneMore
      <3>3. QED
        BY <2>3, <3>1, <3>2, ProviderAssumption
    <2>7. /\ Cardinality(M!Happened \cup {"tg"}) <= Cardinality((S \cup {"tg"}) \cup {"crash"})
          /\ Cardinality(M!Happened \cup {"tg"}) \in Nat
          /\ Cardinality((S \cup {"tg"}) \cup {"crash"}) \in Nat
      BY <2>5, <2>6, FS_Subset, FS_CardinalityType
    <2>8. QED
      BY <2>6, <2>7, ProviderAssumption
  <1>5. Cardinality(M!Happened \cup {"tg"}) = M!Cardinality(M!Happened \cup {"tg"})
    BY ZenonT(30) DEF Cardinality, M!Cardinality
  <1>6. QED
    BY <1>2, <1>3, <1>4, <1>5 DEF M!Fault

(* Every step of the cluster controller is to the machines an event of the   *)
(* YandexCluster, the creation or the loss of the target group, or nothing. *)
LEMMA EventStep ==
    ASSUME Components, JointInv, BoundsSuffice, ClusterAlone
    PROVE  UNCHANGED M!vars \/ M!Next
  <1>1. MachineSide /\ [C!Next]_C!vars /\ paused' = paused
    BY ClusterAloneFacts, PausedKept
  <1>2. UNCHANGED <<ym, mcache, owner, inst, late, mpc, cur, booted, mbase, mlocal, mres,
                    lost, lostAddr, paused>>
    BY <1>1 DEF MachineSide, machineVars
  <1>3. /\ ccache' = ccache \/ (ccache' = yc /\ yc' = yc)
        /\ owned => owned'
        /\ owned' # owned => yc.life = "live" /\ ccache' = ccache
        /\ owned' # owned \/ ccache' # ccache => tg' = tg
        /\ ~tg /\ tg' => cpc = "target"
    BY <1>1, ClusterFacts DEF Components
  <1>4. /\ owned \in BOOLEAN /\ owned' \in BOOLEAN /\ tg \in BOOLEAN /\ tg' \in BOOLEAN
        /\ yc.life \in {"none", "live", "deleting", "gone"}
        /\ ccache.life \in {"none", "live", "deleting", "gone"}
    BY <1>1, ClusterKeeps DEF Components, C!TypeOK, C!Object
  <1>5. CASE tg' = tg
    <2>1. mspent' = mspent /\ targets' = targets /\ queue' = Notified
      BY <1>1, <1>5 DEF MachineSide, Remaining, JointInv, GroupInv
    <2>2. CASE UNCHANGED <<ccache, owned>>
      <3>1. Infra' = Infra /\ queue' = queue
        BY <2>1, <2>2 DEF Infra, Notified
      <3>2. QED
        BY <1>2, <1>5, <2>1, <3>1 DEF M!vars, M!k8s, M!cloud, M!worker, M!memory
    <2>3. CASE ~UNCHANGED <<ccache, owned>>
      <3>1. queue' = IF Infra = "up" \/ Infra' = "up" THEN queue \cup M!Existing ELSE queue
        BY <2>1, <2>3 DEF Notified
      <3>2. /\ Infra' \in M!Later \/ (Infra' = Infra /\ Infra # "up")
            /\ Infra' = "gone" => Infra = "gone" \/ yc.life = "gone"
        <4>1. CASE owned' # owned
          BY <1>3, <1>4, <4>1 DEF Infra, M!Later, JointInv, SeenInv
        <4>2. CASE owned' = owned
          <5>1. ccache' = yc
            BY <1>3, <2>3, <4>2
          <5>2. /\ ccache.life # "none" => yc.life # "none"
                /\ ccache.life = "gone" => yc.life = "gone"
            BY DEF JointInv, SeenInv
          <5>3. QED
            BY <1>4, <4>2, <5>1, <5>2 DEF Infra, M!Later
        <4>3. QED
          BY <4>1, <4>2
      <3>3. yc.life = "gone" => ~tg
        BY DEF Components, C!ClusterInv, C!ResourcesInv, C!Exists
      <3>4. CASE Infra' = Infra /\ Infra # "up"
        BY <1>2, <1>5, <2>1, <3>1, <3>4 DEF M!vars, M!k8s, M!cloud, M!worker, M!memory
      <3>5. CASE Infra' \in M!Later
        <4>1. Infra # "gone"
          BY <3>5 DEF M!Later
        <4>2. M!ClusterEvent
          BY <1>2, <1>5, <2>1, <3>1, <3>2, <3>3, <3>5, <4>1
             DEF M!ClusterEvent, M!OwnerKnown, M!cloud, M!worker, M!memory, BoundsSuffice
        <4>3. QED
          BY <4>2 DEF M!Next, M!Environment
      <3>6. QED
        BY <3>2, <3>4, <3>5
    <2>4. QED
      BY <2>2, <2>3
  <1>6. CASE tg' # tg
    <2>1. UNCHANGED <<ccache, owned>>
      BY <1>3, <1>6
    <2>2. Infra' = Infra /\ queue' = queue
      BY <1>1, <2>1 DEF Infra, Notified, MachineSide
    <2>3. CASE tg'
      <3>1. ~tg /\ cpc = "target"
        BY <1>3, <1>4, <1>6, <2>3
      <3>2. ccache.life \notin {"none", "gone"} /\ owned
        <4>1. C!Exists(yc)
          BY <3>1 DEF Components, C!ClusterInv, C!WorkerInv, C!Lags
        <4>2. QED
          BY <3>1, <4>1 DEF JointInv, SeenInv, BusyInv, C!Exists
      <3>3. Infra = "up"
        BY <3>2 DEF Infra
      <3>4. targets' = targets /\ mspent' = mspent
        BY <1>1, <2>3, <3>1 DEF MachineSide, Remaining
      <3>5. M!TargetGroupUp
        BY <1>2, <1>4, <2>2, <2>3, <3>1, <3>3, <3>4
           DEF M!TargetGroupUp, M!k8s, M!worker, M!memory
      <3>6. QED
        BY <3>5 DEF M!Next, M!Environment
    <2>4. CASE ~tg'
      <3>1. tg /\ tg' = FALSE /\ targets' = {}
        BY <1>1, <1>4, <1>6, <2>4 DEF MachineSide, Remaining
      <3>2. M!Fault("tg")
        BY <3>1, LossCounts
      <3>3. M!TargetGroupLost
        BY <1>2, <2>2, <3>1, <3>2 DEF M!TargetGroupLost, M!k8s, M!worker
      <3>4. QED
        BY <3>3 DEF M!Next, M!Environment
    <2>5. QED
      BY <2>3, <2>4
  <1>7. QED
    BY <1>5, <1>6

(* To the machine controller, too, every step is one of its own or none. *)
LEMMA MachineNext ==
    ASSUME Components, JointInv, BoundsSuffice, [Next]_vars
    PROVE  [M!Next]_M!vars
  <1>1. CASE ClusterAlone
    BY <1>1, EventStep
  <1>2. CASE MachineAlone \/ Both
    BY <1>2, MachineAloneFacts, BothFacts
  <1>3. CASE UNCHANGED vars
    BY <1>3 DEF vars, machineVars, clusterVars, Infra, M!vars, M!k8s, M!cloud, M!worker,
            M!memory
  <1>4. QED
    BY <1>1, <1>2, <1>3, StepCases

(***************************************************************************)
(* MachineSpec for every number of machines and faults: what YandexMachine *)
(* assumes of the YandexCluster and of the target group is what the        *)
(* cluster controller does to them, if its bounds leave room for that.     *)
(***************************************************************************)
THEOREM MachineImplemented ==
    ASSUME BoundsSuffice
    PROVE  Spec => MachineSpec
  <1>1. Components /\ JointInv /\ [Next]_vars => [UNCHANGED M!vars \/ M!Next]_vars
    BY MachineNext
  <1>2. QED
    BY <1>1, Invariance, PTL DEF Spec, MachineSpec

-----------------------------------------------------------------------------
(***************************************************************************)
(* What is proved of the machine controller alone holds of it here.        *)
(***************************************************************************)

(***************************************************************************)
(* The machine controller next to the cluster controller refines the       *)
(* machine controller next to what YandexMachine assumes.                  *)
(***************************************************************************)
THEOREM MachineRefined ==
    ASSUME BoundsSuffice
    PROVE  Spec => M!Spec
  <1>1. Init => M!Init
    BY DEF Init
  <1>2. Components /\ JointInv /\ [Next]_vars => [M!Next]_M!vars
    BY MachineNext
  <1>3. QED
    BY <1>1, <1>2, Invariance, PTL DEF Spec, M!Spec

(* The properties of both, under both names. *)
LEMMA SameWakeUps ==
    /\ C!NotForgotten <=> CP!NotForgotten
    /\ (C!WakeInv <=> CP!WakeInv) /\ (C!WakeInv' <=> CP!WakeInv')
    /\ M!NotForgotten <=> MP!NotForgotten
    /\ (M!WakeInv <=> MP!WakeInv) /\ (M!WakeInv' <=> MP!WakeInv')
  BY ZenonT(60) DEF C!NotForgotten, CP!NotForgotten, C!Unfinished, CP!Unfinished, C!Announced,
     CP!Announced, C!Pending, CP!Pending, C!WakeInv, CP!WakeInv, M!NotForgotten,
     MP!NotForgotten, M!Deletable, MP!Deletable,
     M!Provisionable, MP!Provisionable, M!Busy, MP!Busy, M!WakeInv, MP!WakeInv

(* Both invariants about wake-ups stay true next to each other. *)
LEMMA WakeStep ==
    ASSUME Components, JointInv, BoundsSuffice, C!WakeInv, M!WakeInv, [Next]_vars
    PROVE  (C!WakeInv /\ M!WakeInv)'
  <1>1. CP!TypeOK /\ CP!ClusterInv /\ CP!WakeInv /\ [CP!Next]_CP!vars
    BY ClusterStep, SameClusterStates, SameClusterSteps, SameWakeUps DEF Components
  <1>2. CP!WakeInv'
    BY <1>1, ClusterConstants, CP!WakeStep
  <1>3. MP!TypeOK /\ MP!MachineInv /\ MP!WakeInv /\ [MP!Next]_MP!vars
    BY MachineNext, SameMachineStates, SameMachineSteps, SameWakeUps DEF Components
  <1>4. MP!WakeInv'
    BY <1>3, MachineConstants, MP!WakeStep
  <1>5. QED
    BY <1>2, <1>4, SameWakeUps

LEMMA WakeInit ==
    ASSUME Init
    PROVE  C!WakeInv /\ M!WakeInv
  <1>1. CP!Init /\ MP!Init
    BY SameClusterStates, SameMachineStates DEF Init
  <1>2. CP!WakeInv /\ MP!WakeInv
    BY <1>1, ClusterConstants, MachineConstants, CP!WakeInit, MP!WakeInit
  <1>3. QED
    BY <1>2, SameWakeUps

(***************************************************************************)
(* AlwaysWoken for every number of machines and faults: the watches of     *)
(* both controllers and their requeues leave nothing with work behind, and *)
(* an ordered deletion is never forgotten.                                 *)
(***************************************************************************)
THEOREM NothingSleeps ==
    ASSUME BoundsSuffice
    PROVE  Spec => []AlwaysWoken
  <1>1. Components /\ JointInv /\ C!WakeInv /\ M!WakeInv => AlwaysWoken
    <2> SUFFICES ASSUME JointInv, C!WakeInv, M!WakeInv
                 PROVE  AlwaysWoken
      OBVIOUS
    <2>1. C!NotForgotten
      BY DEF C!WakeInv, C!NotForgotten, C!Unfinished, C!Pending
    <2>2. M!NotForgotten
      BY DEF M!WakeInv, M!NotForgotten, M!Deletable
    <2>3. ASSUME Ordered, ~paused, NEW m \in Machines, ym[m].life = "deleting"
          PROVE  m \in queue \/ mcache[m] # ym[m] \/ M!Busy(m)
      <3>1. Infra # "gone"
        BY <2>3, JointNotAlone DEF NeverStranded
      <3>2. M!Deletable(m)
        BY <2>3, <3>1 DEF M!Deletable
      <3>3. QED
        BY <2>2, <3>2 DEF M!NotForgotten
    <2>4. QED
      BY <2>1, <2>2, <2>3 DEF AlwaysWoken
  <1>2. Init => C!WakeInv /\ M!WakeInv
    BY WakeInit
  <1>3. Components /\ JointInv /\ C!WakeInv /\ M!WakeInv /\ [Next]_vars
            => (C!WakeInv /\ M!WakeInv)'
    BY WakeStep
  <1>4. QED
    BY <1>1, <1>2, <1>3, Invariance, PTL DEF Spec
(* A behaviour of the machine controller, under both names. *)
LEMMA SameMachineSpec == M!Spec => MP!Spec
  <1>1. M!Init => MP!Init
    BY SameMachineStates
  <1>2. [M!Next]_M!vars => [MP!Next]_MP!vars
    BY SameMachineSteps
  <1>3. QED
    BY <1>1, <1>2, PTL DEF M!Spec, MP!Spec

(***************************************************************************)
(* With both controllers at work, too, every target is an address of a     *)
(* control plane machine or one that was lost, reused addresses included,  *)
(* and a machine fails only if an instance was disturbed or a view lagged. *)
(***************************************************************************)
THEOREM MachinesAccounted ==
    ASSUME BoundsSuffice
    PROVE  Spec => [](M!NoStrayTarget /\ M!FailureJustified)
  <1>1. MP!Spec => []MP!NoStrayTarget
    BY MachineConstants, MP!NoStray
  <1>2. MP!Spec => []MP!FailureJustified
    BY MachineConstants, MP!FailureHasCause
  <1>3. MP!NoStrayTarget /\ MP!FailureJustified => M!NoStrayTarget /\ M!FailureJustified
    BY ZenonT(30) DEF M!NoStrayTarget, MP!NoStrayTarget, M!FreshAddr, MP!FreshAddr, M!Existing,
       MP!Existing, M!Exists, MP!Exists, M!Spent, MP!Spent, M!FailureJustified,
       MP!FailureJustified
  <1>4. QED
    BY <1>1, <1>2, <1>3, MachineRefined, SameMachineSpec, PTL
=============================================================================
