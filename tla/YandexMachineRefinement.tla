---------------------- MODULE YandexMachineRefinement ----------------------
(***************************************************************************)
(* The YandexMachine controller implements FinalizedObjects, step by step, *)
(* and keeps a providerID while its instance exists.                       *)
(***************************************************************************)
EXTENDS YandexMachineProofs

-----------------------------------------------------------------------------
(***************************************************************************)
(* The histories only grow, and nothing is lost while nothing fails.       *)
(***************************************************************************)
LEMMA Remembers ==
    ASSUME TypeOK, MachineInv, [Next]_vars
    PROVE  Finalizer!Remember
  <1>1. lost \subseteq lost'
    BY DEF Next, Environment, Reconcile, CreateMachine, DeleteMachine, SetOwnerRef,
           SetBootstrapData, Pause, Unpause, ClusterEvent, LateCreate, VMStarted,
           VMDeleted, VMDisturbed, SetStatus, TargetGroupUp, TargetGroupLost,
           CacheSync, Skip, Begin, AddFinalizer, ComputeCreate, ComputeGet, AddTarget,
           DeleteGet, RemoveTarget, ComputeDelete, PatchConds, PatchSpec, PatchStatus,
           Crash, vars, memory
  <1>2. Spent({"crash", "cloud", "patch", "stale"}) =>
            Spent({"crash", "cloud", "patch", "stale"})'
    BY SpentGrows DEF FaultKinds
  <1>3. lost' # {} => Spent({"crash", "cloud", "patch", "stale"})'
    BY InvStep DEF MachineInv, LossInv
  <1>4. QED
    BY <1>1, <1>2, <1>3 DEF Finalizer!Remember

(***************************************************************************)
(* The refinement mapping, by name: what the abstract life, fin and held   *)
(* are in a state of the controller.                                       *)
(***************************************************************************)
Lives == [m \in Machines |-> ym[m].life]
Fins  == [m \in Machines |-> ym[m].fin]
Owned == [m \in Machines |-> {i \in Instances : Alive(i) /\ inst[i].m = m}]

(* A step of the finalizer discipline, in these terms. *)
Maps ==
    \/ UNCHANGED <<Lives, Fins, Owned>>
    \/ \E o \in Machines : \/ Finalizer!Create(o) \/ Finalizer!RequestDeletion(o)
                           \/ Finalizer!Protect(o) \/ Finalizer!Finalize(o)
                           \/ \E r \in Instances : Finalizer!Acquire(o, r) \/ Finalizer!Release(o, r)

(* A step that changes no life, no finalizer and no instance is a stutter. *)
LEMMA Stutter ==
    ASSUME UNCHANGED inst,
           \A m \in Machines : ym'[m].life = ym[m].life /\ ym'[m].fin = ym[m].fin
    PROVE  Maps
  BY DEF Maps, Lives, Fins, Owned, Alive

(* A step of the objects alone leaves the resources alone. *)
LEMMA SameOwned ==
    ASSUME UNCHANGED inst
    PROVE  UNCHANGED Owned
  BY DEF Owned, Alive

(* A step of the cloud alone leaves the objects alone. *)
LEMMA SameLives ==
    ASSUME UNCHANGED ym
    PROVE  UNCHANGED <<Lives, Fins>>
  BY DEF Lives, Fins

(* Users create objects and ask for their deletion. *)
LEMMA UserMaps ==
    ASSUME TypeOK, NEW m \in Machines, CreateMachine(m) \/ DeleteMachine(m)
    PROVE  Maps
  <1>1. UNCHANGED Owned
    BY SameOwned DEF CreateMachine, DeleteMachine, cloud
  <1>2. PICK l \in {"live", "deleting", "gone"} :
            /\ ym' = [ym EXCEPT ![m] = [ym[m] EXCEPT !.life = l]]
            /\ \/ ym[m].life = "none" /\ l = "live"
               \/ ym[m].life = "live" /\ l = IF ym[m].fin THEN "deleting" ELSE "gone"
    BY DEF CreateMachine, DeleteMachine
  <1>3. LET o == [ym[m] EXCEPT !.life = l] IN o.life = l /\ o.fin = ym[m].fin
    BY DEF TypeOK, Object
  <1>4. ym'[m].life = l /\ ym'[m].fin = ym[m].fin /\ \A n \in Machines : n # m => ym'[n] = ym[n]
    BY <1>2, <1>3 DEF TypeOK
  <1>5. /\ Lives' = [Lives EXCEPT ![m] = l]
        /\ Fins' = Fins
    BY <1>4 DEF Lives, Fins
  <1>6. Lives[m] = ym[m].life /\ Fins[m] = ym[m].fin
    BY DEF Lives, Fins
  <1>7. Finalizer!Create(m) \/ Finalizer!RequestDeletion(m)
    BY <1>1, <1>2, <1>5, <1>6
       DEF Finalizer!Create, Finalizer!RequestDeletion, Lives, Fins, Owned
  <1>8. QED
    BY <1>7 DEF Maps

(* An instance comes into being under the name of a machine: the machine is *)
(* protected, or the instance is lost from the start.                       *)
LEMMA NewInstanceMaps ==
    ASSUME TypeOK, UNCHANGED ym, NEW m \in Machines, NEW i \in Instances,
           inst' = [inst EXCEPT ![i] = [m |-> m, st |-> "PROVISIONING"]],
           inst[i].st = "none",
           (Exists(ym[m]) /\ ym[m].fin) \/ i \in lost'
    PROVE  Maps
  <1>1. UNCHANGED <<Lives, Fins>>
    BY SameLives
  <1>2. /\ inst'[i].m = m /\ Alive(i)' /\ ~Alive(i)
        /\ \A j \in Instances : j # i => inst'[j] = inst[j] /\ Alive(j)' = Alive(j)
    BY DEF TypeOK, Alive, LiveStatus
  <1>3. Owned' = [Owned EXCEPT ![m] = @ \cup {i}]
    BY <1>2 DEF Owned
  <1>4. Lives[m] = ym[m].life /\ Fins[m] = ym[m].fin
    BY DEF Lives, Fins
  <1>5. Finalizer!Acquire(m, i)
    BY <1>1, <1>3, <1>4 DEF Finalizer!Acquire, Finalizer!Exists, Exists, Lives, Fins, Owned
  <1>6. QED
    BY <1>5 DEF Maps

(* An instance changes status: it stays, or it is released. *)
LEMMA StatusMaps ==
    ASSUME TypeOK, MachineInv, UNCHANGED ym,
           NEW i \in Instances, NEW s \in LiveStatus \cup {"gone"},
           inst[i].st \in LiveStatus, inst' = [inst EXCEPT ![i].st = s]
    PROVE  Maps
  <1>1. UNCHANGED <<Lives, Fins>>
    BY SameLives
  <1>2. /\ inst'[i].m = inst[i].m /\ Alive(i) /\ Alive(i)' = (s \in LiveStatus)
        /\ \A j \in Instances : j # i => inst'[j] = inst[j] /\ Alive(j)' = Alive(j)
    BY DEF TypeOK, Alive
  <1>3. PICK o \in Machines : o = inst[i].m
    BY DEF MachineInv, ObjectsInv, LiveStatus
  <1>4. CASE s \in LiveStatus
    <2>1. Owned' = Owned
      BY <1>2, <1>4 DEF Owned
    <2>2. QED
      BY <1>1, <2>1 DEF Maps
  <1>5. CASE s \notin LiveStatus
    <2>1. Owned' = [Owned EXCEPT ![o] = @ \ {i}]
      BY <1>2, <1>3, <1>5 DEF Owned
    <2>2. i \in Owned[o]
      BY <1>2, <1>3 DEF Owned
    <2>3. Finalizer!Release(o, i)
      BY <1>1, <2>1, <2>2 DEF Finalizer!Release, Lives, Fins, Owned
    <2>4. QED
      BY <1>3, <2>3 DEF Maps
  <1>6. QED
    BY <1>4, <1>5

(* The finalizer is put on an object that exists. *)
LEMMA ProtectMaps ==
    ASSUME TypeOK, UNCHANGED inst, NEW m \in Machines, Exists(ym[m]),
           ym'[m].life = ym[m].life, ym'[m].fin = TRUE,
           \A n \in Machines : n # m => ym'[n] = ym[n]
    PROVE  Maps
  <1>1. Lives' = Lives /\ Fins' = [Fins EXCEPT ![m] = TRUE]
    BY DEF Lives, Fins
  <1>2. Lives[m] = ym[m].life
    BY DEF Lives
  <1>3. Finalizer!Protect(m)
    BY <1>1, <1>2, SameOwned DEF Finalizer!Protect, Finalizer!Exists, Exists, Lives, Fins, Owned
  <1>4. QED
    BY <1>3 DEF Maps

(* The finalizer is removed when the machine owns nothing but lost ones. *)
LEMMA FinalizeMaps ==
    ASSUME TypeOK, UNCHANGED inst, NEW m \in Machines, ym[m].life = "deleting",
           ym'[m].life = "gone", ym'[m].fin = FALSE,
           \A n \in Machines : n # m => ym'[n] = ym[n],
           \A i \in Instances : Alive(i) /\ inst[i].m = m => i \in lost'
    PROVE  Maps
  <1>1. Lives' = [Lives EXCEPT ![m] = "gone"] /\ Fins' = [Fins EXCEPT ![m] = FALSE]
    BY DEF Lives, Fins
  <1>2. Lives[m] = "deleting" /\ Owned[m] \subseteq lost'
    BY DEF Lives, Owned
  <1>3. Finalizer!Finalize(m)
    BY <1>1, <1>2, SameOwned DEF Finalizer!Finalize, Lives, Fins, Owned
  <1>4. QED
    BY <1>3 DEF Maps

(* Metadata and spec are patched: nothing, a finalizer more, or the end. *)
LEMMA SpecPatchMaps ==
    ASSUME TypeOK, MachineInv, MachineInv', PatchSpec
    PROVE  Maps
  <1> DEFINE n == Finalized(MergeSpec(ym[cur]))
  <1>1. /\ UNCHANGED <<inst, cur>>
        /\ pc = "spec" /\ pc' = "status" /\ cur \in Machines
        /\ ym[cur] \in Object /\ base \in Object /\ local \in Object
        /\ Lags(base, cur)
    BY DEF TypeOK, PatchSpec, cloud, MachineInv, ViewsInv
  <1>2. /\ n.fin = IF local.fin = base.fin THEN ym[cur].fin ELSE local.fin
        /\ n.life = IF ym[cur].life = "deleting" /\ ~n.fin THEN "gone" ELSE ym[cur].life
        /\ n \in Object
    BY <1>1, MergeSpecFacts
  <1>3. ~local.fin => base.life = "deleting"
    BY <1>1 DEF MachineInv, WorkerInv
  <1>4. CASE ym' = ym
    BY <1>1, <1>4, Stutter
  <1>5. CASE /\ (local.fin # base.fin \/ local.pid # base.pid) => Exists(ym[cur])
             /\ ym' = [ym EXCEPT ![cur] = n]
    <2> HIDE DEF n
    <2>1. PICK m \in Machines : m = cur
      BY <1>1
    <2>2. ym'[m] = n /\ \A k \in Machines : k # m => ym'[k] = ym[k]
      BY <1>5, <2>1 DEF TypeOK
    <2>3. CASE local.fin = base.fin
      BY <1>1, <1>2, <2>1, <2>2, <2>3, Stutter DEF MachineInv, ObjectsInv
    <2>4. CASE local.fin # base.fin /\ local.fin
      <3>1. ym'[m].life = ym[m].life /\ ym'[m].fin = TRUE /\ Exists(ym[m])
        BY <1>1, <1>2, <1>5, <2>1, <2>2, <2>4 DEF Object
      <3>2. QED
        BY <1>1, <2>2, <3>1, ProtectMaps
    <2>5. CASE local.fin # base.fin /\ ~local.fin
      <3>1. ym[m].life = "deleting" /\ ym'[m].life = "gone" /\ ym'[m].fin = FALSE
        BY <1>1, <1>2, <1>3, <1>5, <2>1, <2>2, <2>5 DEF Object, Lags, Exists
      <3>2. ASSUME NEW i \in Instances, Alive(i), inst[i].m = m
            PROVE  i \in lost'
        BY <1>1, <3>1, <3>2 DEF MachineInv, Accounted, InFlight, Alive, Exists
      <3>3. QED
        BY <1>1, <2>2, <3>1, <3>2, FinalizeMaps
    <2>6. QED
      BY <2>3, <2>4, <2>5
  <1>6. QED
    BY <1>4, <1>5 DEF PatchSpec

(* The steps of the worker. *)
LEMMA ReconcileMaps ==
    ASSUME TypeOK, MachineInv, MachineInv', Reconcile
    PROVE  Maps
  <1>1. CASE AddFinalizer
    <2>1. UNCHANGED inst /\ cur \in Machines
      BY <1>1 DEF TypeOK, AddFinalizer, cloud
    <2>2. CASE ym' = ym
      BY <2>1, <2>2, Stutter
    <2>3. CASE Exists(ym[cur]) /\ ym' = [ym EXCEPT ![cur] = [ym[cur] EXCEPT !.fin = TRUE]]
      <3>1. PICK m \in Machines : m = cur
        BY <2>1
      <3>2. LET o == [ym[m] EXCEPT !.fin = TRUE] IN o.life = ym[m].life /\ o.fin = TRUE
        BY DEF TypeOK, Object
      <3>3. /\ ym'[m].life = ym[m].life /\ ym'[m].fin = TRUE
            /\ \A k \in Machines : k # m => ym'[k] = ym[k]
        BY <2>3, <3>1, <3>2 DEF TypeOK
      <3>4. QED
        BY <2>1, <2>3, <3>1, <3>3, ProtectMaps
    <2>4. QED
      BY <1>1, <2>2, <2>3 DEF AddFinalizer
  <1>2. CASE ComputeCreate
    <2>1. PICK m \in Machines : m = cur
      BY <1>2 DEF TypeOK, ComputeCreate
    <2>2. UNCHANGED ym /\ Exists(ym[m]) /\ ym[m].fin
      BY <1>2, <2>1 DEF ComputeCreate, k8s, MachineInv, WorkerInv
    <2>3. CASE UNCHANGED inst
      BY <2>2, <2>3, Stutter
    <2>4. CASE ~UNCHANGED inst
      <3>1. PICK i \in Instances :
                /\ inst[i].st = "none"
                /\ inst' = [inst EXCEPT ![i] = [m |-> m, st |-> "PROVISIONING"]]
        BY <1>2, <2>1, <2>4 DEF ComputeCreate, Free
      <3>2. QED
        BY <2>2, <3>1, NewInstanceMaps
    <2>5. QED
      BY <2>3, <2>4
  <1>3. CASE ComputeGet \/ AddTarget \/ DeleteGet \/ RemoveTarget
    <2>1. UNCHANGED <<ym, inst>>
      BY <1>3 DEF ComputeGet, AddTarget, DeleteGet, RemoveTarget, k8s, cloud
    <2>2. QED
      BY <2>1, Stutter
  <1>4. CASE ComputeDelete
    <2>1. UNCHANGED ym /\ local.pid \in Instances
      BY <1>4 DEF TypeOK, Object, ComputeDelete, k8s, MachineInv, WorkerInv
    <2>2. PICK i \in Instances : i = local.pid
      BY <2>1
    <2>3. CASE UNCHANGED inst
      BY <2>1, <2>3, Stutter
    <2>4. CASE inst[i].st \in LiveStatus /\ inst' = [inst EXCEPT ![i].st = "DELETING"]
      BY <2>1, <2>4, StatusMaps DEF LiveStatus
    <2>5. QED
      BY <1>4, <2>2, <2>3, <2>4 DEF ComputeDelete, Alive
  <1>5. CASE PatchConds \/ PatchStatus
    <2>1. UNCHANGED inst /\ cur \in Machines /\ ym[cur] \in Object
      BY <1>5 DEF TypeOK, PatchConds, PatchStatus, cloud
    <2>2. \/ ym' = ym
          \/ ym' = [ym EXCEPT ![cur] = MergeConds(ym[cur])]
          \/ ym' = [ym EXCEPT ![cur] = MergeStatus(ym[cur])]
      BY <1>5 DEF PatchConds, PatchStatus
    <2>3. \A n \in Machines : ym'[n].life = ym[n].life /\ ym'[n].fin = ym[n].fin
      BY <2>1, <2>2, MergeCondsFacts, MergeStatusFacts DEF TypeOK
    <2>4. QED
      BY <2>1, <2>3, Stutter
  <1>6. QED
    BY <1>1, <1>2, <1>3, <1>4, <1>5, SpecPatchMaps DEF Reconcile

(* Every step of the controller and its environment is a step of the        *)
(* abstract specification.                                                  *)
LEMMA StepMaps ==
    ASSUME TypeOK, MachineInv, [Next]_vars
    PROVE  Finalizer!Next
  <1>1. Maps
    <2>1. MachineInv'
      BY InvStep
    <2>2. ASSUME NEW m \in Machines, CreateMachine(m) \/ DeleteMachine(m)
          PROVE  Maps
      BY <2>2, UserMaps
    <2>3. ASSUME NEW m \in Machines, LateCreate(m)
          PROVE  Maps
      <3>1. UNCHANGED ym
        BY <2>3 DEF LateCreate, k8s
      <3>2. PICK i \in Instances :
                /\ inst[i].st = "none" /\ i \in lost'
                /\ inst' = [inst EXCEPT ![i] = [m |-> m, st |-> "PROVISIONING"]]
        BY <2>3 DEF LateCreate, Free
      <3>3. QED
        BY <3>1, <3>2, NewInstanceMaps
    <2>4. ASSUME NEW i \in Instances, VMStarted(i) \/ VMDeleted(i) \/ VMDisturbed(i)
          PROVE  Maps
      <3>1. /\ UNCHANGED ym
            /\ inst[i].st \in LiveStatus
            /\ \E s \in LiveStatus \cup {"gone"} : inst' = [inst EXCEPT ![i].st = s]
        BY <2>4 DEF VMStarted, VMDeleted, VMDisturbed, SetStatus, k8s, LiveStatus
      <3>2. QED
        BY <3>1, StatusMaps
    <2>5. CASE UNCHANGED <<ym, inst>>
      BY <2>5, Stutter
    <2>6. CASE \/ \E m \in Machines : \/ SetOwnerRef(m) \/ SetBootstrapData(m)
                                      \/ CacheSync(m) \/ Skip(m) \/ Begin(m)
               \/ Pause \/ Unpause \/ ClusterEvent
               \/ TargetGroupUp \/ TargetGroupLost \/ Crash
      <3>1. UNCHANGED <<ym, inst>>
        BY <2>6 DEF SetOwnerRef, SetBootstrapData, CacheSync, Skip, Begin, Pause, Unpause,
                    ClusterEvent, TargetGroupUp, TargetGroupLost, Crash, k8s, cloud
      <3>2. QED
        BY <3>1, Stutter
    <2>7. CASE UNCHANGED vars
      BY <2>5, <2>7 DEF vars, k8s, cloud
    <2>8. QED
      BY <2>1, <2>2, <2>3, <2>4, <2>6, <2>7, ReconcileMaps DEF Next, Environment
  <1>2. QED
    BY <1>1, Remembers DEF Finalizer!Next, Maps, Lives, Fins, Owned

-----------------------------------------------------------------------------
(***************************************************************************)
(* The controller implements the abstract specification of a finalizer:    *)
(* an instance is created only while its YandexMachine has                 *)
(* MachineFinalizer, and the finalizer is removed only when no known       *)
(* instance is left.                                                       *)
(***************************************************************************)
THEOREM Refinement == Spec => FinalizerRespected
  <1>1. Init => Finalizer!Init
    BY DEF Init, Finalizer!Init, Absent, Alive, LiveStatus, Spent, FaultKinds
  <1>2. TypeOK /\ MachineInv /\ [Next]_vars => [Finalizer!Next]_(Finalizer!vars)
    BY StepMaps
  <1>3. QED
    BY <1>1, <1>2, Invariance, PTL DEF Spec, FinalizerRespected, Finalizer!Spec

(* Only the patch of metadata and spec changes a providerID. *)
LEMMA PidStep ==
    ASSUME TypeOK, MachineInv, [Next]_vars, NEW m \in Machines,
           ym[m].pid # Nil, ym'[m].pid # ym[m].pid
    PROVE  ~Alive(ym[m].pid)
  <1>1. CASE PatchSpec
    <2> DEFINE n == Finalized(MergeSpec(ym[cur]))
    <2>1. pc = "spec" /\ cur \in Machines /\ ym[cur] \in Object
      BY <1>1 DEF TypeOK, PatchSpec
    <2>2. n.pid = IF local.pid = base.pid THEN ym[cur].pid ELSE local.pid
      BY <2>1, MergeSpecFacts
    <2>3. ym' = ym \/ ym' = [ym EXCEPT ![cur] = n]
      BY <1>1 DEF PatchSpec
    <2> HIDE DEF n
    <2>4. m = cur /\ local.pid # base.pid
      BY <2>1, <2>2, <2>3 DEF TypeOK
    <2>5. QED
      BY <2>1, <2>4 DEF MachineInv, WorkerInv, InFlight
  <1>2. CASE PatchConds \/ PatchStatus
    <2>1. cur \in Machines /\ ym[cur] \in Object
      BY <1>2 DEF TypeOK, PatchConds, PatchStatus
    <2>2. \/ ym' = ym
          \/ ym' = [ym EXCEPT ![cur] = MergeConds(ym[cur])]
          \/ ym' = [ym EXCEPT ![cur] = MergeStatus(ym[cur])]
      BY <1>2 DEF PatchConds, PatchStatus
    <2>3. QED
      BY <2>1, <2>2, MergeCondsFacts, MergeStatusFacts DEF TypeOK
  <1>3. ASSUME NEW k \in Machines, CreateMachine(k) \/ DeleteMachine(k)
        PROVE  FALSE
    BY <1>3 DEF TypeOK, Object, CreateMachine, DeleteMachine
  <1>4. CASE AddFinalizer
    <2>1. cur \in Machines /\ ym[cur] \in Object
      BY <1>4 DEF TypeOK, AddFinalizer
    <2>2. ym' = ym \/ ym' = [ym EXCEPT ![cur] = [ym[cur] EXCEPT !.fin = TRUE]]
      BY <1>4 DEF AddFinalizer
    <2>3. [ym[cur] EXCEPT !.fin = TRUE].pid = ym[cur].pid
      BY <2>1 DEF Object
    <2>4. QED
      BY <2>1, <2>2, <2>3 DEF TypeOK
  <1>5. ym' # ym
    OBVIOUS
  <1>6. QED
    BY <1>1, <1>2, <1>3, <1>4, <1>5
       DEF Next, Environment, Reconcile, SetOwnerRef, SetBootstrapData, Pause, Unpause,
           ClusterEvent, LateCreate, VMStarted, VMDeleted, VMDisturbed, SetStatus,
           TargetGroupUp, TargetGroupLost, CacheSync, Skip, Begin, ComputeCreate, ComputeGet,
           AddTarget, DeleteGet, RemoveTarget, ComputeDelete, Crash, vars, k8s

(***************************************************************************)
(* A recorded providerID is replaced only when its instance has vanished.  *)
(***************************************************************************)
THEOREM PidKept == Spec => ProviderIDKept
  <1>1. TypeOK /\ MachineInv /\ [Next]_vars =>
            [\A m \in Machines :
                ym[m].pid # Nil /\ ym'[m].pid # ym[m].pid => ~Alive(ym[m].pid)]_vars
    BY PidStep
  <1>2. QED
    BY <1>1, Invariance, PTL DEF Spec, ProviderIDKept
=============================================================================
