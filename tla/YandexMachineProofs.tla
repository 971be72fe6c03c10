------------------------ MODULE YandexMachineProofs ------------------------
(***************************************************************************)
(* Proofs about the YandexMachine controller, for every set of machines,   *)
(* instances and addresses and every bound on the faults.                  *)
(***************************************************************************)
EXTENDS YandexMachine, TLAPS

-----------------------------------------------------------------------------
(***************************************************************************)
(* What the patches do to an object.                                       *)
(***************************************************************************)

(* A patch of the conditions leaves life, finalizer and providerID alone. *)
LEMMA MergeCondsFacts ==
    ASSUME TypeOK, NEW o \in Object
    PROVE  /\ MergeConds(o) \in Object
           /\ MergeConds(o).life = o.life
           /\ MergeConds(o).fin = o.fin
           /\ MergeConds(o).pid = o.pid
  BY DEF TypeOK, Object, MergeConds, Patched

(* So does a patch of the status. *)
LEMMA MergeStatusFacts ==
    ASSUME TypeOK, NEW o \in Object
    PROVE  /\ MergeStatus(o) \in Object
           /\ MergeStatus(o).life = o.life
           /\ MergeStatus(o).fin = o.fin
           /\ MergeStatus(o).pid = o.pid
  <1>1. base \in Object /\ local \in Object
    BY DEF TypeOK
  <1> DEFINE a == Patched(local.addr, base.addr, o.addr)
             s == Patched(local.st, base.st, o.st)
             r == Patched(local.ready, base.ready, o.ready)
             f == Patched(local.failed, base.failed, o.failed)
  <1>2. /\ a \in Addrs \cup {Nil}
        /\ s \in InstanceStatus \cup {Nil}
    BY <1>1 DEF Object, Patched
  <1>3. r \in BOOLEAN /\ f \in BOOLEAN
    BY <1>1 DEF Object, Patched
  <1>4. MergeStatus(o) = [o EXCEPT !.addr = a, !.st = s, !.ready = r, !.failed = f]
    BY DEF MergeStatus
  <1> HIDE DEF a, s, r, f
  <1>5. QED
    BY <1>2, <1>3, <1>4 DEF Object

(* A patch of metadata and spec sets what changed; the API server drops an  *)
(* object whose deletion was requested with its last finalizer.             *)
LEMMA MergeSpecFacts ==
    ASSUME TypeOK, NEW o \in Object
    PROVE  LET n == Finalized(MergeSpec(o))
           IN  /\ n \in Object
               /\ n.fin = IF local.fin = base.fin THEN o.fin ELSE local.fin
               /\ n.pid = IF local.pid = base.pid THEN o.pid ELSE local.pid
               /\ n.life = IF o.life = "deleting" /\ ~n.fin THEN "gone" ELSE o.life
  <1> DEFINE p == MergeSpec(o)
  <1>1. /\ p \in Object
        /\ p.life = o.life
        /\ p.fin = IF local.fin = base.fin THEN o.fin ELSE local.fin
        /\ p.pid = IF local.pid = base.pid THEN o.pid ELSE local.pid
    BY DEF TypeOK, Object, MergeSpec, Patched
  <1> HIDE DEF p
  <1>2. QED
    BY <1>1 DEF Finalized, Object, p

(* Setting one field of a well-typed object gives one. *)
LEMMA SetField ==
    ASSUME NEW o \in Object
    PROVE  /\ \A l \in {"live", "deleting", "gone"} : [o EXCEPT !.life = l] \in Object
           /\ \A b \in BOOLEAN : [o EXCEPT !.fin = b] \in Object
           /\ \A i \in Instances : [o EXCEPT !.pid = i] \in Object
           /\ \A a \in Addrs : [o EXCEPT !.addr = a] \in Object
           /\ \A st \in InstanceStatus : [o EXCEPT !.st = st] \in Object
           /\ \A r \in {"True", "False", "Unknown"} : [o EXCEPT !.run = r] \in Object
  BY DEF Object

-----------------------------------------------------------------------------
(***************************************************************************)
(* Type correctness.                                                       *)
(***************************************************************************)

(* One more fault keeps the type of the history, and loses none of it. *)
LEMMA FaultCounts ==
    ASSUME TypeOK, spent' = spent \/ \E k \in FaultKinds : Fault(k)
    PROVE  /\ spent' \in [FaultKinds -> Nat]
           /\ \A k \in FaultKinds : spent[k] <= spent'[k]
  <1>1. CASE spent' = spent
    BY <1>1 DEF TypeOK
  <1>2. ASSUME NEW k \in FaultKinds, Fault(k)
        PROVE  /\ spent' \in [FaultKinds -> Nat]
               /\ \A l \in FaultKinds : spent[l] <= spent'[l]
    <2>1. spent' = [spent EXCEPT ![k] = @ + 1]
      BY <1>2 DEF Fault
    <2>2. QED
      BY <2>1 DEF TypeOK
  <1>3. QED
    BY <1>1, <1>2

(* A step of users, the Cluster API controllers, the cloud or the informer *)
(* preserves the types.                                                    *)
LEMMA EnvironmentType ==
    ASSUME TypeOK,
           Environment \/ \E m \in Machines : CacheSync(m)
    PROVE  TypeOK'
  <1>1. ASSUME NEW m \in Machines,
               \/ CreateMachine(m) \/ DeleteMachine(m)
               \/ SetOwnerRef(m) \/ SetBootstrapData(m) \/ CacheSync(m)
        PROVE  TypeOK'
    <2>1. CASE CreateMachine(m) \/ DeleteMachine(m)
      <3>1. PICK l \in {"live", "deleting", "gone"} :
                ym' = [ym EXCEPT ![m] = [ym[m] EXCEPT !.life = l]]
        BY <2>1 DEF CreateMachine, DeleteMachine
      <3>2. [ym[m] EXCEPT !.life = l] \in Object
        BY SetField DEF TypeOK
      <3>3. ym' \in [Machines -> Object]
        BY <3>1, <3>2 DEF TypeOK
      <3>4. QED
        BY <2>1, <3>3 DEF TypeOK, CreateMachine, DeleteMachine, cloud, worker, memory
    <2>2. CASE SetOwnerRef(m) \/ SetBootstrapData(m) \/ CacheSync(m)
      BY <2>2 DEF TypeOK, SetOwnerRef, SetBootstrapData, CacheSync, cloud, worker, memory
    <2>3. QED
      BY <1>1, <2>1, <2>2
  <1>2. CASE Pause \/ Unpause \/ ClusterEvent
    <2>1. Existing \subseteq Machines
      BY DEF Existing
    <2>2. spent' \in [FaultKinds -> Nat]
      BY <1>2 DEF TypeOK, Pause, Unpause, ClusterEvent, Fault, FaultKinds, memory
    <2>3. QED
      BY <1>2, <2>1, <2>2 DEF TypeOK, Pause, Unpause, ClusterEvent, Later, cloud, worker, memory
  <1>3. ASSUME NEW i \in Instances, VMStarted(i) \/ VMDeleted(i) \/ VMDisturbed(i)
        PROVE  TypeOK'
    <2>1. spent' \in [FaultKinds -> Nat]
      BY <1>3 DEF TypeOK, VMStarted, VMDeleted, VMDisturbed, Fault, FaultKinds
    <2>2. PICK st \in LiveStatus \cup {"none", "gone"} : SetStatus(i, st)
      BY <1>3 DEF VMStarted, VMDeleted, VMDisturbed, LiveStatus
    <2>3. QED
      BY <2>1, <2>2 DEF TypeOK, SetStatus, k8s, worker
  <1>4. CASE TargetGroupUp \/ TargetGroupLost
    <2>1. spent' \in [FaultKinds -> Nat]
      BY <1>4 DEF TypeOK, TargetGroupUp, TargetGroupLost, Fault, FaultKinds, memory
    <2>2. QED
      BY <1>4, <2>1 DEF TypeOK, TargetGroupUp, TargetGroupLost, k8s, worker, memory
  <1>5. ASSUME NEW m \in Machines, LateCreate(m)
        PROVE  TypeOK'
    <2>1. PICK i \in Instances :
              /\ inst' = [inst EXCEPT ![i] = [m |-> m, st |-> "PROVISIONING"]]
              /\ lost' = lost \cup {i}
      BY <1>5 DEF LateCreate
    <2>2. [m |-> m, st |-> "PROVISIONING"]
              \in [m : Machines \cup {Nil}, st : LiveStatus \cup {"none", "gone"}]
      BY DEF LiveStatus
    <2>3. QED
      BY <1>5, <2>1, <2>2 DEF TypeOK, LateCreate, k8s, worker
  <1>6. QED
    BY <1>1, <1>2, <1>3, <1>4, <1>5 DEF Environment

(* The ways a step of the worker moves on keep its variables well typed. *)
LEMMA WorkerMoves ==
    ASSUME TypeOK, pc # "idle", NEW o \in Object
    PROVE  /\ \A step \in Steps : Goto(step, o) =>
                 /\ pc' \in Steps /\ cur' \in Machines /\ booted' \in BOOLEAN
                 /\ base' \in Object /\ local' \in Object
                 /\ res' \in {"none", "after", "error"}
           /\ \A r \in {"none", "after", "error"} : Return(o, r) =>
                 /\ pc' \in Steps /\ cur' \in Machines /\ booted' \in BOOLEAN
                 /\ base' \in Object /\ local' \in Object
                 /\ res' \in {"none", "after", "error"}
           /\ \A st \in InstanceStatus : Conclude(o, st) =>
                 /\ pc' \in Steps /\ cur' \in Machines /\ booted' \in BOOLEAN
                 /\ base' \in Object /\ local' \in Object
                 /\ res' \in {"none", "after", "error"}
  <1>1. \A st \in InstanceStatus :
            /\ [o EXCEPT !.st = st] \in Object
            /\ [[o EXCEPT !.st = st] EXCEPT !.ready = TRUE, !.run = "True"] \in Object
            /\ [[o EXCEPT !.st = st] EXCEPT !.failed = TRUE] \in Object
    BY DEF Object
  <1>2. QED
    BY <1>1 DEF TypeOK, Steps, Goto, Return, Conclude

(* A step of the worker before the scope closes preserves the types. *)
LEMMA ReconcileType ==
    ASSUME TypeOK,
           \/ AddFinalizer \/ ComputeCreate \/ ComputeGet \/ AddTarget
           \/ DeleteGet \/ RemoveTarget \/ ComputeDelete,
           WorkerInv
    PROVE  TypeOK'
  <1> DEFINE WorkerType == /\ pc' \in Steps /\ cur' \in Machines /\ booted' \in BOOLEAN
                           /\ base' \in Object /\ local' \in Object
                           /\ res' \in {"none", "after", "error"}
  <1>1. pc # "idle" /\ cur \in Machines /\ local \in Object /\ base \in Object
    BY DEF TypeOK, AddFinalizer, ComputeCreate, ComputeGet, AddTarget,
           DeleteGet, RemoveTarget, ComputeDelete
  <1>2. spent' \in [FaultKinds -> Nat]
    <2>1. spent' = spent \/ \E k \in FaultKinds : Fault(k)
      BY DEF AddFinalizer, ComputeCreate, ComputeGet, AddTarget,
             DeleteGet, RemoveTarget, ComputeDelete, FaultKinds
    <2>2. QED
      BY <2>1, FaultCounts
  <1>3. CASE AddFinalizer
    <2>1. [local EXCEPT !.fin = TRUE] \in Object
      BY <1>1, SetField
    <2>2. WorkerType
      BY <1>1, <1>3, <2>1, WorkerMoves DEF AddFinalizer, Steps
    <2>3. ym' \in [Machines -> Object]
      <3>1. ym[cur] \in Object /\ [ym[cur] EXCEPT !.fin = TRUE] \in Object
        BY <1>1, SetField DEF TypeOK
      <3>2. ym' = ym \/ ym' = [ym EXCEPT ![cur] = [ym[cur] EXCEPT !.fin = TRUE]]
        BY <1>3 DEF AddFinalizer
      <3>3. QED
        BY <3>1, <3>2 DEF TypeOK
    <2>4. QED
      BY <1>2, <1>3, <2>2, <2>3 DEF TypeOK, AddFinalizer, cloud
  <1>4. CASE ComputeCreate
    <2>1. WorkerType
      BY <1>1, <1>4, SetField, WorkerMoves DEF ComputeCreate, Steps
    <2>2. inst' \in [Instances -> [m : Machines \cup {Nil}, st : LiveStatus \cup {"none", "gone"}]]
      <3>1. [m |-> cur, st |-> "PROVISIONING"]
                \in [m : Machines \cup {Nil}, st : LiveStatus \cup {"none", "gone"}]
        BY <1>1 DEF LiveStatus
      <3>2. \/ inst' = inst
            \/ \E i \in Instances :
                  inst' = [inst EXCEPT ![i] = [m |-> cur, st |-> "PROVISIONING"]]
        BY <1>4 DEF ComputeCreate
      <3>3. QED
        BY <3>1, <3>2 DEF TypeOK
    <2>3. lost' \subseteq Instances /\ late' \subseteq Machines
      BY <1>1, <1>4 DEF TypeOK, ComputeCreate
    <2>4. QED
      BY <1>2, <1>4, <2>1, <2>2, <2>3 DEF TypeOK, ComputeCreate, k8s
  <1>5. CASE ComputeGet
    <2>1. local.pid \in Instances
      BY <1>1, <1>5 DEF ComputeGet, WorkerInv, Object
    <2>2. /\ [local EXCEPT !.addr = Addr[local.pid]] \in Object
          /\ \A r \in {"False", "Unknown"} : [local EXCEPT !.run = r] \in Object
      BY <1>1, <2>1, SetField, ConstantsAssumption
    <2>3. WorkerType
      BY <1>1, <1>5, <2>2, WorkerMoves DEF ComputeGet, SetAddresses, Steps, LiveStatus, InstanceStatus
    <2>4. QED
      BY <1>2, <1>5, <2>3 DEF TypeOK, ComputeGet, k8s, cloud
  <1>6. CASE AddTarget
    <2>1. WorkerType
      BY <1>1, <1>6, WorkerMoves DEF AddTarget, InstanceStatus, LiveStatus
    <2>2. local.addr \in Addrs
      BY <1>1, <1>6 DEF AddTarget, WorkerInv, Object
    <2>3. QED
      BY <1>2, <1>6, <2>1, <2>2 DEF TypeOK, AddTarget, WithTarget, k8s
  <1>7. CASE DeleteGet
    <2>1. local.pid \in Instances
      BY <1>1, <1>7 DEF DeleteGet, WorkerInv, Object
    <2>2. /\ [local EXCEPT !.fin = FALSE] \in Object
          /\ inst[local.pid].st \in LiveStatus => [local EXCEPT !.st = inst[local.pid].st] \in Object
      BY <1>1, SetField DEF InstanceStatus
    <2>3. WorkerType
      BY <1>1, <1>7, <2>2, WorkerMoves DEF DeleteGet, Steps, LiveStatus
    <2>4. QED
      BY <1>2, <1>7, <2>3 DEF TypeOK, DeleteGet, k8s, cloud
  <1>8. CASE RemoveTarget
    <2>1. WorkerType
      BY <1>1, <1>8, SetField, WorkerMoves DEF RemoveTarget, Steps
    <2>2. targets' \subseteq Addrs
      BY <1>8 DEF TypeOK, RemoveTarget, WithoutTarget
    <2>3. QED
      BY <1>2, <1>8, <2>1, <2>2 DEF TypeOK, RemoveTarget, k8s
  <1>9. CASE ComputeDelete
    <2>1. WorkerType
      BY <1>1, <1>9, WorkerMoves DEF ComputeDelete
    <2>2. inst' \in [Instances -> [m : Machines \cup {Nil}, st : LiveStatus \cup {"none", "gone"}]]
      BY <1>9 DEF TypeOK, ComputeDelete, LiveStatus
    <2>3. QED
      BY <1>2, <1>9, <2>1, <2>2 DEF TypeOK, ComputeDelete, k8s
  <1>10. QED
    BY <1>3, <1>4, <1>5, <1>6, <1>7, <1>8, <1>9

(* So does a patch at the closing of the scope, a key taken from the queue,  *)
(* and a restart.                                                           *)
LEMMA CloseType ==
    ASSUME TypeOK,
           \/ PatchConds \/ PatchSpec \/ PatchStatus \/ Crash
           \/ \E m \in Machines : Skip(m) \/ Begin(m)
    PROVE  TypeOK'
  <1>1. spent' \in [FaultKinds -> Nat]
    <2>1. spent' = spent \/ \E k \in FaultKinds : Fault(k)
      BY DEF PatchConds, PatchSpec, PatchStatus, Crash, Skip, Begin, Take, FaultKinds
    <2>2. QED
      BY <2>1, FaultCounts
  <1>2. Absent \in Object
    BY DEF Absent, Object
  <1>3. Existing \subseteq Machines
    BY DEF Existing
  <1>4. FreshPid \subseteq Instances /\ FreshAddr \subseteq Addrs
    BY DEF TypeOK, FreshPid, FreshAddr, Object
  <1>5. CASE PatchConds
    <2>1. cur \in Machines /\ ym[cur] \in Object
      BY <1>5 DEF TypeOK, PatchConds
    <2>2. ym' \in [Machines -> Object]
      BY <1>5, <2>1, MergeCondsFacts DEF TypeOK, PatchConds
    <2>3. QED
      BY <1>1, <1>5, <2>1, <2>2 DEF TypeOK, PatchConds, Steps, cloud
  <1>6. CASE PatchSpec
    <2>1. cur \in Machines /\ ym[cur] \in Object
      BY <1>6 DEF TypeOK, PatchSpec
    <2>2. ym' \in [Machines -> Object]
      BY <1>6, <2>1, MergeSpecFacts DEF TypeOK, PatchSpec
    <2>3. lost' \subseteq Instances
      <3>1. Overlooked \subseteq Instances
        BY <2>1 DEF Overlooked, Object
      <3>2. QED
        BY <1>4, <1>6, <3>1 DEF TypeOK, PatchSpec
    <2>4. QED
      BY <1>1, <1>6, <2>1, <2>2, <2>3 DEF TypeOK, PatchSpec, Steps, cloud
  <1>7. CASE PatchStatus
    <2>1. cur \in Machines /\ ym[cur] \in Object
      BY <1>7 DEF TypeOK, PatchStatus
    <2>2. ym' \in [Machines -> Object]
      BY <1>7, <2>1, MergeStatusFacts DEF TypeOK, PatchStatus
    <2>3. queue' \subseteq Machines /\ lostAddr' \subseteq Addrs
      BY <1>4, <1>7, <2>1 DEF TypeOK, PatchStatus, Requeue
    <2>4. QED
      BY <1>1, <1>2, <1>7, <2>2, <2>3 DEF TypeOK, PatchStatus, Rest, Steps, cloud
  <1>8. CASE Crash
    <2>1. infra' \in {"absent", "unowned", "up", "gone"}
      BY <1>8 DEF TypeOK, Crash, Later
    <2>2. QED
      BY <1>1, <1>2, <1>3, <1>4, <1>8, <2>1 DEF TypeOK, Crash, Rest, Steps, cloud
  <1>9. ASSUME NEW m \in Machines, Skip(m)
        PROVE  TypeOK'
    BY <1>1, <1>9 DEF TypeOK, Skip, Take, k8s, cloud, worker
  <1>10. ASSUME NEW m \in Machines, Begin(m)
         PROVE  TypeOK'
    <2>1. cache[m] \in Object /\ [cache[m] EXCEPT !.fin = FALSE] \in Object
      BY SetField DEF TypeOK
    <2>2. /\ pc' \in Steps /\ cur' \in Machines /\ booted' \in BOOLEAN
          /\ base' \in Object /\ local' \in Object /\ res' \in {"none", "after", "error"}
      BY <1>10, <2>1 DEF Begin, Steps
    <2>3. QED
      BY <1>1, <1>10, <2>2 DEF TypeOK, Begin, Take, k8s, cloud
  <1>11. QED
    BY <1>5, <1>6, <1>7, <1>8, <1>9, <1>10

(* Every step preserves the types, given what the worker knows at each step. *)
LEMMA TypeStep ==
    ASSUME TypeOK, WorkerInv, [Next]_vars
    PROVE  TypeOK'
  <1>1. CASE Next
    BY <1>1, EnvironmentType, ReconcileType, CloseType DEF Next, Reconcile
  <1>2. CASE UNCHANGED vars
    BY <1>2 DEF TypeOK, vars, k8s, cloud, worker, memory
  <1>3. QED
    BY <1>1, <1>2

-----------------------------------------------------------------------------
(***************************************************************************)
(* MachineInv is inductive.                                                *)
(***************************************************************************)

(* The history of faults only grows. *)
LEMMA FaultsGrow ==
    ASSUME TypeOK, spent' = spent \/ \E k \in FaultKinds : Fault(k)
    PROVE  /\ Spent({"stale"}) => Spent({"stale"})'
           /\ LossInv /\ UNCHANGED <<lost, late>> => LossInv'
  <1>1. \A k \in FaultKinds : spent[k] \in Nat /\ spent'[k] \in Nat /\ spent[k] <= spent'[k]
    BY FaultCounts DEF TypeOK
  <1>2. QED
    BY <1>1 DEF Spent, LossInv, FaultKinds

(* A step counts at most one fault. *)
LEMMA OneFault ==
    ASSUME [Next]_vars
    PROVE  spent' = spent \/ \E k \in FaultKinds : Fault(k)
  BY DEF Next, Environment, Reconcile, CreateMachine, DeleteMachine, SetOwnerRef,
         SetBootstrapData, Pause, Unpause, ClusterEvent, LateCreate, VMStarted,
         VMDeleted, VMDisturbed, SetStatus, TargetGroupUp, TargetGroupLost,
         CacheSync, Skip, Begin, Take, AddFinalizer, ComputeCreate, ComputeGet, AddTarget,
         DeleteGet, RemoveTarget, ComputeDelete, PatchConds, PatchSpec, PatchStatus,
         Crash, vars, memory, FaultKinds

(* What has failed once has failed for good. *)
LEMMA SpentGrows ==
    ASSUME TypeOK, [Next]_vars, NEW K \in SUBSET FaultKinds, Spent(K)
    PROVE  Spent(K)'
  <1>1. \A k \in FaultKinds : spent[k] \in Nat /\ spent'[k] \in Nat /\ spent[k] <= spent'[k]
    BY OneFault, FaultCounts DEF TypeOK
  <1>2. QED
    BY <1>1 DEF Spent

(* A step that touches neither objects, views, instances nor the worker. *)
LEMMA NeutralStep ==
    ASSUME TypeOK, MachineInv,
           spent' = spent \/ \E k \in FaultKinds : Fault(k),
           UNCHANGED <<ym, cache, inst, pc, cur, base, local, lost, late>>
    PROVE  MachineInv'
  <1>1. ObjectsInv'
    BY DEF MachineInv, ObjectsInv, Alive
  <1>2. ViewsInv'
    BY FaultsGrow DEF MachineInv, ViewsInv, Lags, Exists
  <1>3. WorkerInv'
    BY DEF MachineInv, WorkerInv, InFlight, Alive, Exists
  <1>4. Accounted'
    BY DEF MachineInv, Accounted, InFlight, Alive, Exists
  <1>5. LossInv'
    BY FaultsGrow DEF MachineInv
  <1>6. QED
    BY <1>1, <1>2, <1>3, <1>4, <1>5 DEF MachineInv

(* An instance changes status but does not come back to life. *)
LEMMA StatusStep ==
    ASSUME TypeOK, MachineInv,
           spent' = spent \/ \E k \in FaultKinds : Fault(k),
           UNCHANGED <<ym, cache, pc, cur, base, local, lost, late>>,
           NEW i \in Instances, NEW s \in LiveStatus \cup {"gone"},
           inst[i].st \in LiveStatus, inst' = [inst EXCEPT ![i].st = s]
    PROVE  MachineInv'
  <1>1. \A j \in Instances :
            /\ inst'[j].m = inst[j].m
            /\ inst'[j].st = "none" <=> inst[j].st = "none"
            /\ Alive(j)' => Alive(j)
    BY DEF TypeOK, Alive, LiveStatus
  <1>2. ObjectsInv'
    BY <1>1 DEF TypeOK, Object, MachineInv, ObjectsInv
  <1>3. ViewsInv'
    BY <1>1, FaultsGrow DEF TypeOK, Object, MachineInv, ViewsInv, Lags, Exists
  <1>4. WorkerInv'
    BY <1>1 DEF TypeOK, Object, MachineInv, WorkerInv, InFlight, Exists
  <1>5. Accounted'
    BY <1>1 DEF MachineInv, Accounted, InFlight, Exists
  <1>6. LossInv'
    BY FaultsGrow DEF MachineInv
  <1>7. QED
    BY <1>2, <1>3, <1>4, <1>5, <1>6 DEF MachineInv

(* An object is created or its deletion is requested. *)
LEMMA ObjectStep ==
    ASSUME TypeOK, MachineInv, NEW m \in Machines, CreateMachine(m) \/ DeleteMachine(m)
    PROVE  MachineInv'
  <1>1. UNCHANGED <<cache, inst, pc, cur, base, local, lost, late, spent>>
    BY DEF CreateMachine, DeleteMachine, cloud, worker, memory
  <1>2. \A n \in Machines :
            /\ ym'[n].fin = ym[n].fin
            /\ ym'[n].pid = ym[n].pid
            /\ n # m => ym'[n].life = ym[n].life
    BY DEF TypeOK, Object, CreateMachine, DeleteMachine
  <1>3. \/ ym[m].life = "none" /\ ym'[m].life = "live"
        \/ ym[m].life = "live" /\ ym[m].fin /\ ym'[m].life = "deleting"
        \/ ym[m].life = "live" /\ ~ym[m].fin /\ ym'[m].life = "gone"
    BY DEF TypeOK, Object, CreateMachine, DeleteMachine
  <1>4. ObjectsInv'
    BY <1>1, <1>2, <1>3 DEF MachineInv, ObjectsInv, Alive
  <1>5. ASSUME NEW v \in Object, NEW n \in Machines, Lags(v, n)
        PROVE  Lags(v, n)'
    BY <1>1, <1>2, <1>3, <1>5 DEF Lags, Exists
  <1>6. ViewsInv'
    BY <1>1, <1>2, <1>5 DEF TypeOK, MachineInv, ViewsInv, Spent
  <1>7. \A n \in Machines : Exists(ym[n]) /\ ym[n].fin => Exists(ym'[n])
    BY <1>2, <1>3 DEF Exists
  <1>8. WorkerInv'
    BY <1>1, <1>2, <1>7 DEF TypeOK, MachineInv, WorkerInv, InFlight, Alive
  <1>9. Accounted'
    <2>1. ASSUME NEW i \in Instances, Alive(i),
                 ym[inst[i].m].pid = i, Exists(ym[inst[i].m])
          PROVE  ym'[inst[i].m].pid = i /\ Exists(ym'[inst[i].m])
      <3>1. inst[i].m \in Machines
        BY <2>1 DEF MachineInv, ObjectsInv, Alive, LiveStatus
      <3>2. ym[inst[i].m].fin
        BY <2>1, <3>1, ConstantsAssumption DEF MachineInv, ObjectsInv, Exists
      <3>3. QED
        BY <1>2, <1>7, <2>1, <3>1, <3>2
    <2>2. QED
      BY <1>1, <2>1 DEF MachineInv, Accounted, InFlight, Alive
  <1>10. LossInv'
    BY <1>1 DEF MachineInv, LossInv, Spent
  <1>11. QED
    BY <1>4, <1>6, <1>8, <1>9, <1>10 DEF MachineInv

(* The informer catches up. *)
LEMMA CacheStep ==
    ASSUME TypeOK, MachineInv, NEW m \in Machines, CacheSync(m)
    PROVE  MachineInv'
  <1>1. UNCHANGED <<ym, inst, pc, cur, base, local, lost, late, spent>>
    BY DEF CacheSync, cloud, worker, memory
  <1>2. cache' = [cache EXCEPT ![m] = ym[m]]
    BY DEF CacheSync
  <1>3. Lags(ym[m], m)
    BY DEF TypeOK, Object, MachineInv, ObjectsInv, Lags, Exists
  <1>4. ViewsInv'
    <2>1. \A n \in Machines : Lags(cache'[n], n)
      BY <1>2, <1>3 DEF TypeOK, MachineInv, ViewsInv
    <2>2. \A n \in Machines : Lags(cache[n], n)'
      BY <1>1, <2>1 DEF Lags
    <2>3. ASSUME pc # "idle", base.life = "deleting"
          PROVE  cache'[cur].life \in {"deleting", "gone"}
      BY <1>2, <2>3 DEF TypeOK, MachineInv, ViewsInv, Lags
    <2>4. ASSUME pc # "idle"
          PROVE  Lags(base, cur)'
      BY <1>1, <2>4 DEF MachineInv, ViewsInv, Lags
    <2>5. QED
      BY <1>1, <2>2, <2>3, <2>4 DEF MachineInv, ViewsInv, Spent
  <1>5. ObjectsInv'
    BY <1>1 DEF MachineInv, ObjectsInv, Alive
  <1>6. WorkerInv'
    BY <1>1 DEF MachineInv, WorkerInv, InFlight, Alive, Exists
  <1>7. Accounted' /\ LossInv'
    BY <1>1 DEF MachineInv, Accounted, LossInv, InFlight, Alive, Exists, Spent
  <1>8. QED
    BY <1>4, <1>5, <1>6, <1>7 DEF MachineInv

(* A key is taken and its object read from the cache. *)
LEMMA BeginStep ==
    ASSUME TypeOK, MachineInv, NEW m \in Machines, Begin(m)
    PROVE  MachineInv'
  <1>1. /\ UNCHANGED <<ym, cache, inst, lost, late>>
        /\ pc = "idle"
        /\ spent' = spent \/ \E k \in FaultKinds : Fault(k)
    BY DEF Begin, Take, k8s, cloud, FaultKinds
  <1>2. /\ cur' = m
        /\ base' = cache[m]
        /\ cache[m] \in Object
        /\ Exists(cache[m])
    BY DEF TypeOK, Begin, Gated
  <1>3. \/ /\ cache[m].life = "deleting" /\ cache[m].pid = Nil
           /\ pc' = "conds" /\ local' = [cache[m] EXCEPT !.fin = FALSE]
        \/ /\ cache[m].life = "deleting" /\ cache[m].pid # Nil
           /\ pc' = "delGet" /\ local' = cache[m]
        \/ /\ cache[m].life = "live"
           /\ pc' = "finalizer" /\ local' = cache[m]
    BY <1>2 DEF Begin, Exists
  <1>4. /\ local'.life = cache[m].life
        /\ local'.pid = cache[m].pid
        /\ pc' \in {"finalizer", "delGet"} => local' = cache[m]
    BY <1>2, <1>3 DEF Object
  <1>5. \A k \in {"stale"} : ~Spent({k})' => cache[m] = ym[m]
    BY DEF TypeOK, Begin, Take, Fault, Spent, FaultKinds
  <1>6. ObjectsInv'
    BY <1>1 DEF MachineInv, ObjectsInv, Alive
  <1>7. ViewsInv'
    <2>1. \A n \in Machines : Lags(cache[n], n)'
      BY <1>1 DEF MachineInv, ViewsInv, Lags
    <2>2. Lags(base, cur)'
      BY <1>1, <1>2 DEF MachineInv, ViewsInv, Lags
    <2>3. QED
      BY <1>1, <1>2, <1>3, <1>4, <1>5, <2>1, <2>2 DEF ViewsInv, Exists
  <1>8. WorkerInv'
    BY <1>1, <1>2, <1>3, <1>4 DEF WorkerInv, InFlight
  <1>9. Accounted'
    BY <1>1, <1>2, <1>4 DEF MachineInv, Accounted, InFlight, Alive
  <1>10. LossInv'
    BY <1>1, FaultsGrow DEF MachineInv
  <1>11. QED
    BY <1>6, <1>7, <1>8, <1>9, <1>10 DEF MachineInv

(* Moving on keeps the snapshot and sets only status fields of the object. *)
LEMMA MoveFacts ==
    ASSUME TypeOK, NEW o \in Object
    PROVE  /\ \A r : Return(o, r) => pc' = "conds" /\ local' = o /\ cur' = cur /\ base' = base
           /\ \A p : Goto(p, o) => pc' = p /\ local' = o /\ cur' = cur /\ base' = base
           /\ \A st \in InstanceStatus : Conclude(o, st) =>
                 /\ pc' = "conds" /\ cur' = cur /\ base' = base
                 /\ local'.life = o.life /\ local'.fin = o.fin /\ local'.pid = o.pid
  BY DEF Return, Goto, Conclude, Object

(* The calls that only read the instance or change the target group. *)
LEMMA CallStep ==
    ASSUME TypeOK, MachineInv, ComputeGet \/ AddTarget \/ DeleteGet \/ RemoveTarget
    PROVE  MachineInv'
  <1>1. /\ UNCHANGED <<ym, cache, inst, lost, late>>
        /\ spent' = spent \/ \E k \in FaultKinds : Fault(k)
    BY DEF ComputeGet, AddTarget, DeleteGet, RemoveTarget, k8s, cloud, FaultKinds
  <1>2. /\ pc # "idle" /\ cur \in Machines /\ local \in Object /\ base \in Object
        /\ pc \in {"get", "addTarget", "delGet", "dereg", "deregGone", "vmDelete"}
        /\ local.pid \in Instances
    BY DEF TypeOK, Object, ComputeGet, AddTarget, DeleteGet, RemoveTarget, MachineInv, WorkerInv
  <1> DEFINE Moved ==
               /\ cur' = cur /\ base' = base
               /\ local'.life = local.life /\ local'.pid = local.pid
               /\ \/ /\ pc \in {"get", "addTarget"}
                     /\ \/ pc' = "conds"
                        \/ pc' = "addTarget" /\ local'.addr # Nil
                     /\ local'.fin = local.fin
                  \/ /\ pc \in {"delGet", "dereg", "deregGone"}
                     /\ \/ pc' \in {"dereg", "vmDelete", "conds"}
                        \/ pc' = "deregGone" /\ ~Alive(local.pid)
                     /\ local'.fin = local.fin
                  \/ /\ pc \in {"delGet", "deregGone"}
                     /\ pc' = "conds"
                     /\ ~local'.fin /\ ~Alive(local.pid)
  <1> DEFINE Same(o) == /\ o \in Object
                        /\ o.life = local.life /\ o.fin = local.fin /\ o.pid = local.pid
  <1>3. ASSUME ComputeGet PROVE Moved
    <2>1. \A a \in Addrs : Same([local EXCEPT !.addr = a]) /\ [local EXCEPT !.addr = a].addr = a
      BY <1>2 DEF Object
    <2>2. \A r \in {"True", "False", "Unknown"} : Same([local EXCEPT !.run = r])
      BY <1>2 DEF Object
    <2>3. Addr[local.pid] \in Addrs /\ Nil \notin Addrs
      BY <1>2, ConstantsAssumption
    <2>4. pc = "get"
      BY <1>3 DEF ComputeGet
    <2>5. \E o \in Object :
             /\ Same(o)
             /\ \/ Return(o, "error")
                \/ Goto("addTarget", o) /\ o.addr # Nil
                \/ \E t \in InstanceStatus : Conclude(o, t)
      <3>1. Same(local)
        BY <1>2
      <3>2. CASE /\ inst[local.pid].st = "RUNNING"
                 /\ LET o == [local EXCEPT !.addr = Addr[local.pid]]
                    IN Goto("addTarget", o) \/ Conclude(o, "RUNNING")
        BY <2>1, <2>3, <3>2 DEF InstanceStatus, LiveStatus
      <3>3. CASE /\ inst[local.pid].st \in LiveStatus
                 /\ Conclude(local, inst[local.pid].st)
        BY <3>1, <3>3 DEF InstanceStatus
      <3>4. CASE Conclude([local EXCEPT !.run = "False"], "DELETED")
        BY <2>2, <3>4 DEF InstanceStatus
      <3>5. CASE \E r \in {"False", "Unknown"} : Return([local EXCEPT !.run = r], "error")
        BY <2>2, <3>5
      <3>6. QED
        BY <1>3, <3>2, <3>3, <3>4, <3>5 DEF ComputeGet, SetAddresses
    <2>6. QED
      BY <1>2, <2>4, <2>5, MoveFacts
  <1>4. ASSUME AddTarget PROVE Moved
    <2>1. Return(local, "error") \/ Conclude(local, "RUNNING")
      BY <1>4 DEF AddTarget
    <2>2. pc = "addTarget"
      BY <1>4 DEF AddTarget
    <2>3. CASE Return(local, "error")
      BY <1>2, <2>2, <2>3, MoveFacts
    <2>4. CASE Conclude(local, "RUNNING")
      <3>1. "RUNNING" \in InstanceStatus
        BY DEF InstanceStatus, LiveStatus
      <3>2. QED
        BY <1>2, <2>2, <2>4, <3>1, MoveFacts
    <2>5. QED
      BY <2>1, <2>3, <2>4
  <1>5. ASSUME DeleteGet PROVE Moved
    <2>1. \A t \in InstanceStatus : Same([local EXCEPT !.st = t])
      BY <1>2 DEF Object
    <2>2. LET o == [local EXCEPT !.fin = FALSE]
          IN  o \in Object /\ o.life = local.life /\ ~o.fin /\ o.pid = local.pid
      BY <1>2 DEF Object
    <2>3. pc = "delGet"
      BY <1>5 DEF DeleteGet
    <2>4. \/ /\ ~Alive(local.pid)
             /\ \/ Goto("deregGone", local)
                \/ Return([local EXCEPT !.fin = FALSE], "none")
          \/ \E o \in Object : /\ Same(o)
                               /\ \/ \E r : Return(o, r)
                                  \/ Goto("dereg", o)
                                  \/ Goto("vmDelete", o)
      <3>1. Same(local)
        BY <1>2
      <3>2. CASE inst[local.pid].st = "gone" /\ ~Return(local, "error")
        BY <1>5, <3>2 DEF DeleteGet, IsNotFound, Alive, LiveStatus
      <3>3. CASE inst[local.pid].st \in LiveStatus /\ ~Return(local, "error")
        BY <1>5, <2>1, <3>3 DEF DeleteGet, IsNotFound, InstanceStatus, LiveStatus
      <3>4. QED
        BY <1>5, <3>1, <3>2, <3>3 DEF DeleteGet, IsNotFound, LiveStatus
    <2>5. QED
      BY <1>2, <2>2, <2>3, <2>4, MoveFacts
  <1>6. ASSUME RemoveTarget PROVE Moved
    <2>1. LET o == [local EXCEPT !.fin = FALSE]
          IN  o \in Object /\ o.life = local.life /\ ~o.fin /\ o.pid = local.pid
      BY <1>2 DEF Object
    <2>2. pc = "deregGone" => ~Alive(local.pid)
      BY DEF MachineInv, WorkerInv
    <2>3. QED
      BY <1>2, <1>6, <2>1, <2>2, MoveFacts DEF RemoveTarget
  <1>7. Moved
    BY <1>3, <1>4, <1>5, <1>6
  <1> HIDE DEF Same
  <1>8. ObjectsInv'
    BY <1>1 DEF MachineInv, ObjectsInv, Alive
  <1>9. ViewsInv'
    <2>1. /\ \A n \in Machines : Lags(cache[n], n)'
          /\ Lags(base, cur)'
      BY <1>1, <1>2, <1>7 DEF MachineInv, ViewsInv, Lags
    <2>2. QED
      BY <1>1, <1>2, <1>7, <2>1, FaultsGrow DEF MachineInv, ViewsInv
  <1>10. WorkerInv'
    <2>1. base.life = "deleting" => base.fin
      BY <1>2 DEF MachineInv, ViewsInv, Lags
    <2>2. QED
      BY <1>1, <1>2, <1>7, <2>1 DEF MachineInv, WorkerInv, InFlight, Alive, Exists
  <1>11. Accounted'
    BY <1>1, <1>2, <1>7 DEF MachineInv, Accounted, WorkerInv, InFlight, Alive
  <1>12. LossInv'
    BY <1>1, FaultsGrow DEF MachineInv
  <1>13. QED
    BY <1>8, <1>9, <1>10, <1>11, <1>12 DEF MachineInv

(* The finalizer is on the object before anything is created. *)
LEMMA FinalizerStep ==
    ASSUME TypeOK, MachineInv, AddFinalizer
    PROVE  MachineInv'
  <1>1. /\ UNCHANGED <<cache, inst, lost, late>>
        /\ spent' = spent \/ \E k \in FaultKinds : Fault(k)
        /\ pc = "finalizer" /\ cur \in Machines /\ base \in Object
        /\ local = base /\ base.life = "live"
        /\ Lags(base, cur)
    BY DEF TypeOK, AddFinalizer, cloud, FaultKinds, MachineInv, WorkerInv, ViewsInv
  <1> DEFINE o == [local EXCEPT !.fin = TRUE]
  <1>2. o \in Object /\ o.life = base.life /\ o.fin /\ o.pid = base.pid
    BY <1>1 DEF Object
  <1>3. /\ cur' = cur /\ base' = base /\ local' = o
        /\ \/ pc' = "conds"
           \/ /\ pc' = "create" /\ o.pid = Nil /\ Exists(ym'[cur]) /\ ym'[cur].fin
           \/ /\ pc' = "get" /\ o.pid # Nil /\ Exists(ym'[cur]) /\ ym'[cur].fin
    <2>1. CASE Return(o, "none") \/ Return(o, "error")
      BY <2>1 DEF Return
    <2>2. CASE /\ base.fin \/ Exists(ym[cur])
               /\ ym' = IF base.fin THEN ym ELSE [ym EXCEPT ![cur].fin = TRUE]
               /\ Goto(IF o.pid = Nil THEN "create" ELSE "get", o)
      <3>1. Exists(ym'[cur]) /\ ym'[cur].fin
        BY <1>1, <2>2 DEF TypeOK, Object, Lags, Exists
      <3>2. QED
        BY <2>2, <3>1 DEF Goto
    <2>3. QED
      BY <2>1, <2>2 DEF AddFinalizer
  <1>4. /\ \A n \in Machines : ym'[n].life = ym[n].life /\ ym'[n].pid = ym[n].pid
        /\ \A n \in Machines : ym[n].fin => ym'[n].fin
        /\ \A n \in Machines : ym'[n].fin => ym[n].fin \/ Exists(ym[n])
    <2>1. \/ ym' = ym
          \/ Exists(ym[cur]) /\ ym' = [ym EXCEPT ![cur] = [ym[cur] EXCEPT !.fin = TRUE]]
      BY DEF AddFinalizer
    <2>2. LET n == [ym[cur] EXCEPT !.fin = TRUE]
          IN  n.life = ym[cur].life /\ n.pid = ym[cur].pid /\ n.fin
      BY <1>1 DEF TypeOK, Object
    <2>3. QED
      BY <1>1, <2>1, <2>2 DEF TypeOK
  <1> HIDE DEF o
  <1>5. ObjectsInv'
    BY <1>1, <1>4 DEF MachineInv, ObjectsInv, Alive, Exists
  <1>6. ViewsInv'
    <2>1. /\ \A n \in Machines : Lags(cache[n], n)'
          /\ Lags(base, cur)'
      BY <1>1, <1>3, <1>4 DEF MachineInv, ViewsInv, Lags, Exists
    <2>2. QED
      BY <1>1, <1>2, <1>3, <1>4, <2>1, FaultsGrow DEF MachineInv, ViewsInv
  <1>7. WorkerInv'
    BY <1>1, <1>2, <1>3 DEF WorkerInv, InFlight
  <1>8. Accounted'
    BY <1>1, <1>4 DEF MachineInv, ObjectsInv, Accounted, InFlight, Alive, Exists, LiveStatus
  <1>9. LossInv'
    BY <1>1, FaultsGrow DEF MachineInv
  <1>10. QED
    BY <1>5, <1>6, <1>7, <1>8, <1>9 DEF MachineInv

(* An instance is created under a name that no existing instance has. *)
LEMMA CreateStep ==
    ASSUME TypeOK, MachineInv, ComputeCreate
    PROVE  MachineInv'
  <1>1. /\ UNCHANGED <<ym, cache>>
        /\ spent' = spent \/ \E k \in FaultKinds : Fault(k)
        /\ pc = "create" /\ cur \in Machines /\ local \in Object /\ base \in Object
        /\ local.pid = Nil /\ base.pid = Nil /\ base.life = "live" /\ local.life = "live"
        /\ local.fin /\ Exists(ym[cur]) /\ ym[cur].fin
    BY DEF TypeOK, ComputeCreate, k8s, FaultKinds, MachineInv, WorkerInv, ViewsInv
  <1> DEFINE failed == [local EXCEPT !.run = "False"]
             Made(i) == /\ ~NameTaken(cur)
                        /\ inst[i].st = "none"
                        /\ inst' = [inst EXCEPT ![i] = [m |-> cur, st |-> "PROVISIONING"]]
  <1>2. failed \in Object /\ failed.life = "live" /\ failed.fin /\ failed.pid = Nil
    BY <1>1 DEF Object
  <1>3. \A i \in Instances : LET o == [local EXCEPT !.pid = i]
                             IN  o \in Object /\ o.life = "live" /\ o.fin /\ o.pid = i
    BY <1>1 DEF Object
  <1>4. CASE /\ Return(failed, "error") /\ inst' = inst /\ lost' = lost
             /\ late' = late \/ Fault("cloud")
    <2>1. pc' = "conds" /\ cur' = cur /\ base' = base /\ local' = failed
      BY <1>4 DEF Return
    <2>2. ObjectsInv'
      BY <1>1, <1>4 DEF MachineInv, ObjectsInv, Alive
    <2>3. ViewsInv'
      <3>1. /\ \A n \in Machines : Lags(cache[n], n)'
            /\ Lags(base, cur)'
        BY <1>1, <1>4, <2>1 DEF MachineInv, ViewsInv, Lags
      <3>2. QED
        BY <1>1, <1>2, <2>1, <3>1, FaultsGrow DEF MachineInv, ViewsInv
    <2>4. WorkerInv'
      BY <1>1, <1>2, <2>1 DEF WorkerInv, InFlight
    <2>5. Accounted'
      BY <1>1, <1>4, <2>1 DEF MachineInv, Accounted, InFlight, Alive
    <2>6. LossInv'
      <3>1. Fault("cloud") => spent'["cloud"] > 0
        BY DEF TypeOK, Fault, FaultKinds
      <3>2. QED
        BY <1>1, <1>4, <3>1, FaultsGrow DEF MachineInv, LossInv, Spent
    <2>7. QED
      BY <2>2, <2>3, <2>4, <2>5, <2>6 DEF MachineInv
  <1>5. ASSUME NEW i \in Instances, Made(i), late' = late,
               \/ Goto("get", [local EXCEPT !.pid = i]) /\ lost' = lost
               \/ Return(failed, "error") /\ lost' = lost \cup {i} /\ Fault("cloud")
        PROVE  MachineInv'
    <2>1. /\ cur' = cur /\ base' = base /\ local'.life = "live" /\ local'.fin
          /\ \/ pc' = "get" /\ local'.pid = i /\ lost' = lost
             \/ pc' = "conds" /\ local'.pid = Nil /\ lost' = lost \cup {i} /\ Fault("cloud")
      BY <1>2, <1>3, <1>5 DEF Goto, Return
    <2>2. /\ \A j \in Instances : j # i => inst'[j] = inst[j] /\ Alive(j)' = Alive(j)
          /\ inst'[i].m = cur /\ inst'[i].st = "PROVISIONING" /\ ~Alive(i) /\ Alive(i)'
          /\ i # Nil
      BY <1>5, ConstantsAssumption DEF TypeOK, Alive, LiveStatus
    <2>3. \A j \in Instances : inst[j].m = cur => ~Alive(j)
      BY <1>5 DEF NameTaken
    <2>4. ObjectsInv'
      BY <1>1, <1>5, <2>2, <2>3 DEF TypeOK, Object, MachineInv, ObjectsInv
    <2>5. ViewsInv'
      <3>1. /\ \A n \in Machines : Lags(cache[n], n)'
            /\ Lags(base, cur)'
        BY <1>1, <1>5, <2>1, <2>2 DEF TypeOK, Object, MachineInv, ViewsInv, Lags
      <3>2. QED
        BY <1>1, <2>1, <3>1, FaultsGrow DEF MachineInv, ViewsInv
    <2>6. WorkerInv'
      <3>1. ym[cur].pid # Nil => ym[cur].pid # i /\ ~Alive(ym[cur].pid)
        BY <1>1, <1>5, <2>3 DEF TypeOK, Object, MachineInv, ObjectsInv
      <3>2. ym[cur].pid # Nil => inst'[ym[cur].pid] = inst[ym[cur].pid]
        BY <1>1, <2>2, <3>1 DEF TypeOK, Object
      <3>3. (ym[cur].pid # Nil => ~Alive(ym[cur].pid))'
        BY <1>1, <2>1, <3>1, <3>2 DEF Alive
      <3>4. QED
        BY <1>1, <2>1, <2>2, <3>3 DEF WorkerInv, InFlight, Exists
    <2>7. Accounted'
      BY <1>1, <2>1, <2>2 DEF MachineInv, Accounted, InFlight
    <2>8. LossInv'
      <3>1. Fault("cloud") => spent'["cloud"] > 0
        BY DEF TypeOK, Fault, FaultKinds
      <3>2. QED
        BY <1>1, <1>5, <2>1, <3>1, FaultsGrow DEF MachineInv, LossInv, Spent
    <2>9. QED
      BY <2>4, <2>5, <2>6, <2>7, <2>8 DEF MachineInv
  <1>6. QED
    BY <1>4, <1>5 DEF ComputeCreate, Free

(* A delayed request creates an instance that nobody knows of. *)
LEMMA LateStep ==
    ASSUME TypeOK, MachineInv, NEW m \in Machines, LateCreate(m)
    PROVE  MachineInv'
  <1>1. UNCHANGED <<ym, cache, pc, cur, base, local, spent>> /\ late # {}
    BY DEF LateCreate, k8s, worker
  <1>2. PICK i \in Instances :
            /\ inst[i].st = "none"
            /\ inst' = [inst EXCEPT ![i] = [m |-> m, st |-> "PROVISIONING"]]
            /\ lost' = lost \cup {i}
    BY DEF LateCreate, Free
  <1>3. /\ \A j \in Instances : j # i => inst'[j] = inst[j] /\ Alive(j)' = Alive(j)
        /\ inst'[i].m = m /\ inst'[i].st = "PROVISIONING" /\ ~Alive(i)
        /\ i # Nil
    BY <1>2, ConstantsAssumption DEF TypeOK, Alive, LiveStatus
  <1>4. \A j \in Instances : inst[j].m = m => ~Alive(j)
    BY DEF LateCreate, NameTaken
  <1>5. ObjectsInv'
    BY <1>1, <1>2, <1>3, <1>4 DEF TypeOK, Object, MachineInv, ObjectsInv
  <1>6. ViewsInv'
    <2>1. ASSUME NEW v \in Object, NEW n \in Machines, Lags(v, n)
          PROVE  Lags(v, n)'
      BY <1>1, <1>2, <1>3, <2>1 DEF Object, Lags
    <2>2. QED
      BY <1>1, <2>1 DEF TypeOK, MachineInv, ViewsInv, Spent
  <1>7. WorkerInv'
    <2>1. \A j \in Instances : inst[j].st # "none" => inst'[j] = inst[j] /\ Alive(j)' = Alive(j)
      BY <1>2, <1>3
    <2>2. \A n \in Machines : ym[n].pid # Nil =>
              ym[n].pid \in Instances /\ inst[ym[n].pid].st # "none"
      BY DEF TypeOK, Object, MachineInv, ObjectsInv
    <2>3. pc # "idle" /\ base.pid # Nil => base.pid \in Instances /\ inst[base.pid].st # "none"
      BY DEF TypeOK, Object, MachineInv, ViewsInv, Lags
    <2>4. pc # "idle" /\ local.pid # base.pid =>
              local.pid \in Instances \cup {Nil} /\ inst[local.pid].st # "none"
      BY DEF TypeOK, Object, MachineInv, WorkerInv
    <2>5. QED
      BY <1>1, <2>1, <2>2, <2>3, <2>4 DEF TypeOK, Object, MachineInv, WorkerInv, InFlight, Exists
  <1>8. Accounted'
    BY <1>1, <1>2, <1>3 DEF MachineInv, Accounted, InFlight, Exists
  <1>9. LossInv'
    BY <1>1 DEF MachineInv, LossInv, Spent
  <1>10. QED
    BY <1>5, <1>6, <1>7, <1>8, <1>9 DEF MachineInv

(* The deletion of the instance is requested. *)
LEMMA DeleteStep ==
    ASSUME TypeOK, MachineInv, ComputeDelete
    PROVE  MachineInv'
  <1>1. /\ UNCHANGED <<ym, cache, lost, late>>
        /\ spent' = spent \/ \E k \in FaultKinds : Fault(k)
        /\ pc = "vmDelete" /\ cur \in Machines /\ base \in Object
        /\ base.life = "deleting" /\ local.pid = base.pid /\ local.fin = base.fin
        /\ Lags(base, cur)
    BY DEF TypeOK, ComputeDelete, k8s, FaultKinds, MachineInv, WorkerInv, ViewsInv
  <1>2. pc' = "conds" /\ cur' = cur /\ base' = base /\ local' = local
    BY DEF ComputeDelete, Return
  <1>3. \A j \in Instances :
            /\ inst'[j].m = inst[j].m
            /\ inst'[j].st = "none" <=> inst[j].st = "none"
            /\ Alive(j)' => Alive(j)
    BY DEF TypeOK, ComputeDelete, Alive, LiveStatus
  <1>4. ObjectsInv'
    BY <1>1, <1>3 DEF TypeOK, Object, MachineInv, ObjectsInv
  <1>5. ViewsInv'
    <2>1. /\ \A n \in Machines : Lags(cache[n], n)'
          /\ Lags(base, cur)'
      BY <1>1, <1>2, <1>3 DEF TypeOK, Object, MachineInv, ViewsInv, Lags
    <2>2. QED
      BY <1>1, <1>2, <2>1, FaultsGrow DEF MachineInv, ViewsInv
  <1>6. WorkerInv'
    BY <1>1, <1>2 DEF WorkerInv, InFlight, Lags
  <1>7. Accounted'
    BY <1>1, <1>2, <1>3 DEF MachineInv, Accounted, InFlight
  <1>8. LossInv'
    BY <1>1, FaultsGrow DEF MachineInv
  <1>9. QED
    BY <1>4, <1>5, <1>6, <1>7, <1>8 DEF MachineInv

(* Conditions and status are patched. *)
LEMMA StatusPatchStep ==
    ASSUME TypeOK, MachineInv, PatchConds \/ PatchStatus
    PROVE  MachineInv'
  <1>1. /\ UNCHANGED <<cache, inst, lost, late>>
        /\ spent' = spent \/ \E k \in FaultKinds : Fault(k)
        /\ pc # "idle" /\ cur \in Machines
        /\ ym[cur] \in Object
    BY DEF TypeOK, PatchConds, PatchStatus, cloud, FaultKinds
  <1>2. \A n \in Machines :
            ym'[n].life = ym[n].life /\ ym'[n].fin = ym[n].fin /\ ym'[n].pid = ym[n].pid
    <2>1. \/ ym' = ym
          \/ ym' = [ym EXCEPT ![cur] = MergeConds(ym[cur])]
          \/ ym' = [ym EXCEPT ![cur] = MergeStatus(ym[cur])]
      BY DEF PatchConds, PatchStatus
    <2>2. QED
      BY <1>1, <2>1, MergeCondsFacts, MergeStatusFacts DEF TypeOK
  <1>3. \/ pc = "conds" /\ pc' = "spec" /\ UNCHANGED <<cur, base, local>>
        \/ pc = "status" /\ pc' = "idle" /\ base' = Absent /\ local' = Absent
    BY DEF PatchConds, PatchStatus, Rest
  <1>4. ObjectsInv'
    BY <1>1, <1>2 DEF MachineInv, ObjectsInv, Alive
  <1>5. ViewsInv'
    <2>1. /\ \A n \in Machines : Lags(cache[n], n)'
          /\ pc' # "idle" => Lags(base, cur)'
      BY <1>1, <1>2, <1>3 DEF MachineInv, ViewsInv, Lags, Exists
    <2>2. QED
      BY <1>1, <1>2, <1>3, <2>1, FaultsGrow DEF MachineInv, ViewsInv
  <1>6. WorkerInv'
    BY <1>1, <1>2, <1>3 DEF MachineInv, WorkerInv, InFlight, Alive, Exists
  <1>7. Accounted'
    BY <1>1, <1>2, <1>3 DEF MachineInv, ObjectsInv, Accounted, InFlight, Alive, Exists, LiveStatus
  <1>8. LossInv'
    BY <1>1, FaultsGrow DEF MachineInv
  <1>9. QED
    BY <1>4, <1>5, <1>6, <1>7, <1>8 DEF MachineInv

(* The manager restarts: an id it had not saved is lost. *)
LEMMA CrashStep ==
    ASSUME TypeOK, MachineInv, Crash
    PROVE  MachineInv'
  <1>1. /\ UNCHANGED <<ym, inst>>
        /\ cache' = ym
        /\ pc' = "idle" /\ base' = Absent /\ local' = Absent
        /\ lost' = lost \cup (FreshPid \ {ym[m].pid : m \in Machines})
        /\ spent'["crash"] > 0
    BY DEF TypeOK, Crash, Rest, cloud, Fault, FaultKinds
  <1>2. ObjectsInv'
    BY <1>1 DEF MachineInv, ObjectsInv, Alive
  <1>3. ViewsInv'
    <2>1. \A n \in Machines : Lags(ym[n], n)
      BY DEF TypeOK, Object, MachineInv, ObjectsInv, Lags, Exists
    <2>2. QED
      BY <1>1, <2>1 DEF ViewsInv, Lags
  <1>4. WorkerInv'
    BY <1>1 DEF WorkerInv, InFlight
  <1>5. Accounted'
    <2>1. ASSUME NEW i \in Instances, Alive(i), InFlight, cur = inst[i].m, local.pid = i
          PROVE  i \in lost'
      <3>1. i \in FreshPid
        BY <2>1, ConstantsAssumption DEF InFlight, FreshPid
      <3>2. ASSUME NEW n \in Machines, ym[n].pid = i
            PROVE  FALSE
        <4>1. n = cur
          BY <2>1, <3>2, ConstantsAssumption DEF MachineInv, ObjectsInv
        <4>2. QED
          BY <2>1, <3>2, <4>1, ConstantsAssumption DEF MachineInv, WorkerInv
      <3>3. QED
        BY <1>1, <3>1, <3>2
    <2>2. QED
      BY <1>1, <2>1 DEF MachineInv, Accounted, Alive
  <1>6. LossInv'
    BY <1>1 DEF LossInv, Spent
  <1>7. QED
    BY <1>2, <1>3, <1>4, <1>5, <1>6 DEF MachineInv

(* Metadata and spec are patched: the id is saved, or the finalizer removed. *)
LEMMA SpecPatchStep ==
    ASSUME TypeOK, MachineInv, PatchSpec
    PROVE  MachineInv'
  <1> DEFINE n == Finalized(MergeSpec(ym[cur]))
  <1>1. /\ UNCHANGED <<cache, inst, late, cur, base, local>>
        /\ spent' = spent \/ \E k \in FaultKinds : Fault(k)
        /\ pc = "spec" /\ pc' = "status" /\ cur \in Machines
        /\ ym[cur] \in Object /\ base \in Object /\ local \in Object
        /\ Lags(base, cur) /\ local.life = base.life
    BY DEF TypeOK, PatchSpec, cloud, FaultKinds, MachineInv, ViewsInv
  <1>2. /\ n.fin = IF local.fin = base.fin THEN ym[cur].fin ELSE local.fin
        /\ n.pid = IF local.pid = base.pid THEN ym[cur].pid ELSE local.pid
        /\ n.life = IF ym[cur].life = "deleting" /\ ~n.fin THEN "gone" ELSE ym[cur].life
        /\ n \in Object
    BY <1>1, MergeSpecFacts
  <1>3. /\ local.pid # base.pid =>
              /\ base.pid = Nil /\ local.fin /\ ym[cur].fin /\ Exists(ym[cur])
              /\ inst[local.pid].m = cur /\ inst[local.pid].st # "none"
              /\ ym[cur].pid # Nil => ~Alive(ym[cur].pid)
        /\ ~local.fin => /\ base.life = "deleting" /\ local.pid = base.pid
                         /\ base.pid # Nil => ~Alive(base.pid)
    BY <1>1 DEF MachineInv, WorkerInv, InFlight
  <1>4. FreshPid = IF local.pid # base.pid THEN {local.pid} ELSE {}
    BY <1>1, <1>3 DEF FreshPid, MachineInv, WorkerInv, InFlight
  <1>5. CASE ym' = ym /\ lost' = lost \cup FreshPid
             /\ (Exists(ym[cur]) => Fault("patch"))
    <2>1. ObjectsInv'
      BY <1>1, <1>5 DEF MachineInv, ObjectsInv, Alive
    <2>2. ViewsInv'
      <3>1. /\ \A k \in Machines : Lags(cache[k], k)'
            /\ Lags(base, cur)'
        BY <1>1, <1>5 DEF MachineInv, ViewsInv, Lags
      <3>2. QED
        BY <1>1, <3>1 DEF MachineInv, ViewsInv
    <2>3. WorkerInv'
      BY <1>1 DEF MachineInv, WorkerInv, InFlight
    <2>4. Accounted'
      BY <1>1, <1>4, <1>5 DEF MachineInv, Accounted, InFlight, Alive
    <2>5. LossInv'
      <3>1. Fault("patch") => spent'["patch"] > 0
        BY DEF TypeOK, Fault, FaultKinds
      <3>2. CASE local.pid # base.pid
        BY <1>3, <1>5, <3>1, <3>2 DEF LossInv, Spent
      <3>3. CASE local.pid = base.pid
        BY <1>1, <1>4, <1>5, <3>3, FaultsGrow DEF MachineInv
      <3>4. QED
        BY <3>2, <3>3
    <2>6. QED
      BY <2>1, <2>2, <2>3, <2>4, <2>5 DEF MachineInv
  <1>6. CASE /\ (local.fin # base.fin \/ local.pid # base.pid) => Exists(ym[cur])
             /\ ym' = [ym EXCEPT ![cur] = n]
             /\ lost' = lost \cup Overlooked
             /\ spent' = spent
    <2> HIDE DEF n
    <2>1. ym'[cur] = n /\ \A k \in Machines : k # cur => ym'[k] = ym[k]
      BY <1>1, <1>6 DEF TypeOK
    <2>2. \/ /\ n.life = ym[cur].life
             /\ ym[cur].fin => n.fin
             /\ n.fin => ym[cur].fin \/ Exists(ym[cur])
          \/ /\ ym[cur].life = "deleting" /\ n.life = "gone" /\ ~n.fin
             /\ base.fin /\ ~local.fin /\ base.life = "deleting" /\ local.pid = base.pid
      BY <1>1, <1>2, <1>3, <1>6 DEF MachineInv, ObjectsInv, Lags, Exists, Object
    <2>3. ObjectsInv'
      <3>1. n.pid # Nil => inst[n.pid].m = cur /\ inst[n.pid].st # "none"
        BY <1>1, <1>2, <1>3 DEF MachineInv, ObjectsInv
      <3>2. /\ n.life = "none" => n.pid = Nil /\ ~n.fin
            /\ n.life = "deleting" => n.fin
            /\ n.life = "live" /\ n.pid # Nil => n.fin
            /\ n.life = "gone" => ~n.fin
        BY <1>1, <1>2, <1>3, <1>6, <2>2 DEF MachineInv, ObjectsInv, Exists
      <3>3. QED
        BY <1>1, <2>1, <3>1, <3>2 DEF MachineInv, ObjectsInv, Alive
    <2>4. ViewsInv'
      <3>1. base.life = "deleting" => cache[cur].life \in {"deleting", "gone"}
        BY <1>1 DEF MachineInv, ViewsInv
      <3>2. \A k \in Machines : Lags(cache[k], k)'
        BY <1>1, <2>1, <2>2, <3>1 DEF MachineInv, ViewsInv, Lags, Exists
      <3>3. Lags(base, cur)'
        BY <1>1, <2>1, <2>2 DEF Lags, Exists
      <3>4. QED
        BY <1>1, <3>1, <3>2, <3>3 DEF MachineInv, ViewsInv
    <2>5. WorkerInv'
      BY <1>1, <1>6 DEF MachineInv, WorkerInv, InFlight
    <2>6. Accounted'
      <3> SUFFICES ASSUME NEW i \in Instances, Alive(i), i \notin lost'
                   PROVE  ym'[inst[i].m].pid = i /\ Exists(ym'[inst[i].m])
        BY <1>1 DEF Accounted, Alive
      <3>1. \/ ym[inst[i].m].pid = i /\ Exists(ym[inst[i].m])
            \/ local.pid # base.pid /\ cur = inst[i].m /\ local.pid = i
        BY <1>6 DEF MachineInv, Accounted, InFlight
      <3>2. inst[i].m \in Machines /\ i # Nil
        BY ConstantsAssumption DEF MachineInv, ObjectsInv, Alive, LiveStatus
      <3>3. CASE inst[i].m # cur
        BY <2>1, <3>1, <3>2, <3>3
      <3>4. CASE inst[i].m = cur /\ local.pid # base.pid
        BY <1>2, <1>3, <2>1, <2>2, <3>1, <3>2, <3>4 DEF Exists
      <3>5. CASE inst[i].m = cur /\ local.pid = base.pid
        <4>1. ym[cur].pid = i /\ Exists(ym[cur]) /\ n.pid = i
          BY <1>2, <3>1, <3>5
        <4>2. base.fin /\ ~local.fin => i = base.pid
          BY <1>6, <3>2, <4>1 DEF Overlooked
        <4>3. ~(base.fin /\ ~local.fin)
          BY <1>3, <3>2, <4>2
        <4>4. QED
          BY <2>1, <2>2, <3>5, <4>1, <4>3 DEF Exists
      <3>6. QED
        BY <3>3, <3>4, <3>5
    <2>7. LossInv'
      <3>1. ~Spent({"stale"}) => Overlooked = {}
        BY <1>1 DEF MachineInv, ViewsInv, Overlooked
      <3>2. Spent({"stale"}) => Spent({"stale"})' /\ Spent({"crash", "cloud", "patch", "stale"})'
        BY <1>6 DEF Spent
      <3>3. QED
        BY <1>1, <1>6, <3>1, <3>2 DEF MachineInv, LossInv, Spent
    <2>8. QED
      BY <2>3, <2>4, <2>5, <2>6, <2>7 DEF MachineInv
  <1>7. QED
    BY <1>5, <1>6 DEF PatchSpec

(* MachineInv and the types are preserved by every step. *)
LEMMA InvStep ==
    ASSUME TypeOK, MachineInv, [Next]_vars
    PROVE  TypeOK' /\ MachineInv'
  <1>1. TypeOK'
    BY TypeStep DEF MachineInv
  <1> SUFFICES MachineInv'
    BY <1>1
  <1>2. CASE UNCHANGED vars
    BY <1>2, NeutralStep DEF vars, k8s, cloud, worker, memory
  <1>3. CASE Environment
    <2>1. ASSUME NEW m \in Machines, CreateMachine(m) \/ DeleteMachine(m)
          PROVE  MachineInv'
      BY <2>1, ObjectStep
    <2>2. CASE \/ \E m \in Machines : SetOwnerRef(m) \/ SetBootstrapData(m)
               \/ Pause \/ Unpause \/ ClusterEvent
               \/ TargetGroupUp \/ TargetGroupLost
      <3>1. /\ UNCHANGED <<ym, cache, inst, pc, cur, base, local, lost, late>>
            /\ spent' = spent \/ \E k \in FaultKinds : Fault(k)
        BY <2>2 DEF SetOwnerRef, SetBootstrapData, Pause, Unpause, ClusterEvent,
                    TargetGroupUp, TargetGroupLost, k8s, cloud, worker, memory, FaultKinds
      <3>2. QED
        BY <3>1, NeutralStep
    <2>3. ASSUME NEW i \in Instances, VMStarted(i) \/ VMDeleted(i) \/ VMDisturbed(i)
          PROVE  MachineInv'
      <3>1. /\ UNCHANGED <<ym, cache, pc, cur, base, local, lost, late>>
            /\ spent' = spent \/ \E k \in FaultKinds : Fault(k)
            /\ inst[i].st \in LiveStatus
            /\ \E st \in LiveStatus \cup {"gone"} : inst' = [inst EXCEPT ![i].st = st]
        BY <2>3 DEF VMStarted, VMDeleted, VMDisturbed, SetStatus, k8s, worker, FaultKinds, LiveStatus
      <3>2. QED
        BY <3>1, StatusStep
    <2>4. QED
      BY <1>3, <2>1, <2>2, <2>3, LateStep DEF Environment
  <1>4. ASSUME NEW m \in Machines, CacheSync(m) \/ Skip(m) \/ Begin(m)
        PROVE  MachineInv'
    <2>1. CASE Skip(m)
      <3>1. /\ UNCHANGED <<ym, cache, inst, pc, cur, base, local, lost, late>>
            /\ spent' = spent \/ \E k \in FaultKinds : Fault(k)
        BY <2>1 DEF Skip, Take, k8s, cloud, worker, FaultKinds
      <3>2. QED
        BY <3>1, NeutralStep
    <2>2. QED
      BY <1>4, <2>1, CacheStep, BeginStep
  <1>5. CASE Reconcile
    BY <1>5, FinalizerStep, CreateStep, CallStep, DeleteStep, StatusPatchStep, SpecPatchStep
       DEF Reconcile
  <1>6. CASE Crash
    BY <1>6, CrashStep
  <1>7. QED
    BY <1>1, <1>2, <1>3, <1>4, <1>5, <1>6 DEF Next

(* Both hold in the initial state. *)
LEMMA InvInit ==
    ASSUME Init
    PROVE  TypeOK /\ MachineInv
  <1>1. TypeOK
    BY DEF Init, TypeOK, Absent, Object, Steps, FaultKinds
  <1>2. MachineInv
    BY DEF Init, MachineInv, ObjectsInv, ViewsInv, WorkerInv, Accounted, LossInv,
           Lags, InFlight, Alive, Exists, Absent, LiveStatus
  <1>3. QED
    BY <1>1, <1>2

(* What the invariant is for. *)
LEMMA InvImpliesNoOrphan ==
    ASSUME TypeOK, MachineInv
    PROVE  NoOrphan
  <1>1. ASSUME NEW i \in Instances, Alive(i), ~Exists(ym[inst[i].m])
        PROVE  i \in lost
    BY <1>1 DEF MachineInv, Accounted, WorkerInv
  <1>2. QED
    BY <1>1 DEF NoOrphan, MachineInv, LossInv

-----------------------------------------------------------------------------
(***************************************************************************)
(* The theorems.                                                           *)
(***************************************************************************)

(***************************************************************************)
(* Every behaviour of the controller keeps the inductive invariant.        *)
(***************************************************************************)
THEOREM Invariance == Spec => [](TypeOK /\ MachineInv)
  <1>1. Init => TypeOK /\ MachineInv
    BY InvInit
  <1>2. TypeOK /\ MachineInv /\ [Next]_vars => (TypeOK /\ MachineInv)'
    BY InvStep
  <1>3. QED
    BY <1>1, <1>2, PTL DEF Spec

(***************************************************************************)
(* Type correctness.                                                       *)
(***************************************************************************)
THEOREM TypeCorrect == Spec => []TypeOK
  BY Invariance, PTL

(***************************************************************************)
(* The finalizer keeps its promise: no instance outlives its YandexMachine *)
(* unless its id was forgotten after a crash, a failed call or patch, or a *)
(* stale read.                                                             *)
(***************************************************************************)
THEOREM FinalizerPromise == Spec => []NoOrphan
  <1>1. TypeOK /\ MachineInv => NoOrphan
    BY InvImpliesNoOrphan
  <1>2. QED
    BY <1>1, Invariance, PTL
=============================================================================
