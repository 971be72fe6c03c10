--------------------------- MODULE YandexMachine ---------------------------
(***************************************************************************)
(* The YandexMachine controller: one worker takes keys from its queue,     *)
(* reads the YandexMachine from the informer cache, drives a compute       *)
(* instance and, for a control plane machine, a target of the API load     *)
(* balancer, and persists what it learned when the machine scope closes.   *)
(*                                                                         *)
(* Every call that leaves the process is a step of its own, so users, the  *)
(* cloud, the informer and a crash of the manager interleave with it.      *)
(***************************************************************************)
EXTENDS Naturals, FiniteSets

CONSTANTS
    Machines,       \* names of YandexMachine objects
    ControlPlane,   \* those whose owner Machine is a control plane machine
    Instances,      \* ids the cloud may give to compute instances
    Addrs,          \* IPv4 addresses of the subnet
    Addr,           \* the address of each instance; not injective = reuse
    Nil,            \* the empty providerID, address list or status
    MaxFaults,      \* how often each kind of fault may happen
    MaxKinds        \* how many kinds of fault may happen in one behaviour

FaultKinds == {"crash", "cloud", "patch", "stale", "vm", "tg", "pause", "cluster"}

ASSUME ConstantsAssumption ==
    /\ ControlPlane \subseteq Machines
    /\ Addr \in [Instances -> Addrs]
    /\ Nil \notin Machines \cup Instances \cup Addrs
    /\ MaxFaults \in [FaultKinds -> Nat]
    /\ MaxKinds \in Nat

(***************************************************************************)
(* Statuses of an instance, one per way the code treats them.              *)
(* "PROVISIONING" stands for PROVISIONING and STARTING, "RESTARTING" for   *)
(* the statuses the cloud leaves by itself (RESTARTING, UPDATING,          *)
(* STOPPING), "STOPPED" for those it does not (STOPPED, ERROR, CRASHED).   *)
(***************************************************************************)
LiveStatus == {"PROVISIONING", "RUNNING", "RESTARTING", "STOPPED", "DELETING"}
InstanceStatus == LiveStatus \cup {"DELETED"}

(***************************************************************************)
(* A YandexMachine object.  "live" and "deleting" objects exist, the       *)
(* latter with a deletionTimestamp; "gone" ones keep their last fields.    *)
(***************************************************************************)
Object == [life   : {"none", "live", "deleting", "gone"},
           fin    : BOOLEAN,                       \* MachineFinalizer
           pid    : Instances \cup {Nil},          \* spec.providerID
           addr   : Addrs \cup {Nil},              \* status.addresses
           st     : InstanceStatus \cup {Nil},     \* status.instanceState
           ready  : BOOLEAN,                       \* status.ready
           failed : BOOLEAN,                       \* status.failureReason
           run    : {Nil, "True", "False", "Unknown"}] \* RUNNING condition

Absent == [life |-> "none", fin |-> FALSE, pid |-> Nil, addr |-> Nil,
           st |-> Nil, ready |-> FALSE, failed |-> FALSE, run |-> Nil]

VARIABLES
    ym,        \* the YandexMachine objects in the API server
    cache,     \* the controller's informer cache of them
    owner,     \* owner Machine: "none", "owned" or "boot"(strap data ready)
    paused,    \* Cluster.spec.paused
    infra,     \* the YandexCluster object as the informer shows it: "absent",
               \* "unowned" (no owner reference yet), "up" or "gone"
    inst,      \* the compute instances
    late,      \* machines for which a create request is still on its way
    tg,        \* does the load balancer's target group exist
    targets,   \* addresses registered in the target group
    queue,     \* keys waiting in the work queue, RequeueAfter ones included
    pc,        \* the worker's next step
    cur,       \* the machine it reconciles
    booted,    \* the owner Machine it read has bootstrap data
    base,      \* the patch helper's snapshot of the object
    local,     \* machineScope.YandexMachine
    res,       \* "none", "after" (RequeueAfter) or "error"
    lost,      \* history: instances whose id the controller can no longer find
    lostAddr,  \* history: registered addresses that are not in any status
    spent      \* history: faults so far

k8s    == <<ym, cache, owner, paused, infra>>
cloud  == <<inst, late, tg, targets>>
worker == <<pc, cur, booted, base, local, res>>
memory == <<lost, lostAddr, spent>>
vars   == <<k8s, cloud, queue, worker, memory>>

Steps == {"idle", "finalizer", "create", "get", "addTarget", "delGet",
          "dereg", "deregGone", "vmDelete", "conds", "spec", "status"}

(* The type of every variable. *)
TypeOK ==
    /\ ym \in [Machines -> Object]
    /\ cache \in [Machines -> Object]
    /\ owner \in [Machines -> {"none", "owned", "boot"}]
    /\ paused \in BOOLEAN
    /\ infra \in {"absent", "unowned", "up", "gone"}
    /\ inst \in [Instances -> [m  : Machines \cup {Nil},
                               st : LiveStatus \cup {"none", "gone"}]]
    /\ late \subseteq Machines
    /\ tg \in BOOLEAN
    /\ targets \subseteq Addrs
    /\ queue \subseteq Machines
    /\ pc \in Steps
    /\ cur \in Machines \cup {Nil}
    /\ pc # "idle" => cur \in Machines
    /\ booted \in BOOLEAN
    /\ base \in Object
    /\ local \in Object
    /\ res \in {"none", "after", "error"}
    /\ lost \subseteq Instances
    /\ lostAddr \subseteq Addrs
    /\ spent \in [FaultKinds -> Nat]

Init ==
    /\ ym = [m \in Machines |-> Absent]
    /\ cache = [m \in Machines |-> Absent]
    /\ owner = [m \in Machines |-> "none"]
    /\ paused = FALSE
    /\ infra = "absent"
    /\ inst = [i \in Instances |-> [m |-> Nil, st |-> "none"]]
    /\ late = {}
    /\ tg = FALSE
    /\ targets = {}
    /\ queue = {}
    /\ pc = "idle"
    /\ cur = Nil
    /\ booted = FALSE
    /\ base = Absent
    /\ local = Absent
    /\ res = "none"
    /\ lost = {}
    /\ lostAddr = {}
    /\ spent = [k \in FaultKinds |-> 0]

Exists(o) == o.life \in {"live", "deleting"}
Alive(i)  == inst[i].st \in LiveStatus
Existing  == {m \in Machines : Exists(ym[m])}

Happened == {k \in FaultKinds : spent[k] > 0}

(* One more fault of kind k, within the bounds. *)
Fault(k) ==
    /\ spent[k] < MaxFaults[k]
    /\ Cardinality(Happened \cup {k}) <= MaxKinds
    /\ spent' = [spent EXCEPT ![k] = @ + 1]

-----------------------------------------------------------------------------
(***************************************************************************)
(* Users and the Cluster API controllers.                                  *)
(***************************************************************************)

CreateMachine(m) ==
    /\ ym[m].life = "none"
    /\ ym' = [ym EXCEPT ![m].life = "live"]
    /\ UNCHANGED <<cache, owner, paused, infra, cloud, queue, worker, memory>>

(* The API server keeps a deleted object only while it has a finalizer. *)
DeleteMachine(m) ==
    /\ ym[m].life = "live"
    /\ ym' = [ym EXCEPT ![m].life = IF ym[m].fin THEN "deleting" ELSE "gone"]
    /\ UNCHANGED <<cache, owner, paused, infra, cloud, queue, worker, memory>>

(* The owner reference appears, and later the bootstrap secret: an event of  *)
(* the YandexMachine, then one of its Machine, enqueue the key.             *)
SetOwnerRef(m) ==
    /\ ym[m].life = "live"
    /\ owner[m] = "none"
    /\ owner' = [owner EXCEPT ![m] = "owned"]
    /\ queue' = queue \cup {m}
    /\ UNCHANGED <<ym, cache, paused, infra, cloud, worker, memory>>

SetBootstrapData(m) ==
    /\ owner[m] = "owned"
    /\ owner' = [owner EXCEPT ![m] = "boot"]
    /\ queue' = queue \cup {m}
    /\ UNCHANGED <<ym, cache, paused, infra, cloud, worker, memory>>

Pause ==
    /\ ~paused
    /\ paused' = TRUE
    /\ Fault("pause")
    /\ UNCHANGED <<ym, cache, owner, infra, cloud, queue, worker, lost, lostAddr>>

(* ClusterUnpausedAndInfrastructureReady lets the unpause event through. *)
Unpause ==
    /\ paused
    /\ paused' = FALSE
    /\ queue' = queue \cup Existing
    /\ UNCHANGED <<ym, cache, owner, infra, cloud, worker, memory>>

(* What the YandexCluster may be at its next event.  Its finalizer is the   *)
(* last thing to go after the target group.                                 *)
Later ==
    CASE infra = "absent"  -> {"unowned", "up", "gone"}
      [] infra = "unowned" -> {"up", "gone"}
      [] infra = "up"      -> {"up", "gone"}
      [] infra = "gone"    -> {}

(* YandexClusterToYandexMachines finds the machines through the Cluster that *)
(* owns the YandexCluster, and finds none without it.                       *)
OwnerKnown == infra = "up" \/ infra' = "up"

ClusterEvent ==
    /\ infra' \in Later
    /\ infra' = "gone" => ~tg /\ MaxFaults["cluster"] > 0
    /\ queue' = IF OwnerKnown THEN queue \cup Existing ELSE queue
    /\ UNCHANGED <<ym, cache, owner, paused, cloud, worker, memory>>

(* The informer catches up with the API server; the event enqueues the key. *)
CacheSync(m) ==
    /\ cache[m] # ym[m]
    /\ cache' = [cache EXCEPT ![m] = ym[m]]
    /\ queue' = queue \cup {m}
    /\ UNCHANGED <<ym, owner, paused, infra, cloud, worker, memory>>

-----------------------------------------------------------------------------
(***************************************************************************)
(* The cloud: instances change status by themselves or by hand, the        *)
(* cluster controller creates the target group, and somebody may delete it.*)
(***************************************************************************)

SetStatus(i, s) ==
    /\ inst' = [inst EXCEPT ![i].st = s]
    /\ UNCHANGED <<k8s, late, tg, targets, queue, worker, lost, lostAddr>>

VMStarted(i) ==
    /\ inst[i].st \in {"PROVISIONING", "RESTARTING"}
    /\ SetStatus(i, "RUNNING")
    /\ UNCHANGED spent

VMDeleted(i) ==
    /\ inst[i].st = "DELETING"
    /\ SetStatus(i, "gone")
    /\ UNCHANGED spent

VMDisturbed(i) ==
    /\ inst[i].st \in {"PROVISIONING", "RUNNING", "STOPPED"}
    /\ \E s \in {"RESTARTING", "STOPPED", "gone"} \ {inst[i].st} : SetStatus(i, s)
    /\ Fault("vm")

TargetGroupUp ==
    /\ infra = "up"
    /\ ~tg
    /\ tg' = TRUE
    /\ UNCHANGED <<k8s, inst, late, targets, queue, worker, memory>>

TargetGroupLost ==
    /\ tg
    /\ tg' = FALSE
    /\ targets' = {}
    /\ Fault("tg")
    /\ UNCHANGED <<k8s, inst, late, queue, worker, lost, lostAddr>>

-----------------------------------------------------------------------------
(***************************************************************************)
(* The worker.                                                             *)
(***************************************************************************)

Goto(step, obj) ==
    /\ pc' = step
    /\ local' = obj
    /\ UNCHANGED <<cur, booted, base, res>>

(* Return from reconcile or reconcileDelete: the deferred Close comes next. *)
Return(obj, result) ==
    /\ pc' = "conds"
    /\ local' = obj
    /\ res' = result
    /\ UNCHANGED <<cur, booted, base>>

(* Reconcile's early returns: nothing is done and nothing is requeued. *)
GatedWithoutCluster(m) == \* mutant: the YandexCluster need not be there
    \/ ~Exists(cache[m])
    \/ owner[m] = "none"
    \/ paused

Gated(m) ==
    \/ ~Exists(cache[m])
    \/ owner[m] = "none"
    \/ paused
    \/ infra \in {"absent", "gone"}

(* The key is taken; a read of a cache that lags counts as a fault. *)
Take(m) ==
    /\ pc = "idle"
    /\ m \in queue
    /\ queue' = queue \ {m}
    /\ \/ cache[m] = ym[m] /\ UNCHANGED spent
       \/ cache[m] # ym[m] /\ Fault("stale")

Skip(m) ==
    /\ Take(m)
    /\ Gated(m)
    /\ UNCHANGED <<k8s, cloud, worker, lost, lostAddr>>

(* compute.Delete returns at once when the object has no providerID. *)
Begin(m) ==
    /\ Take(m)
    /\ ~Gated(m)
    /\ LET o == cache[m]
           never == o.life = "deleting" /\ o.pid = Nil
       IN /\ cur' = m
          /\ booted' = (owner[m] = "boot")
          /\ base' = o
          /\ local' = IF never THEN [o EXCEPT !.fin = FALSE] ELSE o
          /\ pc' = IF never THEN "conds"
                   ELSE IF o.life = "deleting" THEN "delGet" ELSE "finalizer"
          /\ res' = "none"
    /\ UNCHANGED <<k8s, cloud, lost, lostAddr>>

(* AddFinalizer and PatchObject, which sends nothing when nothing changed. *)
AddFinalizer ==
    /\ pc = "finalizer"
    /\ LET o == [local EXCEPT !.fin = TRUE]
       IN \/ /\ base.fin \/ Exists(ym[cur])
             /\ ym' = IF base.fin THEN ym ELSE [ym EXCEPT ![cur].fin = TRUE]
             /\ IF ~booted THEN Return(o, "none")
                ELSE Goto(IF o.pid = Nil THEN "create" ELSE "get", o)
             /\ UNCHANGED spent
          \/ /\ ~base.fin
             /\ \/ ~Exists(ym[cur]) /\ UNCHANGED spent
                \/ Fault("patch")
             /\ Return(o, "error")
             /\ UNCHANGED ym
    /\ UNCHANGED <<cache, owner, paused, infra, cloud, queue, lost, lostAddr>>

(* Instance names are unique in a folder, and the request carries the name *)
(* of the YandexMachine.                                                   *)
NameTaken(m) == \E i \in Instances : inst[i].m = m /\ Alive(i)

(* Ids are never reused, addresses only when their instance is gone. *)
Free(i) ==
    /\ inst[i].st = "none"
    /\ \A j \in Instances : Alive(j) => Addr[j] # Addr[i]

(* createComputeInstance.  The operation is not awaited.  A failed call may *)
(* have created the instance all the same, or may create it later; its id  *)
(* is then unknown.                                                        *)
ComputeCreate ==
    /\ pc = "create"
    /\ \/ /\ ~NameTaken(cur)
          /\ \E i \in Instances :
                /\ Free(i)
                /\ inst' = [inst EXCEPT ![i] = [m |-> cur, st |-> "PROVISIONING"]]
                /\ \/ /\ Goto("get", [local EXCEPT !.pid = i])
                      /\ UNCHANGED <<lost, spent>>
                   \/ /\ Return([local EXCEPT !.run = "False"], "error")
                      /\ lost' = lost \cup {i}
                      /\ Fault("cloud")
          /\ UNCHANGED late
       \/ /\ \/ /\ NameTaken(cur) \/ \A i \in Instances : ~Free(i)
                /\ UNCHANGED <<late, spent>>
             \/ late' \in {late, late \cup {cur}} /\ Fault("cloud")
          /\ Return([local EXCEPT !.run = "False"], "error")
          /\ UNCHANGED <<inst, lost>>
    /\ UNCHANGED <<k8s, tg, targets, queue, lostAddr>>

(* The delayed request arrives, and nobody waits for its answer. *)
LateCreate(m) ==
    /\ m \in late
    /\ late' = late \ {m}
    /\ ~NameTaken(m)
    /\ \E i \in Instances :
          /\ Free(i)
          /\ inst' = [inst EXCEPT ![i] = [m |-> m, st |-> "PROVISIONING"]]
          /\ lost' = lost \cup {i}
    /\ UNCHANGED <<k8s, tg, targets, queue, worker, lostAddr, spent>>

(* getInstanceAddress and SetAddresses. *)
ForgetAddresses(obj, i) == obj \* mutant: the address is not recorded
SetAddresses(obj, i) == [obj EXCEPT !.addr = Addr[i]]

(* The switch on the instance status at the end of reconcile. *)
ConcludeAtOnce(obj, s) == \* mutant: no case for an instance that starts
    LET o == [obj EXCEPT !.st = s]
    IN IF s = "RUNNING" THEN Return([o EXCEPT !.ready = TRUE, !.run = "True"], "none")
                        ELSE Return([o EXCEPT !.failed = TRUE], "after")

Conclude(obj, s) ==
    LET o == [obj EXCEPT !.st = s]
    IN CASE s = "PROVISIONING" -> Return(o, "after")
         [] s = "RUNNING"      -> Return([o EXCEPT !.ready = TRUE, !.run = "True"], "none")
         [] OTHER              -> Return([o EXCEPT !.failed = TRUE], "after")

(* The second half of compute.Reconcile.  An instance without one usable    *)
(* IPv4 interface is an error too.                                          *)
ComputeGet ==
    /\ pc = "get"
    /\ LET s == inst[local.pid].st
           o == SetAddresses(local, local.pid)
       IN \/ /\ s = "RUNNING"
             /\ IF cur \in ControlPlane THEN Goto("addTarget", o) ELSE Conclude(o, s)
             /\ UNCHANGED spent
          \/ /\ s \in LiveStatus \ {"RUNNING"}
             /\ Conclude(local, s)
             /\ UNCHANGED spent
          \/ /\ s = "gone"
             /\ Conclude([local EXCEPT !.run = "False"], "DELETED")
             /\ UNCHANGED spent
          \/ /\ \/ Return([local EXCEPT !.run = "Unknown"], "error")
                \/ s = "RUNNING" /\ Return([local EXCEPT !.run = "False"], "error")
             /\ Fault("cloud")
    /\ UNCHANGED <<k8s, cloud, queue, lost, lostAddr>>

(* addTargetALB registers an address that is not registered yet. *)
AddNothing(a) == targets \* mutant: isAddressRegisteredALB inverted
WithTarget(a) == targets \cup {a}

(* registerControlPlane: an error when there is no group. *)
AddTarget ==
    /\ pc = "addTarget"
    /\ \/ /\ tg
          /\ targets' = WithTarget(local.addr)
          /\ \/ Conclude(local, "RUNNING") /\ UNCHANGED spent
             \/ Return(local, "error") /\ Fault("cloud")
       \/ /\ \/ ~tg /\ UNCHANGED spent
             \/ Fault("cloud")
          /\ Return(local, "error")
          /\ UNCHANGED targets
    /\ UNCHANGED <<k8s, inst, late, tg, queue, lost, lostAddr>>

(* ycerrors.IsNotFound is what makes an instance count as deleted. *)
GoneOrDeleting(i) == inst[i].st \in {"gone", "DELETING"} \* mutant: does not wait for the end
IsNotFound(i) == inst[i].st = "gone"

(* compute.Delete: look the instance up. *)
DeleteGet ==
    /\ pc = "delGet"
    /\ LET s == inst[local.pid].st
           o == [local EXCEPT !.st = s]
       IN \/ /\ IsNotFound(local.pid)
             /\ IF cur \in ControlPlane THEN Goto("deregGone", local)
                ELSE Return([local EXCEPT !.fin = FALSE], "none")
             /\ UNCHANGED spent
          \/ /\ s = "DELETING"
             /\ Return(o, "after")
             /\ UNCHANGED spent
          \/ /\ s \in LiveStatus \ {"DELETING"}
             /\ Goto(IF cur \in ControlPlane THEN "dereg" ELSE "vmDelete", o)
             /\ UNCHANGED spent
          \/ /\ Return(local, "error")
             /\ Fault("cloud")
    /\ UNCHANGED <<k8s, cloud, queue, lost, lostAddr>>

(* removeTargetALB removes one address; there is nothing to do when it is   *)
(* not registered or there is no target group.                             *)
RemoveNothing(a) == targets \* mutant: isAddressRegisteredALB not negated
RemoveAll(a) == {}          \* mutant: the request names no target
WithoutTarget(a) == targets \ {a}

(* deregisterControlPlane, before the instance is deleted and again when it *)
(* is gone.  A status without an address is left alone.                    *)
RemoveTarget ==
    /\ pc \in {"dereg", "deregGone"}
    /\ \/ /\ targets' = IF local.addr = Nil THEN targets ELSE WithoutTarget(local.addr)
          /\ IF pc = "dereg" THEN Goto("vmDelete", local)
             ELSE Return([local EXCEPT !.fin = FALSE], "none")
          /\ UNCHANGED spent
       \/ /\ local.addr # Nil
          /\ targets' \in {targets, WithoutTarget(local.addr)}
          /\ Return(local, "error")
          /\ Fault("cloud")
    /\ UNCHANGED <<k8s, inst, late, tg, queue, lost, lostAddr>>

(* Accepted, the deletion goes on in the background.  It fails when the     *)
(* instance has disappeared meanwhile.                                      *)
ComputeDelete ==
    /\ pc = "vmDelete"
    /\ \/ /\ Alive(local.pid)
          /\ inst' = [inst EXCEPT ![local.pid].st = "DELETING"]
          /\ \/ Return(local, "after") /\ UNCHANGED spent
             \/ Return(local, "error") /\ Fault("cloud")
       \/ /\ \/ ~Alive(local.pid) /\ UNCHANGED spent
             \/ Fault("cloud")
          /\ Return(local, "error")
          /\ UNCHANGED inst
    /\ UNCHANGED <<k8s, late, tg, targets, queue, lost, lostAddr>>

-----------------------------------------------------------------------------
(***************************************************************************)
(* MachineScope.Close: the patch helper sends the conditions, then         *)
(* metadata and spec, then the status.  Each patch carries the fields that *)
(* differ from the snapshot, and a failed one does not stop the next.      *)
(***************************************************************************)

Overwritten(new, old, server) == new \* mutant: Update instead of Patch
Patched(new, old, server) == IF new = old THEN server ELSE new

MergeConds(o)  == [o EXCEPT !.run = Patched(local.run, base.run, @)]
MergeSpec(o)   == [o EXCEPT !.fin = Patched(local.fin, base.fin, @),
                            !.pid = Patched(local.pid, base.pid, @)]
MergeStatus(o) == [o EXCEPT !.addr = Patched(local.addr, base.addr, @),
                            !.st = Patched(local.st, base.st, @),
                            !.ready = Patched(local.ready, base.ready, @),
                            !.failed = Patched(local.failed, base.failed, @)]

(* An object whose deletion was requested disappears with its finalizer. *)
Finalized(o) == IF o.life = "deleting" /\ ~o.fin THEN [o EXCEPT !.life = "gone"] ELSE o

(* The id and the registered address that only this reconcile knows. *)
FreshPid  == {local.pid} \ {base.pid, Nil}
FreshAddr == IF cur \in ControlPlane THEN ({local.addr} \ {base.addr, Nil}) \cap targets ELSE {}

(* The instance an object that is removed still points at, if the view its *)
(* finalizer was removed on did not.                                       *)
Overlooked == IF base.fin /\ ~local.fin THEN {ym[cur].pid} \ {base.pid, Nil} ELSE {}

PatchConds ==
    /\ pc = "conds"
    /\ pc' = "spec"
    /\ \/ /\ local.run = base.run \/ Exists(ym[cur])
          /\ ym' = [ym EXCEPT ![cur] = MergeConds(@)]
          /\ UNCHANGED <<res, spent>>
       \/ /\ local.run # base.run
          /\ \/ ~Exists(ym[cur]) /\ UNCHANGED spent
             \/ Fault("patch")
          /\ res' = "error"
          /\ UNCHANGED ym
    /\ UNCHANGED <<cache, owner, paused, infra, cloud, queue, cur, booted, base,
                   local, lost, lostAddr>>

PatchSpec ==
    /\ pc = "spec"
    /\ pc' = "status"
    /\ LET changed == local.fin # base.fin \/ local.pid # base.pid
       IN \/ /\ ~changed \/ Exists(ym[cur])
             /\ ym' = [ym EXCEPT ![cur] = Finalized(MergeSpec(@))]
             /\ lost' = lost \cup Overlooked
             /\ UNCHANGED <<res, spent>>
          \/ /\ changed
             /\ \/ ~Exists(ym[cur]) /\ UNCHANGED spent
                \/ Fault("patch")
             /\ res' = "error"
             /\ lost' = lost \cup FreshPid
             /\ UNCHANGED ym
    /\ UNCHANGED <<cache, owner, paused, infra, cloud, queue, cur, booted, base,
                   local, lostAddr>>

(* RequeueAfter and errors bring the key back. *)
RequeueErrors(result) == IF result = "error" THEN queue \cup {cur} ELSE queue \* mutant
Requeue(result) == IF result = "none" THEN queue ELSE queue \cup {cur}

Rest ==
    /\ pc' = "idle"
    /\ cur' = Nil
    /\ booted' = FALSE
    /\ base' = Absent
    /\ local' = Absent
    /\ res' = "none"

(* The last patch and the return from Reconcile.  That the object is gone is *)
(* no error once its finalizer has been removed.                            *)
PatchStatus ==
    /\ pc = "status"
    /\ LET changed == MergeStatus(base) # base
           removed == local.life = "deleting" /\ ~local.fin
       IN \/ /\ ~changed \/ Exists(ym[cur]) \/ removed
             /\ ym' = IF Exists(ym[cur]) THEN [ym EXCEPT ![cur] = MergeStatus(@)] ELSE ym
             /\ queue' = Requeue(res)
             /\ lostAddr' = lostAddr \ FreshAddr
             /\ UNCHANGED spent
          \/ /\ changed
             /\ \/ ~Exists(ym[cur]) /\ ~removed /\ UNCHANGED spent
                \/ Fault("patch")
             /\ queue' = Requeue("error")
             /\ lostAddr' = lostAddr \cup FreshAddr
             /\ UNCHANGED ym
    /\ Rest
    /\ UNCHANGED <<cache, owner, paused, infra, cloud, lost>>

(* The manager stops at any step and starts again: the informers list every *)
(* object, the YandexCluster too, and enqueue it.                           *)
Crash ==
    /\ Fault("crash")
    /\ cache' = ym
    /\ queue' = Existing
    /\ Rest
    /\ lost' = lost \cup (FreshPid \ {ym[m].pid : m \in Machines})
    /\ lostAddr' = lostAddr \cup (FreshAddr \ {ym[m].addr : m \in ControlPlane \cap Existing})
    /\ infra' \in {infra} \cup Later
    /\ infra' = "gone" => infra = "gone" \/ (~tg /\ MaxFaults["cluster"] > 0)
    /\ UNCHANGED <<ym, owner, paused, cloud>>

-----------------------------------------------------------------------------
Environment ==
    \/ \E m \in Machines : \/ CreateMachine(m) \/ DeleteMachine(m)
                           \/ SetOwnerRef(m) \/ SetBootstrapData(m)
    \/ Pause
    \/ Unpause
    \/ ClusterEvent
    \/ \E m \in Machines : LateCreate(m)
    \/ \E i \in Instances : VMStarted(i) \/ VMDeleted(i) \/ VMDisturbed(i)
    \/ TargetGroupUp
    \/ TargetGroupLost

Reconcile ==
    \/ AddFinalizer \/ ComputeCreate \/ ComputeGet \/ AddTarget
    \/ DeleteGet \/ RemoveTarget \/ ComputeDelete
    \/ PatchConds \/ PatchSpec \/ PatchStatus

Next ==
    \/ Environment
    \/ \E m \in Machines : CacheSync(m) \/ Skip(m) \/ Begin(m)
    \/ Reconcile
    \/ Crash

(***************************************************************************)
(* The informer delivers what it has missed, a call returns, an operation  *)
(* of the cloud ends; the work queue is first in first out, so a waiting   *)
(* key is taken in the end even if others keep being requeued.             *)
(***************************************************************************)
Fairness ==
    /\ \A m \in Machines : WF_vars(CacheSync(m)) /\ SF_vars(Skip(m) \/ Begin(m))
    /\ WF_vars(Reconcile)
    /\ \A i \in Instances : WF_vars(VMStarted(i)) /\ WF_vars(VMDeleted(i))

Spec == Init /\ [][Next]_vars
FairSpec == Spec /\ Fairness

-----------------------------------------------------------------------------
(***************************************************************************)
(* Safety.                                                                 *)
(***************************************************************************)

Spent(kinds) == \E k \in kinds : spent[k] > 0

(***************************************************************************)
(* The promise of MachineFinalizer: a compute instance outlives its        *)
(* YandexMachine only if its id was forgotten, and an id is forgotten only *)
(* after a crash, a failed call, a failed patch or a stale read.           *)
(***************************************************************************)
NoOrphan ==
    /\ \A i \in Instances : Alive(i) /\ ~Exists(ym[inst[i].m]) => i \in lost
    /\ lost # {} => Spent({"crash", "cloud", "patch", "stale"})

(***************************************************************************)
(* Why NoOrphan holds: an inductive strengthening of it.                   *)
(***************************************************************************)

(* This reconcile has created an instance and not yet tried to save its id. *)
InFlight == local.pid # base.pid /\ pc \in {"get", "addTarget", "conds", "spec"}

(* Objects: a finalizer is on every object that is being deleted or that has *)
(* an id, ids are of instances created under the object's name, and such     *)
(* names are unique among the instances that exist.                         *)
ObjectsInv ==
    /\ \A m \in Machines :
          /\ ym[m].life = "none" => ym[m].pid = Nil /\ ~ym[m].fin
          /\ ym[m].life = "deleting" => ym[m].fin
          /\ ym[m].life = "live" /\ ym[m].pid # Nil => ym[m].fin
          /\ ym[m].life = "gone" => ~ym[m].fin
          /\ ym[m].pid # Nil => inst[ym[m].pid].m = m /\ inst[ym[m].pid].st # "none"
    /\ \A i \in Instances : inst[i].st # "none" => inst[i].m \in Machines
    /\ \A i, j \in Instances :
          Alive(i) /\ Alive(j) /\ inst[i].m = inst[j].m => i = j

(* Views: the cache and the snapshot lag behind, but never so far that an   *)
(* object they show live with its finalizer is gone.                       *)
Lags(view, m) ==
    /\ view.life = "live" /\ view.fin => Exists(ym[m])
    /\ view.life \in {"deleting", "gone"} => ym[m].life \in {"deleting", "gone"}
    /\ view.fin => ym[m].fin \/ ym[m].life = "gone"
    /\ view.life = "deleting" => view.fin
    /\ view.pid # Nil => inst[view.pid].m = m /\ inst[view.pid].st # "none"

ViewsInv ==
    /\ \A m \in Machines : Lags(cache[m], m)
    /\ pc # "idle" =>
          /\ Lags(base, cur)
          /\ base.life \in {"live", "deleting"}
          /\ base.life = "deleting" => cache[cur].life \in {"deleting", "gone"}
          /\ local.life = base.life
          /\ ~Spent({"stale"}) /\ pc # "status" => ym[cur].pid = base.pid

(* The worker: what holds at each of its steps. *)
WorkerInv ==
    /\ pc = "idle" => local = Absent /\ base = Absent
    /\ pc = "finalizer" => base.life = "live" /\ local = base
    /\ pc \in {"create", "get", "addTarget"} =>
          base.life = "live" /\ local.fin /\ Exists(ym[cur]) /\ ym[cur].fin
    /\ pc = "create" => local.pid = Nil /\ base.pid = Nil
    /\ pc \in {"get", "addTarget"} => local.pid # Nil
    /\ pc = "addTarget" => local.addr # Nil
    /\ pc \in {"delGet", "dereg", "deregGone", "vmDelete"} =>
          base.life = "deleting" /\ local.pid = base.pid /\ local.pid # Nil /\ local.fin = base.fin
    /\ pc = "deregGone" => ~Alive(local.pid)
    /\ pc # "idle" /\ local.pid # base.pid =>
          base.pid = Nil /\ inst[local.pid].m = cur /\ inst[local.pid].st # "none"
    /\ InFlight =>
          /\ local.fin
          /\ Exists(ym[cur])
          /\ ym[cur].fin
          /\ ym[cur].pid # Nil => ~Alive(ym[cur].pid)
    /\ pc \in {"conds", "spec"} /\ ~local.fin =>
          /\ base.life = "deleting"
          /\ local.pid = base.pid
          /\ base.pid # Nil => ~Alive(base.pid)

(* Every instance that exists is known to its object or to the worker. *)
Accounted ==
    \A i \in Instances :
        Alive(i) => \/ i \in lost
                    \/ ym[inst[i].m].pid = i /\ Exists(ym[inst[i].m])
                    \/ InFlight /\ cur = inst[i].m /\ local.pid = i

LossInv == lost # {} \/ late # {} => Spent({"crash", "cloud", "patch", "stale"})

(* The conjunction of the above, which every step preserves. *)
MachineInv == ObjectsInv /\ ViewsInv /\ WorkerInv /\ Accounted /\ LossInv

(***************************************************************************)
(* The failure reason, which the Cluster API takes for final and nothing   *)
(* clears: a machine reports one only after its instance was disturbed or  *)
(* a read of a lagging cache.  Neither the start of the instance nor the   *)
(* machine's own deletion, retried or interrupted, is taken for a failure. *)
(***************************************************************************)
FailureJustified ==
    \A m \in Machines : ym[m].failed => Spent({"vm", "stale"})

(***************************************************************************)
(* deregisterControlPlane: when a YandexMachine is gone, the load balancer *)
(* does not send traffic to its address, unless the address had been       *)
(* registered but never saved in a status, or the instance's id was        *)
(* forgotten.  Reads of a lagging cache and reused addresses are outside   *)
(* this promise.                                                           *)
(***************************************************************************)
NoZombieTarget ==
    ~Spent({"stale"}) =>
        \A i \in Instances :
            /\ inst[i].st # "none"
            /\ ym[inst[i].m].life = "gone"
            /\ Addr[i] \in targets
            => Addr[i] \in lostAddr \/ i \in lost

(***************************************************************************)
(* compute.Delete deregisters before it deletes: an instance on its way    *)
(* out receives no traffic, with the same exceptions.                      *)
(***************************************************************************)
DrainedBeforeDelete ==
    ~Spent({"stale"}) =>
        \A i \in Instances :
            inst[i].st = "DELETING" /\ Addr[i] \in targets => Addr[i] \in lostAddr

Busy(m) == pc # "idle" /\ cur = m

(* A second control plane machine on its way out has the same address in its *)
(* status: the cloud gives the address of a vanished instance again, and    *)
(* deregisterControlPlane removes by address.  (A reconcile that still took *)
(* that machine for live could yet give it another address.)                *)
Contested(m) ==
    \E n \in ControlPlane \ {m} :
        /\ ym[n].life \in {"deleting", "gone"}
        /\ ym[n].addr = ym[m].addr
        /\ Busy(n) => base.life = "deleting"

(***************************************************************************)
(* A control plane machine that is Ready and not being deleted is behind   *)
(* the load balancer, whatever else fails, crashes or is retried, as long  *)
(* as nobody removes the target group and its instance's id is known.      *)
(* Only the deletion of another machine that had the same address can take *)
(* its target away.                                                        *)
(***************************************************************************)
ReadyIsRegistered ==
    ~Spent({"stale", "tg"}) =>
        \A m \in ControlPlane :
            /\ ym[m].life = "live"
            /\ ym[m].ready
            /\ \A i \in lost : inst[i].m # m
            => ym[m].addr \in targets \/ Contested(m)

(***************************************************************************)
(* Nor does this happen at another moment than the deregistration of that  *)
(* machine, while the worker is at it: whatever else fails, crashes, is    *)
(* retried or is forgotten, a Ready machine keeps its target.              *)
(***************************************************************************)
TargetKept ==
    [][\A m \in ControlPlane :
          /\ ym[m].life = "live" /\ ym[m].ready
          /\ ym[m].addr \in targets \ targets'
          => \/ Spent({"stale"}) \/ ~tg'
             \/ \E n \in ControlPlane \ {m} :
                   /\ Busy(n)
                   /\ ym[n].life = "deleting" /\ ym[n].addr = ym[m].addr]_vars

(***************************************************************************)
(* The same promise when the cloud gives freed addresses to new instances: *)
(* every target is the address of a control plane machine that exists, an  *)
(* address the worker is about to save, or one that was never saved or     *)
(* belonged to an instance that was forgotten.  What may be missing then   *)
(* is the target of the address's new owner, not the removal of the old.   *)
(***************************************************************************)
NoStrayTarget ==
    ~Spent({"stale"}) =>
        targets \subseteq
            {ym[m].addr : m \in ControlPlane \cap Existing} \cup FreshAddr
                \cup lostAddr \cup {Addr[i] : i \in lost}

(***************************************************************************)
(* Why these hold: inductive strengthenings, beside MachineInv.            *)
(***************************************************************************)

(* FailureJustified: while no instance is disturbed and no view lags, only   *)
(* the machine's own deletion takes an instance out of service, and no       *)
(* reconcile of a live object meets such an instance.                       *)
UndisturbedInv ==
    ~Spent({"vm", "stale"}) =>
        /\ \A m \in Machines : ~ym[m].failed /\ ~cache[m].failed
        /\ ~base.failed /\ ~local.failed
        /\ \A i \in Instances :
              inst[i].st \notin {"none", "PROVISIONING", "RUNNING"} =>
                  ym[inst[i].m].life \in {"deleting", "gone"}
        /\ base.life = "live" /\ local.pid # Nil =>
              inst[local.pid].st \in {"PROVISIONING", "RUNNING"}

(* The worker's snapshot is current, and an address it has found is that of *)
(* the instance it reconciles, which nobody else deletes meanwhile.         *)
SnapshotInv ==
    pc # "idle" =>
        /\ ym[cur].addr = base.addr
        /\ ym[cur].ready = base.ready
        /\ ym[cur].pid \in {base.pid, local.pid}
        /\ local.addr # base.addr =>
              base.life = "live" /\ local.pid # Nil /\ local.addr = Addr[local.pid]
        /\ pc = "addTarget" => cur \in ControlPlane /\ local.addr = Addr[local.pid]
        /\ pc \in {"dereg", "deregGone"} => cur \in ControlPlane
        /\ pc \in {"delGet", "dereg", "deregGone"} => ym[cur].life = "deleting"
        /\ pc # "status" => local.pid \notin lost
        /\ base.life = "live" /\ local.pid # Nil => inst[local.pid].st # "DELETING"

(* A machine has had no instance but the one in its spec and lost ones, its *)
(* address is one of theirs, and only its own deletion deletes them.        *)
KnownInv ==
    /\ \A i \in Instances :
          inst[i].st # "none" => \/ i \in lost
                                 \/ ym[inst[i].m].pid = i
                                 \/ InFlight /\ cur = inst[i].m /\ local.pid = i
    /\ \A i \in lost : inst[i].st # "none"
    /\ \A m \in Machines :
          /\ ym[m].pid \notin lost
          /\ ym[m].addr # Nil => \E i \in Instances :
                                   ym[m].addr = Addr[i] /\ inst[i].m = m /\ inst[i].st # "none"
    /\ \A i \in Instances :
          inst[i].st = "DELETING" => ym[inst[i].m].life \in {"deleting", "gone"}

(* A registered address is in a status, about to be saved there, or lost. *)
RegisteredInv ==
    \A i \in Instances :
        Addr[i] \in targets =>
            /\ inst[i].m \in ControlPlane
            /\ inst[i].st # "none"
            /\ \/ i \in lost
               \/ Addr[i] \in lostAddr
               \/ ym[inst[i].m].addr = Addr[i]
               \/ cur = inst[i].m /\ local.addr = Addr[i]

(* No traffic for an instance that is being deleted or whose machine is gone. *)
Silent(i) == Addr[i] \in targets => Addr[i] \in lostAddr

DrainedInv ==
    /\ \A i \in Instances : inst[i].st = "DELETING" => Silent(i)
    /\ \A m \in Machines : ym[m].life = "gone" /\ ym[m].pid # Nil => Silent(ym[m].pid)
    /\ pc = "vmDelete" => Silent(local.pid)
    /\ pc \in {"conds", "spec"} /\ ~local.fin /\ base.pid # Nil => Silent(base.pid)

(* NoZombieTarget and DrainedBeforeDelete, where every instance has an       *)
(* address of its own.                                                      *)
TargetsInv ==
    ~Spent({"stale"}) => SnapshotInv /\ KnownInv /\ RegisteredInv /\ DrainedInv

(* Ready comes after the registration, and goes with the same address. *)
ServingInv ==
    ~Spent({"tg"}) =>
        /\ \A m \in ControlPlane :
              ym[m].ready /\ (\A i \in lost : inst[i].m # m) =>
                 /\ ym[m].pid # Nil
                 /\ ym[m].addr = Addr[ym[m].pid]
                 /\ ym[m].life = "live" => ym[m].addr \in targets \/ Contested(m)
        /\ cur \in ControlPlane /\ local.ready /\ ~base.ready =>
              /\ base.life = "live" /\ local.pid # Nil
              /\ local.addr = Addr[local.pid] /\ local.addr \in targets

(* NoStrayTarget and ReadyIsRegistered, with or without addresses of their   *)
(* own: when the finalizer of a machine that has had an instance goes, its  *)
(* address is deregistered.                                                 *)
RemovedInv ==
    /\ pc \in {"conds", "spec"}
    /\ ~local.fin
    /\ cur \in ControlPlane
    /\ base.pid # Nil
    => base.addr \notin targets

StrayInv ==
    /\ NoStrayTarget
    /\ ~Spent({"stale"}) => SnapshotInv /\ KnownInv /\ RemovedInv /\ ServingInv

(***************************************************************************)
(* No wake-up is lost.  Reconcile returns without a requeue at its gates,  *)
(* when it is done and when it waits for an event; so whenever a machine   *)
(* is being deleted, or could be provisioned and is not Ready, its key is  *)
(* in the queue, the informer still owes an event, or the worker has it.   *)
(***************************************************************************)
Deletable(m) == ym[m].life = "deleting" /\ ~paused /\ infra # "gone"

Provisionable(m) ==
    /\ ym[m].life = "live" /\ ~ym[m].ready
    /\ owner[m] = "boot" /\ ~paused /\ infra = "up"

NotForgotten ==
    \A m \in Machines :
        Deletable(m) \/ Provisionable(m) => m \in queue \/ cache[m] # ym[m] \/ Busy(m)

(* Why: a reconcile that read the object in its present phase ends with a   *)
(* requeue or with the work done, and one that read it in an earlier phase  *)
(* is followed by the event of the change.                                  *)
WakeInv ==
    /\ infra = "absent" => pc = "idle"
    /\ \A m \in Machines :
          /\ ym[m].life = "none" => owner[m] = "none"
          /\ ym[m].fin => owner[m] # "none" /\ infra # "absent"
          /\ cache[m].ready => ym[m].ready
          /\ Deletable(m) =>
                \/ m \in queue
                \/ cache[m].life # "deleting"
                \/ Busy(m) /\ base.life = "deleting"
          /\ Provisionable(m) =>
                \/ m \in queue
                \/ cache[m] # ym[m]
                \/ Busy(m) /\ base.life = "live" /\ booted
    /\ pc # "idle" =>
          /\ owner[cur] # "none"
          /\ base.ready => ym[cur].ready /\ local.ready
          /\ ~booted /\ owner[cur] = "boot" => cur \in queue
    /\ pc \in {"conds", "spec", "status"} /\ res = "none" =>
          /\ base.life = "live" /\ booted => local.ready
          /\ base.life = "deleting" => ~local.fin /\ (pc = "status" => ym[cur].life = "gone")

(***************************************************************************)
(* The invariants that the properties about failures, traffic, stray       *)
(* targets and wake-ups rest on.                                           *)
(***************************************************************************)
SupportInv == UndisturbedInv /\ TargetsInv /\ StrayInv /\ WakeInv

(***************************************************************************)
(* A recorded providerID is replaced only when its instance has vanished.  *)
(***************************************************************************)
ProviderIDKept ==
    [][\A m \in Machines :
          ym[m].pid # Nil /\ ym'[m].pid # ym[m].pid => ~Alive(ym[m].pid)]_vars

(***************************************************************************)
(* Liveness, once the Cluster stays unpaused and the YandexCluster stays.  *)
(***************************************************************************)

Settled == <>[](~paused /\ infra \in {"unowned", "up"})

(***************************************************************************)
(* A YandexMachine that is being deleted goes away.                        *)
(***************************************************************************)
DeletionCompletes ==
    Settled => \A m \in Machines : (ym[m].life = "deleting") ~> (ym[m].life = "gone")

(* The cloud holds an instance under the machine's name that the machine    *)
(* has no id for: every further create call is refused.                    *)
Blocked(m) == \E i \in lost : Alive(i) /\ inst[i].m = m

(***************************************************************************)
(* A machine with bootstrap data becomes Ready or reports a failure, once  *)
(* the target group stays, unless a forgotten instance holds its name.     *)
(***************************************************************************)
ProvisioningCompletes ==
    Settled /\ <>[]tg =>
        \A m \in Machines :
            (ym[m].life = "live" /\ owner[m] = "boot")
                ~> (ym[m].life # "live" \/ ym[m].ready \/ ym[m].failed \/ Blocked(m))

-----------------------------------------------------------------------------
(***************************************************************************)
(* The abstract specification: YandexMachines are objects with a finalizer *)
(* that own the compute instances under their names.                       *)
(***************************************************************************)
Finalizer ==
    INSTANCE FinalizedObjects WITH
        Objects   <- Machines,
        Resources <- Instances,
        life      <- [m \in Machines |-> ym[m].life],
        fin       <- [m \in Machines |-> ym[m].fin],
        held      <- [m \in Machines |-> {i \in Instances : Alive(i) /\ inst[i].m = m}],
        leaked    <- lost,
        faulty    <- Spent({"crash", "cloud", "patch", "stale"})

(***************************************************************************)
(* The controller implements it: an instance is created only while its     *)
(* YandexMachine has MachineFinalizer in the API server, and the finalizer *)
(* is removed only when no known instance is left.                         *)
(***************************************************************************)
FinalizerRespected == Finalizer!Spec

-----------------------------------------------------------------------------
(***************************************************************************)
(* What the repository says of the program and the program does not do.    *)
(***************************************************************************)

(***************************************************************************)
(* "MachineFinalizer allows cleaning up resources associated with          *)
(* YandexMachine before removing it from the apiserver": no instance       *)
(* outlives its YandexMachine, without exception.                          *)
(***************************************************************************)
OrphanFree == \A i \in Instances : Alive(i) => Exists(ym[inst[i].m])

(***************************************************************************)
(* "Try to deregister deleted VM to prevent zombie targets in load         *)
(* balancer": no target outlives its YandexMachine, without exception.     *)
(***************************************************************************)
ZombieFree ==
    \A i \in Instances :
        inst[i].st # "none" /\ Addr[i] \in targets => ym[inst[i].m].life # "gone"

(***************************************************************************)
(* The same comment, for the machines that stay: what is deregistered is   *)
(* never the target of a running instance of a live, Ready machine.        *)
(***************************************************************************)
OnlyZombiesRemoved ==
    [][\A i \in Instances :
          /\ inst[i].st = "RUNNING"
          /\ Addr[i] \in targets \ targets'
          => ~(ym[inst[i].m].life = "live" /\ ym[inst[i].m].ready)]_vars
=============================================================================
